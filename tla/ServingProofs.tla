---------------------------- MODULE ServingProofs ----------------------------
(***************************************************************************)
(* What a statement reads, for any tables, clones, statements, versions,   *)
(* failures and interleaving of them.                                      *)
(*                                                                         *)
(* Typed gives each statement's variables their types.  Fresh is why what  *)
(* a list has of a table is whole and no older than the statement, and     *)
(* Families why it has of a clone where the clone's files are.  Each is    *)
(* inductive on top of Typed.                                              *)
(***************************************************************************)
EXTENDS Serving, WellFoundedInduction, TLAPS

(* Types: those of TypeOK, and those of what a statement carries.          *)

Logs == [Roots -> {Absent} \cup {Table(v) : v \in 0 .. MaxVersion} \cup Cloned]

Replays == [version : -1 .. MaxVersion, files : SUBSET (1 .. MaxVersion)]

\* The variables of each statement are functions of the statements.
Shapes ==
    /\ at = [s \in Statements |-> at[s]]
    /\ list = [s \in Statements |-> list[s]]
    /\ todo = [s \in Statements |-> todo[s]]
    /\ now = [s \in Statements |-> now[s]]
    /\ found = [s \in Statements |-> found[s]]
    /\ moved = [s \in Statements |-> moved[s]]
    /\ asked = [s \in Statements |-> asked[s]]
    /\ began = [s \in Statements |-> began[s]]
    /\ failed = [s \in Statements |-> failed[s]]

\* Open tables, each under its own name, which is there unless it is a clone's.
IsList(tables) ==
    /\ DOMAIN tables \subseteq Roots /\ \A r \in DOMAIN tables : tables[r] \in Open
    /\ \A t \in DOMAIN tables \cap Tables : Exists(t)

\* What one statement carries.
CarriesTyped(s) ==
    /\ at[s] \in {"idle", "refresh", "resolve", "adopt", "version", "read",
                  "creating", "dropping"}
    /\ IsList(list[s]) /\ IsList(found[s]) /\ todo[s] \subseteq Tables
    /\ now[s] \in 0 .. MaxVersion /\ moved[s] \in BOOLEAN
    /\ began[s] \in [Roots -> -1 .. MaxVersion] /\ failed[s] \subseteq Roots
    /\ at[s] \in {"refresh", "resolve"} => todo[s] \subseteq DOMAIN list[s]
    /\ at[s] = "resolve" => DOMAIN found[s] \subseteq DOMAIN list[s]
    /\ at[s] = "version" => todo[s] \subseteq DOMAIN found[s]
    /\ at[s] = "creating" => asked[s].name \in Names /\ asked[s].lineage \in Lineages
    /\ at[s] = "dropping" => asked[s].name \in Names

SharedTyped ==
    /\ log \in Logs /\ cache \in [Tables -> Replays] /\ IsList(servable)
    /\ created \in [Names -> Nat] /\ defined \in 0 .. MaxDefined
    /\ faults \in 0 .. MaxFaults /\ severed \in SUBSET Names

Typed == Shapes /\ SharedTyped /\ \A s \in Statements : CarriesTyped(s)

(* Freshness.                                                              *)

\* A name is free or a clone's; a table is never a clone.
KindsApart ==
    /\ \A n \in Names : log[n] = Absent \/ log[n] \in Cloned
    /\ \A t \in Tables : log[t] = Absent \/ \E v \in 0 .. MaxVersion : log[t] = Table(v)

\* What the cache holds is a version of the table, whole.
CacheWhole ==
    \A t \in Tables : cache[t].version <= Newest(t) /\ cache[t].files = 1 .. cache[t].version

\* An open table is whole at a version, and recorded no newer unless a commit overtook it.
Whole(open) ==
    \E v \in 0 .. MaxVersion :
        open.files = 1 .. v /\ (open.resolved_at <= v \/ open.flaw = "overtaken")

\* An open table is whole at no older a version than this, unless a commit overtook it.
NoOlder(open, oldest) ==
    open.flaw = "overtaken" \/ \E v \in oldest .. MaxVersion : v >= 0 /\ open.files = 1 .. v

\* What is expected of a table: it was there, and no call has failed on it.
Owed(s, t) == began[s][t] # -1 /\ t \notin failed[s]

\* What a statement has of a table.  Until it walks the warehouse it has looked at those
\* it has in its list; from then on it has every table in its list, or among those found.
CarriesFresh(s, t) ==
    /\ t \in DOMAIN list[s] => Whole(list[s][t])
    /\ began[s][t] <= Newest(t)
    /\ at[s] \in {"refresh", "resolve"} /\ Owed(s, t) /\ t \in DOMAIN list[s] \ todo[s] =>
          NoOlder(list[s][t], began[s][t])
    /\ at[s] = "resolve" /\ t \in DOMAIN found[s] =>
          now[s] <= Newest(t) /\ (cache[t].version = -1 \/ now[s] <= cache[t].version)
    /\ at[s] \in {"adopt", "version", "read"} /\ Owed(s, t) =>
          \/ t \in DOMAIN list[s] /\ NoOlder(list[s][t], began[s][t])
          \/ at[s] # "read" /\ t \in DOMAIN found[s]
    /\ at[s] = "version" /\ t \in todo[s] =>
          \E v \in 0 .. MaxVersion :
              found[s][t].files = 1 .. v /\ (began[s][t] <= v \/ t \in failed[s])

Fresh ==
    /\ KindsApart /\ CacheWhole
    /\ \A t \in Tables :
          /\ t \in DOMAIN servable => Whole(servable[t])
          /\ \A s \in Statements : CarriesFresh(s, t)

(* Clones.                                                                 *)

\* A clone nothing was removed under has its origin: a table, which is where its files
\* are, or such a clone, whose files are where its own are.
Founded(c) ==
    LET origin == log[c].lineage.origin
    IN  /\ Exists(origin)
        /\ IF IsClone(origin)
           THEN /\ origin \in Names \ severed
                /\ log[c].root = log[origin].root /\ log[c].depth = log[origin].depth + 1
           ELSE log[c].root = log[c].lineage /\ log[c].depth = 1

\* A clone a statement can be held to.
Sound(c) ==
    IsClone(c) /\ created[c] = 1 /\ c \notin severed /\ log[c].depth <= MaxDepth

\* A list that has a clone has what it inherits.
HasRoots(tables) ==
    \A n \in DOMAIN tables \cap Names :
        /\ created[n] >= 1
        /\ Sound(n) => tables[n].flaw = "unread" \/ tables[n].inherited = log[n].root

\* What a statement has of clones: what each inherits, and every one that was there
\* all along in its list, or among those it has found, unless a call failed on it.
CarriesRooted(s) ==
    /\ HasRoots(list[s]) /\ HasRoots(found[s])
    /\ \A n \in Names : began[s][n] # -1 =>
          /\ Exists(n)
          /\ at[s] \in {"adopt", "version"} => n \in DOMAIN list[s] \cup DOMAIN found[s] \cup failed[s]
          /\ at[s] = "read" => n \in DOMAIN list[s] \cup failed[s]

\* Every clone has had its name given, and has its files unless something was removed.
Lineal == \A c \in Names : IsClone(c) => created[c] >= 1 /\ (c \notin severed => Founded(c))

Families ==
    /\ KindsApart /\ Lineal /\ HasRoots(servable)
    /\ \A s \in Statements : CarriesRooted(s)

-----------------------------------------------------------------------------
(* A log is absent, a table's or a clone's.                                *)

LEMMA KindOfLog ==
    ASSUME log \in Logs, NEW r \in Roots
    PROVE  \/ log[r] = Absent
           \/ \E v \in 0 .. MaxVersion : log[r] = Table(v)
           \/ log[r] \in Cloned
BY DEF Logs

LEMMA AbsentLog ==
    ASSUME NEW r, log[r] = Absent
    PROVE  ~Exists(r) /\ ~IsClone(r) /\ Newest(r) = -1 /\ FilesOf(r) = {}
BY DEF Absent, Exists, IsClone, Newest, FilesOf

LEMMA TableLog ==
    ASSUME NEW r, NEW v \in 0 .. MaxVersion, log[r] = Table(v)
    PROVE  Exists(r) /\ ~IsClone(r) /\ Newest(r) = v /\ FilesOf(r) = 1 .. v
BY DEF Table, Exists, IsClone, Newest, FilesOf

LEMMA CloneLog ==
    ASSUME NEW r, log[r] \in Cloned
    PROVE  /\ Exists(r) /\ IsClone(r) /\ Newest(r) = 0 /\ FilesOf(r) = {}
           /\ log[r].lineage \in Lineages /\ log[r].root \in Lineages
           /\ log[r].depth \in Nat \ {0}
BY DEF Cloned, Exists, IsClone, Newest, FilesOf

LEMMA LogBounds ==
    ASSUME log \in Logs, ServingAssumption, NEW r \in Roots
    PROVE  /\ Newest(r) \in -1 .. MaxVersion
           /\ Exists(r) => Newest(r) \in 0 .. MaxVersion
           /\ ~Exists(r) => Newest(r) = -1
           /\ FilesOf(r) \subseteq 1 .. MaxVersion
<1>1. MaxVersion \in Nat
  BY DEF ServingAssumption
<1>2. CASE log[r] = Absent
  BY <1>1, <1>2, AbsentLog
<1>3. ASSUME NEW v \in 0 .. MaxVersion, log[r] = Table(v)
      PROVE  /\ Newest(r) \in -1 .. MaxVersion /\ Newest(r) \in 0 .. MaxVersion /\ Exists(r)
             /\ FilesOf(r) \subseteq 1 .. MaxVersion
  BY <1>1, <1>3, TableLog
<1>4. CASE log[r] \in Cloned
  BY <1>1, <1>4, CloneLog
<1> QED
  BY <1>2, <1>3, <1>4, KindOfLog

LEMMA CloneIsCloned ==
    ASSUME log \in Logs, NEW r \in Roots, IsClone(r)
    PROVE  log[r] \in Cloned
BY KindOfLog, AbsentLog, TableLog

LEMMA LookupTyped ==
    ASSUME SharedTyped, ServingAssumption, NEW t \in Tables
    PROVE  Lookup(t) \in Replays /\ Lookup(t).files \in SUBSET (1 .. MaxVersion)
<1> DEFINE held == IF cache[t].version > Newest(t) THEN Cold ELSE cache[t]
<1>1. Newest(t) \in -1 .. MaxVersion /\ FilesOf(t) \subseteq 1 .. MaxVersion
  BY LogBounds DEF SharedTyped, Roots
<1>2. held.files \subseteq 1 .. MaxVersion
  <2>1. cache[t].files \subseteq 1 .. MaxVersion
    BY DEF SharedTyped, Replays
  <2> QED
    BY <2>1 DEF Cold
<1>3. Lookup(t) = [version |-> Newest(t),
                   files |-> held.files \cup {f \in FilesOf(t) : f > held.version}]
  BY DEF Lookup
<1> HIDE DEF held
<1>4. held.files \cup {f \in FilesOf(t) : f > held.version} \in SUBSET (1 .. MaxVersion)
  BY <1>1, <1>2
<1> QED
  BY <1>1, <1>3, <1>4 DEF Replays

-----------------------------------------------------------------------------
(* The walk to a clone's files.  That a recursive function is what its     *)
(* definition says needs a proof that there is such a function, which is   *)
(* by induction over a set of naturals.                                    *)

LEMMA LeastElement ==
    ASSUME NEW S \in SUBSET Nat, S # {}
    PROVE  \E m \in S : \A n \in S : m <= n
<1> DEFINE Less == OpToRel(<, Nat)
<1>1. \A x, y \in Nat : x < y => <<x, y>> \in Less
  BY DEF OpToRel
<1>2. PICK m \in S : \A n \in S : ~ (<<n, m>> \in Less)
  <2>1. IsWellFoundedOn(Less, Nat)
    BY NatLessThanWellFounded
  <2> HIDE DEF Less
  <2> QED
    BY <2>1, WFMin
<1> HIDE DEF Less
<1>3. ASSUME NEW n \in S PROVE m <= n
  <2>1. ~ (n < m)
    BY <1>1, <1>2
  <2> QED
    BY <2>1
<1> QED
  BY <1>2, <1>3

LEMMA SetInduction ==
    ASSUME NEW S \in SUBSET Nat, 0 \in S, \A n \in S : n + 1 \in S
    PROVE  S = Nat
<1>1. ASSUME Nat \ S # {} PROVE FALSE
  <2>1. PICK m \in Nat \ S : \A n \in Nat \ S : m <= n
    BY <1>1, LeastElement
  <2>2. m # 0 /\ m - 1 \in Nat /\ ~ (m <= m - 1)
    BY <2>1
  <2>3. m - 1 \in S
    BY <2>1, <2>2
  <2>4. (m - 1) + 1 \in S
    BY <2>3
  <2> QED
    BY <2>1, <2>4
<1> QED
  BY <1>1

\* The walks from every lineage with so many left, given those with one less.
Walks(left, g) ==
    [l \in Lineages |->
        IF left = 0 \/ ~Exists(l.origin) THEN Plain
        ELSE IF IsClone(l.origin) THEN g[left - 1][log[l.origin].lineage]
        ELSE l]

LEMMA WalksExist ==
    \A n \in Nat : \E g : g = [left \in 0 .. n |-> Walks(left, g)]
<1> DEFINE S == {n \in Nat : \E g : g = [left \in 0 .. n |-> Walks(left, g)]}
<1>1. 0 \in S
  <2> DEFINE g == [left \in 0 .. 0 |-> [l \in Lineages |-> Plain]]
  <2>1. Walks(0, g) = [l \in Lineages |-> Plain]
    BY DEF Walks
  <2>2. g = [left \in 0 .. 0 |-> Walks(left, g)]
    BY <2>1
  <2> QED
    BY <2>2
<1>2. ASSUME NEW n \in S PROVE n + 1 \in S
  <2>1. PICK g : g = [left \in 0 .. n |-> Walks(left, g)]
    OBVIOUS
  <2>2. n \in Nat
    OBVIOUS
  <2> DEFINE h == [left \in 0 .. n + 1 |-> IF left = n + 1 THEN Walks(n + 1, g) ELSE g[left]]
  <2>3. ASSUME NEW left \in 0 .. n + 1 PROVE h[left] = Walks(left, h)
    <3>1. left > 0 => left - 1 \in 0 .. n /\ h[left - 1] = g[left - 1]
      BY <2>2
    <3>2. Walks(left, h) = Walks(left, g)
      <4> HIDE DEF h
      <4>1. CASE left = 0
        BY <4>1 DEF Walks
      <4>2. CASE left > 0
        BY <3>1, <4>2 DEF Walks
      <4> QED
        BY <2>2, <4>1, <4>2
    <3>3. CASE left = n + 1
      BY <3>2, <3>3
    <3>4. CASE left # n + 1
      <4>1. left \in 0 .. n /\ h[left] = g[left]
        BY <2>2, <3>4
      <4>2. g[left] = Walks(left, g)
        <5> HIDE DEF h
        <5> QED
          BY <2>1, <4>1
      <4> QED
        BY <3>2, <4>1, <4>2
    <3> QED
      BY <3>3, <3>4
  <2>4. h = [left \in 0 .. n + 1 |-> h[left]]
    OBVIOUS
  <2> HIDE DEF h
  <2>5. h = [left \in 0 .. n + 1 |-> Walks(left, h)]
    BY <2>3, <2>4
  <2> QED
    BY <2>2, <2>5
<1>3. S = Nat
  <2>1. S \in SUBSET Nat
    OBVIOUS
  <2> HIDE DEF S
  <2> QED
    BY <1>1, <1>2, <2>1, SetInduction
<1> QED
  BY <1>3

LEMMA RootedWalks ==
    ASSUME ServingAssumption, NEW left \in 0 .. MaxDepth
    PROVE  Rooted[left] = Walks(left, Rooted)
<1>1. MaxDepth \in Nat
  BY DEF ServingAssumption
<1>2. \E g : g = [k \in 0 .. MaxDepth |-> Walks(k, g)]
  BY <1>1, WalksExist
<1>3. Rooted = CHOOSE g : g = [k \in 0 .. MaxDepth |-> Walks(k, g)]
  BY Zenon DEF Rooted, Walks
<1>4. Rooted = [k \in 0 .. MaxDepth |-> Walks(k, Rooted)]
  BY <1>2, <1>3, Zenon
<1> QED
  BY <1>4, Zenon

LEMMA RootedStep ==
    ASSUME ServingAssumption, NEW left \in 0 .. MaxDepth, NEW l \in Lineages
    PROVE  Rooted[left][l] =
              IF left = 0 \/ ~Exists(l.origin) THEN Plain
              ELSE IF IsClone(l.origin) THEN Rooted[left - 1][log[l.origin].lineage]
              ELSE l
BY RootedWalks DEF Walks

LEMMA RootedTyped ==
    ASSUME ServingAssumption, log \in Logs
    PROVE  \A left \in 0 .. MaxDepth, l \in Lineages : Rooted[left][l] \in Lineages \cup {Plain}
<1> DEFINE Good(k) == k <= MaxDepth => \A l \in Lineages : Rooted[k][l] \in Lineages \cup {Plain}
           S == {k \in Nat : Good(k)}
<1>1. MaxDepth \in Nat
  BY DEF ServingAssumption
<1>2. 0 \in S
  <2>1. 0 \in 0 .. MaxDepth
    BY <1>1
  <2> QED
    BY <2>1, RootedStep
<1>3. ASSUME NEW k \in S PROVE k + 1 \in S
  <2> SUFFICES ASSUME k + 1 <= MaxDepth, NEW l \in Lineages
               PROVE  Rooted[k + 1][l] \in Lineages \cup {Plain}
    OBVIOUS
  <2>1. k + 1 \in 0 .. MaxDepth /\ (k + 1) - 1 = k /\ k + 1 # 0 /\ k <= MaxDepth
    BY <1>1
  <2>2. Rooted[k + 1][l] = IF ~Exists(l.origin) THEN Plain
                           ELSE IF IsClone(l.origin) THEN Rooted[k][log[l.origin].lineage]
                           ELSE l
    BY <2>1, RootedStep
  <2>3. IsClone(l.origin) => log[l.origin].lineage \in Lineages
    <3>1. l.origin \in Roots
      BY DEF Lineages
    <3> QED
      BY <3>1, CloneIsCloned, CloneLog
  <2>4. \A m \in Lineages : Rooted[k][m] \in Lineages \cup {Plain}
    BY <2>1
  <2> QED
    BY <2>2, <2>3, <2>4
<1>4. S = Nat
  <2>1. S \in SUBSET Nat
    OBVIOUS
  <2> HIDE DEF S
  <2> QED
    BY <1>2, <1>3, <2>1, SetInduction
<1>5. ASSUME NEW left \in 0 .. MaxDepth PROVE Good(left)
  BY <1>1, <1>4
<1> QED
  BY <1>1, <1>5

LEMMA InheritedTyped ==
    ASSUME ServingAssumption, log \in Logs, NEW r \in Roots
    PROVE  Inherited(r) \in Lineages \cup {Plain}
<1>1. MaxDepth \in 0 .. MaxDepth
  BY DEF ServingAssumption
<1>2. IsClone(r) => log[r].lineage \in Lineages
  BY CloneIsCloned, CloneLog
<1> QED
  BY <1>1, <1>2, RootedTyped DEF Inherited

-----------------------------------------------------------------------------
(* What each action does to the statement whose it is, and that it leaves  *)
(* the others alone.                                                       *)

KeptButBegan(q) ==
    /\ at'[q] = at[q] /\ list'[q] = list[q] /\ todo'[q] = todo[q] /\ now'[q] = now[q]
    /\ found'[q] = found[q] /\ moved'[q] = moved[q]
    /\ asked'[q] = asked[q] /\ failed'[q] = failed[q]

Kept(q) == KeptButBegan(q) /\ began'[q] = began[q]

OthersKept(s) == Shapes' /\ \A q \in Statements \ {s} : Kept(q)

\* A call fails or does not: that many fail.
Counted == faults' = faults \/ (faults < MaxFaults /\ faults' = faults + 1)

LogsKept == UNCHANGED <<log, created, severed>>

LEMMA BeginDoes ==
    ASSUME Shapes, NEW s \in Statements, Begin(s)
    PROVE  /\ OthersKept(s) /\ LogsKept
           /\ at[s] = "idle" /\ at'[s] = "refresh"
           /\ list'[s] = servable /\ todo'[s] = DOMAIN servable \cap Tables
           /\ began'[s] = [r \in Roots |-> Newest(r)]
           /\ moved'[s] = moved[s] /\ now'[s] = now[s] /\ found'[s] = found[s]
           /\ asked'[s] = asked[s] /\ failed'[s] = failed[s]
           /\ UNCHANGED <<cache, servable, defined, faults>>
BY DEF Shapes, OthersKept, Kept, KeptButBegan, LogsKept, Begin, given, kept

\* A look at a table: what it says, and what it leaves in the cache.
Says(s, t, version) ==
    \/ /\ version = Newest(t) /\ cache' = [cache EXCEPT ![t] = Lookup(t)]
       /\ failed'[s] = failed[s]
    \/ /\ version = list[s][t].resolved_at /\ LookFails(t)
       /\ failed'[s] = failed[s] \cup {t}
    \/ /\ version = cache[t].version /\ LooksNoFurther(t)
       /\ failed'[s] = failed[s] \cup {t}

LEMMA LookedDoes ==
    ASSUME Shapes, NEW s \in Statements, NEW t \in Tables, Refresh(s, t) \/ RefreshFails(s, t)
    PROVE  /\ OthersKept(s) /\ LogsKept /\ Counted
           /\ at[s] = "refresh" /\ t \in todo[s]
           /\ list'[s] = list[s] /\ moved'[s] = moved[s]
           /\ asked'[s] = asked[s] /\ began'[s] = began[s]
           /\ UNCHANGED <<servable, defined>>
           /\ \E version :
                 /\ Says(s, t, version)
                 /\ \/ /\ version = list[s][t].resolved_at
                       /\ at'[s] = "refresh" /\ todo'[s] = todo[s] \ {t}
                       /\ now'[s] = now[s] /\ found'[s] = found[s]
                    \/ /\ version # list[s][t].resolved_at
                       /\ at'[s] = "resolve" /\ todo'[s] = todo[s]
                       /\ now'[s] = version /\ found'[s] = [x \in {t} |-> Unopened]
<1> DEFINE Goes(version) ==
             \/ /\ version = list[s][t].resolved_at
                /\ at'[s] = "refresh" /\ todo'[s] = todo[s] \ {t}
                /\ now'[s] = now[s] /\ found'[s] = found[s]
             \/ /\ version # list[s][t].resolved_at
                /\ at'[s] = "resolve" /\ todo'[s] = todo[s]
                /\ now'[s] = version /\ found'[s] = [x \in {t} |-> Unopened]
<1>1. at[s] = "refresh" /\ t \in todo[s]
  BY DEF Refresh, RefreshFails
<1>2. ASSUME NEW version, Looked(s, t, version)
      PROVE  /\ Goes(version)
             /\ list'[s] = list[s] /\ moved'[s] = moved[s]
             /\ asked'[s] = asked[s] /\ began'[s] = began[s]
             /\ UNCHANGED <<log, servable, given, severed, list, moved, asked, began>>
             /\ at' = [x \in Statements |-> at'[x]] /\ todo' = [x \in Statements |-> todo'[x]]
             /\ now' = [x \in Statements |-> now'[x]] /\ found' = [x \in Statements |-> found'[x]]
             /\ \A q \in Statements \ {s} :
                   /\ at'[q] = at[q] /\ todo'[q] = todo[q] /\ now'[q] = now[q]
                   /\ found'[q] = found[q]
  BY <1>1, <1>2 DEF Shapes, Looked
<1>3. CASE Refresh(s, t)
  <2>1. Looked(s, t, Newest(t)) /\ cache' = [cache EXCEPT ![t] = Lookup(t)] /\ UNCHANGED kept
    BY <1>3 DEF Refresh
  <2>2. Says(s, t, Newest(t)) /\ Counted
    BY <2>1 DEF Says, Counted, kept
  <2>3. OthersKept(s) /\ LogsKept
    BY <1>2, <2>1 DEF OthersKept, Kept, KeptButBegan, Shapes, LogsKept, kept, given
  <2> QED
    BY <1>1, <1>2, <2>1, <2>2, <2>3 DEF given
<1>4. CASE RefreshFails(s, t)
  <2>1. PICK version : /\ Looked(s, t, version)
                       /\ \/ version = list[s][t].resolved_at /\ LookFails(t)
                          \/ version = cache[t].version /\ LooksNoFurther(t)
    BY <1>4 DEF RefreshFails
  <2>2. /\ Fails(s, {t}) /\ failed'[s] = failed[s] \cup {t} /\ Counted
        /\ failed' = [x \in Statements |-> failed'[x]]
        /\ \A q \in Statements \ {s} : failed'[q] = failed[q]
    BY <1>4 DEF RefreshFails, Fails, Shapes, Counted
  <2>3. Says(s, t, version)
    BY <2>1, <2>2 DEF Says
  <2>4. OthersKept(s) /\ LogsKept
    BY <1>2, <2>1, <2>2 DEF OthersKept, Kept, KeptButBegan, Shapes, LogsKept, given
  <2> QED
    BY <1>1, <1>2, <2>1, <2>2, <2>3, <2>4 DEF given
<1> QED
  BY <1>3, <1>4

\* A list with a table that was resolved again.
ListResolved(s, t, files) == [list[s] EXCEPT ![t] = Again(list[s][t], files, now[s])]

LEMMA TriedDoes ==
    ASSUME Shapes, NEW s \in Statements, NEW t \in Tables, Resolve(s, t) \/ ResolveFails(s, t)
    PROVE  /\ OthersKept(s) /\ LogsKept /\ Counted
           /\ at[s] = "resolve" /\ t \in DOMAIN found[s]
           /\ at'[s] = "refresh" /\ todo'[s] = todo[s] \ {t} /\ found'[s] = Nothing /\ now'[s] = 0
           /\ asked'[s] = asked[s] /\ began'[s] = began[s]
           /\ UNCHANGED <<servable, defined>>
           /\ moved'[s] \in {moved[s], TRUE}
           /\ \/ /\ cache' = [cache EXCEPT ![t] = Lookup(t)] /\ failed'[s] = failed[s]
                 /\ list'[s] = ListResolved(s, t, Lookup(t).files)
              \/ /\ LookFails(t) /\ failed'[s] = failed[s] \cup {t} /\ list'[s] = list[s]
              \/ /\ LooksNoFurther(t) /\ failed'[s] = failed[s] \cup {t}
                 /\ list'[s] = ListResolved(s, t, cache[t].files)
<1>1. at[s] = "resolve" /\ t \in DOMAIN found[s] /\ Tried(s, t)
  BY DEF Resolve, ResolveFails
<1>2. /\ at'[s] = "refresh" /\ todo'[s] = todo[s] \ {t} /\ found'[s] = Nothing /\ now'[s] = 0
      /\ asked'[s] = asked[s] /\ began'[s] = began[s]
      /\ UNCHANGED <<log, servable, created, defined, asked, began, severed>>
      /\ at' = [x \in Statements |-> at'[x]] /\ todo' = [x \in Statements |-> todo'[x]]
      /\ now' = [x \in Statements |-> now'[x]] /\ found' = [x \in Statements |-> found'[x]]
      /\ \A q \in Statements \ {s} :
            /\ at'[q] = at[q] /\ todo'[q] = todo[q] /\ now'[q] = now[q] /\ found'[q] = found[q]
  BY <1>1 DEF Shapes, Tried, given
<1>3. ASSUME NEW files, Resolved(s, t, files)
      PROVE  /\ list'[s] = ListResolved(s, t, files) /\ moved'[s] = TRUE
             /\ list' = [x \in Statements |-> list'[x]] /\ moved' = [x \in Statements |-> moved'[x]]
             /\ \A q \in Statements \ {s} : list'[q] = list[q] /\ moved'[q] = moved[q]
  BY <1>3 DEF Resolved, ListResolved, Shapes
<1>4. CASE Resolve(s, t)
  <2>1. /\ Resolved(s, t, Lookup(t).files) /\ cache' = [cache EXCEPT ![t] = Lookup(t)]
        /\ UNCHANGED <<faults, failed>>
    BY <1>4 DEF Resolve, kept
  <2>2. OthersKept(s) /\ LogsKept /\ Counted
    BY <1>2, <1>3, <2>1 DEF OthersKept, Kept, KeptButBegan, Shapes, LogsKept, Counted
  <2> QED
    BY <1>1, <1>2, <1>3, <2>1, <2>2
<1>5. CASE ResolveFails(s, t)
  <2>1. /\ Fails(s, {t}) /\ failed'[s] = failed[s] \cup {t} /\ Counted
        /\ failed' = [x \in Statements |-> failed'[x]]
        /\ \A q \in Statements \ {s} : failed'[q] = failed[q]
    BY <1>5 DEF ResolveFails, Fails, Shapes, Counted
  <2>2. CASE LookFails(t) /\ UNCHANGED <<list, moved>>
    <3>1. OthersKept(s) /\ LogsKept
      BY <1>2, <2>1, <2>2 DEF OthersKept, Kept, KeptButBegan, Shapes, LogsKept
    <3> QED
      BY <1>1, <1>2, <2>1, <2>2, <3>1
  <2>3. CASE LooksNoFurther(t) /\ Resolved(s, t, cache[t].files)
    <3>1. OthersKept(s) /\ LogsKept
      BY <1>2, <1>3, <2>1, <2>3 DEF OthersKept, Kept, KeptButBegan, Shapes, LogsKept
    <3> QED
      BY <1>1, <1>2, <1>3, <2>1, <2>3, <3>1
  <2> QED
    BY <1>5, <2>2, <2>3 DEF ResolveFails
<1> QED
  BY <1>4, <1>5

\* A table the walk takes for one of its own.
Unread == [Unopened EXCEPT !.flaw = "unread"]

LEMMA WalkedDoes ==
    ASSUME Shapes, NEW s \in Statements, Discover(s) \/ DiscoverFails(s)
    PROVE  /\ OthersKept(s) /\ LogsKept /\ Counted
           /\ at[s] = "refresh" /\ todo[s] = {} /\ at'[s] = "adopt"
           /\ list'[s] = list[s] /\ todo'[s] = todo[s] /\ now'[s] = now[s]
           /\ moved'[s] = moved[s] /\ asked'[s] = asked[s] /\ began'[s] = began[s]
           /\ UNCHANGED <<cache, servable, defined>>
           /\ DOMAIN found'[s] \subseteq Unlisted(s)
           /\ \A r \in DOMAIN found'[s] : found'[s][r] = Seen(r) \/ found'[s][r] = Unread
           /\ failed[s] \subseteq failed'[s] /\ failed'[s] \subseteq failed[s] \cup Unlisted(s)
           /\ Unlisted(s) \subseteq DOMAIN found'[s] \cup failed'[s]
<1>1. ASSUME NEW tables, Walked(s, tables)
      PROVE  /\ at[s] = "refresh" /\ todo[s] = {} /\ at'[s] = "adopt" /\ found'[s] = tables
             /\ UNCHANGED <<log, cache, servable, created, defined, list, todo, now, moved,
                            asked, began, severed>>
             /\ at' = [x \in Statements |-> at'[x]] /\ found' = [x \in Statements |-> found'[x]]
             /\ \A q \in Statements \ {s} : at'[q] = at[q] /\ found'[q] = found[q]
  BY <1>1 DEF Walked, Shapes, given
<1>2. ASSUME NEW unread, Fails(s, unread)
      PROVE  /\ failed'[s] = failed[s] \cup unread /\ Counted
             /\ failed' = [x \in Statements |-> failed'[x]]
             /\ \A q \in Statements \ {s} : failed'[q] = failed[q]
  BY <1>2 DEF Fails, Shapes, Counted
<1>3. CASE Discover(s)
  <2>1. Walked(s, [r \in Unlisted(s) |-> Seen(r)]) /\ UNCHANGED <<faults, failed>>
    BY <1>3 DEF Discover, kept
  <2>2. found'[s] = [r \in Unlisted(s) |-> Seen(r)]
    BY <1>1, <2>1
  <2>3. OthersKept(s) /\ LogsKept /\ Counted
    BY <1>1, <2>1 DEF OthersKept, Kept, KeptButBegan, Shapes, LogsKept, Counted
  <2> QED
    BY <1>1, <2>1, <2>2, <2>3
<1>4. ASSUME NEW unread \in SUBSET Unlisted(s), Fails(s, unread),
             Walked(s, [r \in Unlisted(s) \ unread |-> Seen(r)])
      PROVE  /\ OthersKept(s) /\ LogsKept /\ Counted
             /\ found'[s] = [r \in Unlisted(s) \ unread |-> Seen(r)]
             /\ failed'[s] = failed[s] \cup unread
  <2>1. found'[s] = [r \in Unlisted(s) \ unread |-> Seen(r)]
    BY <1>1, <1>4
  <2>2. failed'[s] = failed[s] \cup unread /\ Counted
    BY <1>2, <1>4
  <2>3. OthersKept(s) /\ LogsKept
    BY <1>1, <1>2, <1>4 DEF OthersKept, Kept, KeptButBegan, Shapes, LogsKept
  <2> QED
    BY <2>1, <2>2, <2>3
<1>5. ASSUME NEW c \in Unlisted(s), Fails(s, {}),
             Walked(s, [r \in Unlisted(s) |->
                          IF r = c THEN [Unopened EXCEPT !.flaw = "unread"] ELSE Seen(r)])
      PROVE  /\ OthersKept(s) /\ LogsKept /\ Counted
             /\ found'[s] = [r \in Unlisted(s) |-> IF r = c THEN Unread ELSE Seen(r)]
             /\ failed'[s] = failed[s]
  <2>1. found'[s] = [r \in Unlisted(s) |-> IF r = c THEN Unread ELSE Seen(r)]
    BY <1>1, <1>5 DEF Unread
  <2>2. failed'[s] = failed[s] /\ Counted
    BY <1>2, <1>5
  <2>3. OthersKept(s) /\ LogsKept
    BY <1>1, <1>2, <1>5 DEF OthersKept, Kept, KeptButBegan, Shapes, LogsKept
  <2> QED
    BY <2>1, <2>2, <2>3
<1>6. CASE \E unread \in SUBSET Unlisted(s) :
              /\ Walked(s, [r \in Unlisted(s) \ unread |-> Seen(r)])
              /\ Fails(s, unread)
  <2>1. PICK unread \in SUBSET Unlisted(s) :
              /\ Walked(s, [r \in Unlisted(s) \ unread |-> Seen(r)])
              /\ Fails(s, unread)
    BY <1>6
  <2>2. /\ OthersKept(s) /\ LogsKept /\ Counted
        /\ found'[s] = [r \in Unlisted(s) \ unread |-> Seen(r)]
        /\ failed'[s] = failed[s] \cup unread
    BY <1>4, <2>1
  <2>3. /\ DOMAIN found'[s] = Unlisted(s) \ unread
        /\ \A r \in DOMAIN found'[s] : found'[s][r] = Seen(r)
    BY <2>2
  <2> QED
    BY <1>1, <2>1, <2>2, <2>3
<1>7. CASE \E c \in Unlisted(s) :
              /\ IsClone(c)
              /\ Walked(s, [r \in Unlisted(s) |->
                              IF r = c THEN [Unopened EXCEPT !.flaw = "unread"] ELSE Seen(r)])
              /\ Fails(s, {})
  <2>1. PICK c \in Unlisted(s) :
              /\ Walked(s, [r \in Unlisted(s) |->
                              IF r = c THEN [Unopened EXCEPT !.flaw = "unread"] ELSE Seen(r)])
              /\ Fails(s, {})
    BY <1>7
  <2>2. /\ OthersKept(s) /\ LogsKept /\ Counted
        /\ found'[s] = [r \in Unlisted(s) |-> IF r = c THEN Unread ELSE Seen(r)]
        /\ failed'[s] = failed[s]
    BY <1>5, <2>1
  <2>3. /\ DOMAIN found'[s] = Unlisted(s)
        /\ \A r \in DOMAIN found'[s] : found'[s][r] = IF r = c THEN Unread ELSE Seen(r)
    BY <2>2
  <2> QED
    BY <1>1, <2>1, <2>2, <2>3
<1> QED
  BY <1>3, <1>6, <1>7 DEF DiscoverFails

Without(s, r) == [x \in DOMAIN found[s] \ {r} |-> found[s][x]]

LEMMA OpenedDoes ==
    ASSUME Shapes, NEW s \in Statements, NEW r, NEW files, Opened(s, r, files)
    PROVE  /\ found'[s] = [found[s] EXCEPT ![r] = [@ EXCEPT !.files = files]]
           /\ todo'[s] = {r} /\ at'[s] = "version"
           /\ at' = [x \in Statements |-> at'[x]] /\ todo' = [x \in Statements |-> todo'[x]]
           /\ found' = [x \in Statements |-> found'[x]]
           /\ \A q \in Statements \ {s} :
                 at'[q] = at[q] /\ todo'[q] = todo[q] /\ found'[q] = found[q]
BY DEF Opened, Shapes

LEMMA AdoptDoes ==
    ASSUME Shapes, NEW s \in Statements, NEW r, Adopt(s, r) \/ AdoptFails(s, r)
    PROVE  /\ OthersKept(s) /\ LogsKept /\ Counted
           /\ at[s] = "adopt" /\ r \in DOMAIN found[s]
           /\ list'[s] = list[s] /\ now'[s] = now[s] /\ moved'[s] = moved[s]
           /\ asked'[s] = asked[s] /\ began'[s] = began[s]
           /\ UNCHANGED <<servable, defined>>
           /\ \/ /\ r \in Tables /\ at'[s] = "version" /\ todo'[s] = {r}
                 /\ \/ /\ cache' = [cache EXCEPT ![r] = Lookup(r)] /\ failed'[s] = failed[s]
                       /\ found'[s] = [found[s] EXCEPT ![r] = [@ EXCEPT !.files = Lookup(r).files]]
                    \/ /\ LooksNoFurther(r) /\ failed'[s] = failed[s] \cup {r}
                       /\ found'[s] = [found[s] EXCEPT ![r] = [@ EXCEPT !.files = cache[r].files]]
              \/ /\ at'[s] = "adopt" /\ todo'[s] = todo[s] /\ found'[s] = Without(s, r)
                 /\ LookFails(r) /\ failed'[s] = failed[s] \cup {r}
<1>1. at[s] = "adopt" /\ r \in DOMAIN found[s]
  BY DEF Adopt, AdoptFails
<1>2. UNCHANGED <<log, servable, created, defined, list, now, moved, asked, began, severed>>
  BY DEF Adopt, AdoptFails, given
<1>3. CASE Adopt(s, r)
  <2>1. /\ r \in Tables /\ Opened(s, r, Lookup(r).files) /\ cache' = [cache EXCEPT ![r] = Lookup(r)]
        /\ UNCHANGED <<faults, failed>>
    BY <1>3 DEF Adopt, kept
  <2>2. OthersKept(s) /\ LogsKept /\ Counted
    BY <1>2, <2>1, OpenedDoes DEF OthersKept, Kept, KeptButBegan, Shapes, LogsKept, Counted
  <2> QED
    BY <1>1, <1>2, <2>1, <2>2, OpenedDoes
<1>4. CASE AdoptFails(s, r)
  <2>1. /\ Fails(s, {r}) /\ failed'[s] = failed[s] \cup {r} /\ Counted
        /\ failed' = [x \in Statements |-> failed'[x]]
        /\ \A q \in Statements \ {s} : failed'[q] = failed[q]
    BY <1>4 DEF AdoptFails, Fails, Shapes, Counted
  <2>2. CASE LookFails(r) /\ found' = WithoutFound(s, r) /\ UNCHANGED <<at, todo>>
    <3>1. /\ found'[s] = Without(s, r) /\ found' = [x \in Statements |-> found'[x]]
          /\ \A q \in Statements \ {s} : found'[q] = found[q]
      BY <2>2 DEF WithoutFound, Without, Shapes
    <3>2. OthersKept(s) /\ LogsKept
      BY <1>2, <2>1, <2>2, <3>1 DEF OthersKept, Kept, KeptButBegan, Shapes, LogsKept
    <3> QED
      BY <1>1, <1>2, <2>1, <2>2, <3>1, <3>2
  <2>3. CASE LooksNoFurther(r) /\ Opened(s, r, cache[r].files)
    <3>1. OthersKept(s) /\ LogsKept
      BY <1>2, <2>1, <2>3, OpenedDoes DEF OthersKept, Kept, KeptButBegan, Shapes, LogsKept
    <3>2. r \in Tables
      BY <2>3 DEF LooksNoFurther
    <3> QED
      BY <1>1, <1>2, <2>1, <2>3, <3>1, <3>2, OpenedDoes
  <2> QED
    BY <1>4, <2>2, <2>3 DEF AdoptFails
<1> QED
  BY <1>3, <1>4

\* A table is in the list now, and the others are as they were.
Adds(s, r) ==
    /\ DOMAIN list'[s] = DOMAIN list[s] \cup {r}
    /\ \A x \in DOMAIN list[s] \ {r} : list'[s][x] = list[s][x]

\* What is left as it is, and of what, when something is added.
AddedAlone(s) ==
    /\ list' = [x \in Statements |-> list'[x]] /\ found' = [x \in Statements |-> found'[x]]
    /\ moved' = [x \in Statements |-> moved'[x]]
    /\ \A q \in Statements \ {s} :
          list'[q] = list[q] /\ found'[q] = found[q] /\ moved'[q] = moved[q]
    /\ UNCHANGED <<log, cache, servable, created, defined, now, asked, began, severed>>

\* A table that was opened, at the version it is added at.
TableAt(s, t, version) ==
    [found[s][t] EXCEPT
        !.resolved_at = version,
        !.flaw = IF 1 .. version \subseteq found[s][t].files THEN @ ELSE "overtaken"]

LEMMA AddedAtDoes ==
    ASSUME Shapes, NEW s \in Statements, NEW t, Adopted(s, t) \/ AdoptedUnasked(s, t)
    PROVE  /\ OthersKept(s) /\ LogsKept /\ Counted
           /\ at[s] = "version" /\ t \in todo[s] /\ at'[s] = "adopt" /\ todo'[s] = {}
           /\ found'[s] = Without(s, t) /\ moved'[s] = TRUE
           /\ now'[s] = now[s] /\ asked'[s] = asked[s] /\ began'[s] = began[s]
           /\ failed'[s] = failed[s]
           /\ UNCHANGED <<cache, servable, defined>>
           /\ Adds(s, t) /\ list'[s][t] \in {TableAt(s, t, VersionSaid(t)), TableAt(s, t, 0)}
<1>1. /\ Counted /\ failed'[s] = failed[s] /\ failed' = [x \in Statements |-> failed'[x]]
      /\ \A q \in Statements \ {s} : failed'[q] = failed[q]
  <2>1. CASE Adopted(s, t)
    BY <2>1 DEF Adopted, Counted, Shapes, kept
  <2>2. CASE AdoptedUnasked(s, t)
    BY <2>2 DEF AdoptedUnasked, Fails, Counted, Shapes
  <2> QED
    BY <2>1, <2>2
<1>2. PICK version \in {VersionSaid(t), 0} : AddedAt(s, t, version)
  BY DEF Adopted, AdoptedUnasked
<1>3. /\ at[s] = "version" /\ t \in todo[s]
      /\ at'[s] = "adopt" /\ todo'[s] = {}
      /\ at' = [x \in Statements |-> at'[x]] /\ todo' = [x \in Statements |-> todo'[x]]
      /\ \A q \in Statements \ {s} : at'[q] = at[q] /\ todo'[q] = todo[q]
  BY <1>2 DEF AddedAt, Shapes
<1> DEFINE opened == TableAt(s, t, version)
<1>4. /\ list'[s] = [x \in DOMAIN list[s] \cup {t} |-> IF x = t THEN opened ELSE list[s][x]]
      /\ found'[s] = Without(s, t) /\ moved'[s] = TRUE /\ AddedAlone(s)
  BY <1>2 DEF AddedAt, Added, WithoutFound, Without, TableAt, AddedAlone, Shapes, given
<1>6. Adds(s, t) /\ list'[s][t] \in {TableAt(s, t, VersionSaid(t)), TableAt(s, t, 0)}
  BY <1>2, <1>4 DEF Adds
<1>5. OthersKept(s) /\ LogsKept
  BY <1>1, <1>3, <1>4 DEF OthersKept, Kept, KeptButBegan, Shapes, LogsKept, AddedAlone
<1> QED
  BY <1>1, <1>3, <1>4, <1>5, <1>6 DEF AddedAlone

LEMMA AdoptCloneDoes ==
    ASSUME Shapes, NEW s \in Statements, NEW c, AdoptClone(s, c)
    PROVE  /\ OthersKept(s) /\ LogsKept
           /\ at[s] = "adopt" /\ c \in DOMAIN found[s] \cap Names /\ at'[s] = "adopt"
           /\ Adds(s, c) /\ list'[s][c] = [found[s][c] EXCEPT !.resolved_at = VersionSaid(c)]
           /\ found'[s] = Without(s, c) /\ moved'[s] = TRUE
           /\ todo'[s] = todo[s] /\ now'[s] = now[s] /\ asked'[s] = asked[s]
           /\ began'[s] = began[s] /\ failed'[s] = failed[s]
           /\ UNCHANGED <<cache, servable, defined, faults>>
<1>1. at[s] = "adopt" /\ c \in DOMAIN found[s] \cap Names /\ UNCHANGED <<at, todo, faults, failed>>
  BY DEF AdoptClone, kept
<1> DEFINE opened == [found[s][c] EXCEPT !.resolved_at = VersionSaid(c)]
<1>2. /\ list'[s] = [x \in DOMAIN list[s] \cup {c} |-> IF x = c THEN opened ELSE list[s][x]]
      /\ found'[s] = Without(s, c) /\ moved'[s] = TRUE /\ AddedAlone(s)
  BY DEF AdoptClone, Added, WithoutFound, Without, AddedAlone, Shapes, given
<1>4. Adds(s, c) /\ list'[s][c] = [found[s][c] EXCEPT !.resolved_at = VersionSaid(c)]
  BY <1>2 DEF Adds
<1>3. OthersKept(s) /\ LogsKept
  BY <1>1, <1>2 DEF OthersKept, Kept, KeptButBegan, Shapes, LogsKept, AddedAlone
<1> QED
  BY <1>1, <1>2, <1>3, <1>4 DEF AddedAlone

LEMMA PublishDoes ==
    ASSUME Shapes, NEW s \in Statements, Publish(s)
    PROVE  /\ OthersKept(s) /\ LogsKept
           /\ at[s] = "adopt" /\ DOMAIN found[s] = {} /\ at'[s] = "read"
           /\ servable' \in {servable, list[s]} /\ moved'[s] = FALSE
           /\ list'[s] = list[s] /\ todo'[s] = todo[s] /\ now'[s] = now[s] /\ found'[s] = found[s]
           /\ asked'[s] = asked[s] /\ began'[s] = began[s] /\ failed'[s] = failed[s]
           /\ UNCHANGED <<cache, defined, faults>>
BY DEF Shapes, OthersKept, Kept, KeptButBegan, LogsKept, Publish, given, kept

LEMMA FinishDoes ==
    ASSUME Shapes, NEW s \in Statements, Finish(s)
    PROVE  /\ OthersKept(s) /\ LogsKept
           /\ at[s] = "read" /\ at'[s] = "idle"
           /\ list'[s] = Nothing /\ began'[s] = NotBegun /\ failed'[s] = {}
           /\ todo'[s] = todo[s] /\ now'[s] = now[s] /\ found'[s] = found[s]
           /\ moved'[s] = moved[s] /\ asked'[s] = asked[s]
           /\ UNCHANGED <<cache, servable, defined, faults>>
BY DEF Shapes, OthersKept, Kept, KeptButBegan, LogsKept, Finish, given

\* A definition is begun; or it ends, with what it changes.
Defines(s) ==
    /\ list'[s] = list[s] /\ todo'[s] = todo[s] /\ now'[s] = now[s]
    /\ found'[s] = found[s] /\ moved'[s] = moved[s] /\ failed'[s] = failed[s]

LEMMA DecidedDoes ==
    ASSUME Shapes, NEW s \in Statements, NEW what, NEW step, Decided(s, what, step),
           UNCHANGED kept \/ Fails(s, {})
    PROVE  /\ OthersKept(s) /\ LogsKept /\ Counted /\ Defines(s)
           /\ at[s] = "idle" /\ at'[s] = step /\ asked'[s] = what /\ began'[s] = began[s]
           /\ defined < MaxDefined /\ defined' = defined + 1
           /\ UNCHANGED <<cache, servable>>
<1>1. /\ Counted /\ failed'[s] = failed[s] /\ failed' = [x \in Statements |-> failed'[x]]
      /\ \A q \in Statements \ {s} : failed'[q] = failed[q]
  BY DEF Fails, Counted, Shapes, kept
<1>2. /\ at[s] = "idle" /\ at'[s] = step /\ asked'[s] = what
      /\ defined < MaxDefined /\ defined' = defined + 1
      /\ UNCHANGED <<log, cache, servable, created, list, todo, now, found, moved, began, severed>>
      /\ at' = [x \in Statements |-> at'[x]] /\ asked' = [x \in Statements |-> asked'[x]]
      /\ \A q \in Statements \ {s} : at'[q] = at[q] /\ asked'[q] = asked[q]
  BY DEF Decided, Shapes
<1>3. OthersKept(s) /\ LogsKept /\ Defines(s)
  BY <1>1, <1>2 DEF OthersKept, Kept, KeptButBegan, Shapes, LogsKept, Defines
<1> QED
  BY <1>1, <1>2, <1>3

LEMMA OverDoes ==
    ASSUME Shapes, NEW s \in Statements, Over(s), UNCHANGED kept \/ Fails(s, {})
    PROVE  /\ Counted /\ Defines(s) /\ at'[s] = "idle" /\ asked'[s] = Absent
           /\ UNCHANGED <<cache, servable, defined>>
           /\ \A q \in Statements \ {s} : KeptButBegan(q)
           /\ UNCHANGED began => OthersKept(s)
           /\ began' = [x \in Statements |-> began'[x]] => Shapes'
<1>1. /\ Counted /\ failed'[s] = failed[s] /\ failed' = [x \in Statements |-> failed'[x]]
      /\ \A q \in Statements \ {s} : failed'[q] = failed[q]
  BY DEF Fails, Counted, Shapes, kept
<1>2. /\ at'[s] = "idle" /\ asked'[s] = Absent
      /\ UNCHANGED <<cache, servable, defined, list, todo, now, found, moved>>
      /\ at' = [x \in Statements |-> at'[x]] /\ asked' = [x \in Statements |-> asked'[x]]
      /\ \A q \in Statements \ {s} : at'[q] = at[q] /\ asked'[q] = asked[q]
  BY DEF Over, Shapes
<1>3. Defines(s) /\ \A q \in Statements \ {s} : KeptButBegan(q)
  BY <1>1, <1>2 DEF KeptButBegan, Defines
<1>4. began' = [x \in Statements |-> began'[x]] => Shapes'
  BY <1>1, <1>2 DEF Shapes
<1>5. UNCHANGED began => OthersKept(s)
  BY <1>3, <1>4 DEF OthersKept, Kept, Shapes
<1> QED
  BY <1>1, <1>2, <1>3, <1>4, <1>5

LEMMA CreatedDoes ==
    ASSUME Shapes, NEW s \in Statements, Created(s)
    PROVE  /\ OthersKept(s) /\ Counted /\ Defines(s)
           /\ at[s] = "creating" /\ at'[s] = "idle" /\ began'[s] = began[s]
           /\ UNCHANGED <<cache, servable, defined>>
           /\ LogsKept \/
                 LET name == asked[s].name
                     origin == asked[s].lineage.origin
                 IN  /\ ~Exists(name)
                     /\ created' = [created EXCEPT ![name] = @ + 1]
                     /\ log' = [log EXCEPT ![name] = NewClone(asked[s].lineage)]
                     /\ severed' = IF Exists(origin) /\ origin \notin severed
                                   THEN severed \ {name} ELSE severed \cup {name}
<1>1. at[s] = "creating" /\ Over(s) /\ UNCHANGED <<began, kept>>
  BY DEF Created
<1>2. UNCHANGED kept /\ began'[s] = began[s] /\ UNCHANGED began
  BY <1>1
<1> QED
  BY <1>1, <1>2, OverDoes DEF Created, LogsKept

LEMMA DroppedDoes ==
    ASSUME Shapes, NEW s \in Statements, Dropped(s)
    PROVE  /\ Shapes' /\ Counted /\ Defines(s)
           /\ \A q \in Statements \ {s} : KeptButBegan(q)
           /\ at[s] = "dropping" /\ at'[s] = "idle"
           /\ UNCHANGED <<cache, servable, defined, created>>
           /\ log' = [log EXCEPT ![asked[s].name] = Absent]
           /\ \A q \in Statements : began'[q] = [began[q] EXCEPT ![asked[s].name] = -1]
           /\ severed' = (severed \cup Dependents(asked[s].name, Names)) \ {asked[s].name}
<1>1. at[s] = "dropping" /\ Over(s) /\ UNCHANGED <<created, kept>>
  BY DEF Dropped
<1>2. began' = [q \in Statements |-> [began[q] EXCEPT ![asked[s].name] = -1]]
  BY DEF Dropped
<1>3. began' = [x \in Statements |-> began'[x]]
  BY <1>2
<1> QED
  BY <1>1, <1>2, <1>3, OverDoes DEF Dropped

LEMMA DefineFailsDoes ==
    ASSUME Shapes, NEW s \in Statements, DefineFails(s)
    PROVE  /\ OthersKept(s) /\ Counted /\ Defines(s) /\ LogsKept
           /\ at[s] \in {"creating", "dropping"} /\ at'[s] = "idle" /\ began'[s] = began[s]
           /\ UNCHANGED <<cache, servable, defined>>
BY OverDoes DEF DefineFails, LogsKept

LEMMA CommitDoes ==
    ASSUME Shapes, NEW t \in Tables, Commit(t)
    PROVE  /\ Newest(t) < MaxVersion
           /\ log' = [log EXCEPT ![t] = Table(Newest(t) + 1)]
           /\ Shapes' /\ \A q \in Statements : Kept(q)
           /\ UNCHANGED <<cache, servable, created, defined, faults, severed>>
BY DEF Commit, Shapes, Kept, KeptButBegan, mine, kept, given

LEMMA StutterDoes ==
    ASSUME Shapes, UNCHANGED vars
    PROVE  /\ Shapes' /\ \A q \in Statements : Kept(q)
           /\ UNCHANGED <<log, cache, servable, created, defined, faults, severed>>
BY DEF vars, Shapes, Kept, KeptButBegan, mine, kept, given

-----------------------------------------------------------------------------
(* Types.                                                                  *)

LEMMA OpenParts ==
    ASSUME NEW o \in Open
    PROVE  /\ o.inherited \in Lineages \cup {Plain} /\ o.files \subseteq 1 .. MaxVersion
           /\ o.resolved_at \in 0 .. MaxVersion /\ o.flaw \in {"none", "unread", "overtaken"}
           /\ \A files \in SUBSET (1 .. MaxVersion) :
                 /\ [o EXCEPT !.files = files] \in Open
                 /\ [o EXCEPT !.files = files].files = files
                 /\ [o EXCEPT !.files = files].inherited = o.inherited
                 /\ [o EXCEPT !.files = files].flaw = o.flaw
           /\ \A v \in 0 .. MaxVersion :
                 /\ [o EXCEPT !.resolved_at = v] \in Open
                 /\ [o EXCEPT !.resolved_at = v].files = o.files
                 /\ [o EXCEPT !.resolved_at = v].inherited = o.inherited
                 /\ [o EXCEPT !.resolved_at = v].flaw = o.flaw
BY DEF Open

LEMMA UnopenedTyped ==
    ASSUME ServingAssumption
    PROVE  /\ Unopened \in Open /\ Unread \in Open /\ Unread.flaw = "unread"
           /\ Unopened.files = 1 .. 0 /\ Unopened.resolved_at = 0
BY DEF ServingAssumption, Unopened, Unread, Open

LEMMA SeenTyped ==
    ASSUME ServingAssumption, log \in Logs, NEW r \in Roots
    PROVE  Seen(r) \in Open /\ Seen(r).inherited = Inherited(r)
<1>1. Inherited(r) \in Lineages \cup {Plain}
  BY InheritedTyped
<1>2. Seen(r) = [Unopened EXCEPT !.inherited = Inherited(r)]
  BY DEF Seen
<1>3. \A l \in Lineages \cup {Plain} :
         /\ [Unopened EXCEPT !.inherited = l] \in Open
         /\ [Unopened EXCEPT !.inherited = l].inherited = l
  BY UnopenedTyped DEF Unopened, Open
<1> QED
  BY <1>1, <1>2, <1>3

LEMMA AgainTyped ==
    ASSUME NEW o \in Open, NEW files \in SUBSET (1 .. MaxVersion), NEW version \in 0 .. MaxVersion
    PROVE  /\ Again(o, files, version) \in Open
           /\ Again(o, files, version).files = files
           /\ Again(o, files, version).resolved_at = version
           /\ Again(o, files, version).inherited = o.inherited
BY DEF Again, Open

\* What adding makes of one.
Late(o, version) ==
    [o EXCEPT !.resolved_at = version,
              !.flaw = IF 1 .. version \subseteq o.files THEN @ ELSE "overtaken"]

LEMMA LateTyped ==
    ASSUME NEW o \in Open, NEW version \in 0 .. MaxVersion
    PROVE  /\ Late(o, version) \in Open
           /\ Late(o, version).files = o.files /\ Late(o, version).resolved_at = version
           /\ Late(o, version).flaw = "overtaken" \/ 1 .. version \subseteq o.files
BY DEF Late, Open

LEMMA NothingOpened == IsList(Nothing) /\ DOMAIN Nothing = {}
BY DEF IsList, Nothing

\* No table goes.
TablesStay == \A t \in Tables : Exists(t) => Exists(t)'

LEMMA ListStays ==
    ASSUME NEW tables, IsList(tables), TablesStay
    PROVE  IsList(tables)'
BY DEF IsList, TablesStay

LEMMA LogsStay == LogsKept => TablesStay
BY DEF LogsKept, TablesStay, Exists

LEMMA LogsConstant == Logs' = Logs /\ Roots' = Roots
BY DEF Logs, Roots

LEMMA KeptTyped ==
    ASSUME NEW q \in Statements, CarriesTyped(q), KeptButBegan(q), TablesStay,
           began'[q] \in [Roots -> -1 .. MaxVersion]
    PROVE  CarriesTyped(q)'
<1>1. IsList(list[q])' /\ IsList(found[q])'
  BY ListStays DEF CarriesTyped, KeptButBegan
<1> QED
  BY <1>1 DEF CarriesTyped, KeptButBegan

LEMMA CarriesParts ==
    ASSUME Typed, NEW s \in Statements
    PROVE  /\ Shapes /\ SharedTyped /\ CarriesTyped(s) /\ IsList(list[s]) /\ IsList(found[s])
           /\ log \in Logs /\ IsList(servable)
           /\ began[s] \in [Roots -> -1 .. MaxVersion] /\ todo[s] \subseteq Tables
           /\ now[s] \in 0 .. MaxVersion /\ failed[s] \subseteq Roots
BY DEF Typed, SharedTyped, CarriesTyped

LEMMA SharedParts ==
    ASSUME Typed
    PROVE  Shapes /\ SharedTyped /\ log \in Logs /\ IsList(servable) /\ severed \in SUBSET Names
BY DEF Typed, SharedTyped

LEMMA RootsParts ==
    ASSUME ServingAssumption
    PROVE  /\ Tables \subseteq Roots /\ Names \subseteq Roots /\ Tables \cap Names = {}
           /\ Standing \subseteq Tables /\ MaxVersion \in Nat
           /\ \A r \in Roots : r \in Tables \/ r \in Names
BY DEF ServingAssumption, Roots, Tables

LEMMA TypedInit == ServingAssumption /\ Init => Typed
<1> SUFFICES ASSUME ServingAssumption, Init PROVE Typed
  OBVIOUS
<1>1. Shapes
  BY DEF Init, Shapes
<1>2. log \in Logs
  <2>1. MaxVersion \in Nat
    BY DEF ServingAssumption
  <2>2. Table(0) \in {Table(v) : v \in 0 .. MaxVersion}
    BY <2>1
  <2> HIDE DEF Init
  <2>3. log = [r \in Roots |-> IF r \in Standing THEN Table(0) ELSE Absent]
    BY DEF Init
  <2> QED
    BY <2>2, <2>3 DEF Logs
<1>3. cache \in [Tables -> Replays]
  <2>1. Cold \in Replays
    BY DEF Cold, ServingAssumption, Replays
  <2> QED
    BY <2>1 DEF Init
<1>4. IsList(servable)
  <2>1. servable = [r \in Standing |-> Unopened]
    BY DEF Init
  <2>2. Standing \subseteq Roots /\ 0 \in 0 .. MaxVersion
    BY DEF Roots, Tables, ServingAssumption
  <2>3. ASSUME NEW r \in Standing PROVE Exists(r)
    <3>1. log[r] = Table(0)
      BY <2>2 DEF Init
    <3> QED
      BY <2>2, <3>1, TableLog
  <2> HIDE DEF Init
  <2> QED
    BY <2>1, <2>2, <2>3, UnopenedTyped DEF IsList
<1>5. created \in [Names -> Nat] /\ defined \in 0 .. MaxDefined /\ faults \in 0 .. MaxFaults
  BY DEF Init, ServingAssumption
<1>6. severed \in SUBSET Names
  BY DEF Init
<1>7. ASSUME NEW s \in Statements PROVE CarriesTyped(s)
  <2>1. /\ at[s] = "idle" /\ list[s] = Nothing /\ todo[s] = {} /\ now[s] = 0
        /\ found[s] = Nothing /\ moved[s] = FALSE /\ began[s] = NotBegun /\ failed[s] = {}
    BY DEF Init
  <2>2. 0 \in 0 .. MaxVersion
    BY DEF ServingAssumption
  <2>3. NotBegun \in [Roots -> -1 .. MaxVersion]
    BY DEF ServingAssumption, NotBegun
  <2> QED
    BY <2>1, <2>2, <2>3, NothingOpened DEF CarriesTyped
<1> QED
  BY <1>1, <1>2, <1>3, <1>4, <1>5, <1>6, <1>7 DEF Typed, SharedTyped

\* What the statement of an action needs, and what the rest of the step needs.
StepTyped(s) == SharedTyped' /\ CarriesTyped(s)'

\* What is shared, a part at a time.
LEMMA CountedTyped ==
    ASSUME ServingAssumption, SharedTyped, Counted
    PROVE  faults' \in 0 .. MaxFaults
BY DEF ServingAssumption, SharedTyped, Counted

LEMMA CacheTyped ==
    ASSUME ServingAssumption, SharedTyped, NEW r,
           \/ cache' = cache
           \/ r \in Tables /\ cache' = [cache EXCEPT ![r] = Lookup(r)]
           \/ LookFails(r)
    PROVE  cache' \in [Tables -> Replays]
<1>1. r \in Tables => Lookup(r) \in Replays
  BY LookupTyped
<1>2. Cold \in Replays
  BY DEF Cold, Replays, ServingAssumption
<1>3. cache \in [Tables -> Replays]
  BY DEF SharedTyped
<1>4. CASE LookFails(r)
  <2>1. [t \in Tables |-> IF t = r THEN Cold ELSE cache[t]] \in [Tables -> Replays]
    BY <1>2, <1>3
  <2> QED
    BY <1>3, <1>4, <2>1 DEF LookFails
<1>5. CASE cache' = cache
  BY <1>3, <1>5
<1>6. CASE r \in Tables /\ cache' = [cache EXCEPT ![r] = Lookup(r)]
  BY <1>1, <1>3, <1>6
<1> QED
  BY <1>4, <1>5, <1>6

LEMMA SharedStep ==
    ASSUME SharedTyped, LogsKept, cache' \in [Tables -> Replays], IsList(servable)',
           defined' \in 0 .. MaxDefined, faults' \in 0 .. MaxFaults
    PROVE  SharedTyped'
BY LogsConstant DEF SharedTyped, LogsKept

LEMMA SharedSame ==
    ASSUME ServingAssumption, SharedTyped, LogsKept, Counted,
           UNCHANGED <<servable, defined>>, cache' \in [Tables -> Replays]
    PROVE  SharedTyped'
<1>1. IsList(servable)' /\ defined' \in 0 .. MaxDefined
  BY LogsStay, ListStays DEF SharedTyped
<1> QED
  BY <1>1, CountedTyped, SharedStep

LEMMA BeginTyped ==
    ASSUME ServingAssumption, Typed, NEW s \in Statements, Begin(s)
    PROVE  StepTyped(s)
<1>1. SharedTyped'
  BY CarriesParts, BeginDoes, SharedSame DEF SharedTyped, Counted
<1>2. IsList(list[s])' /\ IsList(found[s])'
  <2>1. TablesStay /\ list'[s] = servable /\ found'[s] = found[s]
    BY CarriesParts, BeginDoes, LogsStay
  <2> QED
    BY <2>1, CarriesParts, ListStays
<1>3. began'[s] \in [Roots -> -1 .. MaxVersion]
  <2>1. began'[s] = [r \in Roots |-> Newest(r)]
    BY CarriesParts, BeginDoes
  <2>2. \A r \in Roots : Newest(r) \in -1 .. MaxVersion
    BY CarriesParts, LogBounds
  <2> QED
    BY <2>1, <2>2
<1>4. CarriesTyped(s)'
  BY <1>2, <1>3, CarriesParts, BeginDoes DEF CarriesTyped
<1> QED
  BY <1>1, <1>4 DEF StepTyped

LEMMA LookedTyped ==
    ASSUME ServingAssumption, Typed, NEW s \in Statements, NEW t \in Tables,
           Refresh(s, t) \/ RefreshFails(s, t)
    PROVE  StepTyped(s)
<1>1. /\ LogsKept /\ Counted /\ UNCHANGED <<servable, defined>>
      /\ at[s] = "refresh" /\ t \in todo[s]
      /\ list'[s] = list[s] /\ moved'[s] = moved[s] /\ began'[s] = began[s]
  BY CarriesParts, LookedDoes
<1>2. t \in DOMAIN list[s] /\ t \in Roots /\ Newest(t) \in 0 .. MaxVersion /\ TablesStay
  <2>1. t \in DOMAIN list[s] /\ t \in Roots /\ Exists(t)
    BY <1>1, CarriesParts, RootsParts DEF CarriesTyped, IsList
  <2> QED
    BY <1>1, <2>1, CarriesParts, LogBounds, LogsStay
<1>3. list[s][t].resolved_at \in 0 .. MaxVersion
  BY <1>1, CarriesParts, OpenParts DEF CarriesTyped, IsList
<1>4. PICK version :
         /\ Says(s, t, version)
         /\ \/ /\ version = list[s][t].resolved_at
               /\ at'[s] = "refresh" /\ todo'[s] = todo[s] \ {t}
               /\ now'[s] = now[s] /\ found'[s] = found[s]
            \/ /\ version # list[s][t].resolved_at
               /\ at'[s] = "resolve" /\ todo'[s] = todo[s]
               /\ now'[s] = version /\ found'[s] = [x \in {t} |-> Unopened]
  BY CarriesParts, LookedDoes
<1>5. cache' \in [Tables -> Replays] /\ failed'[s] \subseteq Roots
  BY <1>4, CarriesParts, CacheTyped, RootsParts DEF Says, LooksNoFurther
<1>6. SharedTyped'
  BY <1>1, <1>5, CarriesParts, SharedSame
<1>7. IsList(list[s])'
  BY <1>1, <1>2, CarriesParts, ListStays
<1>8. CASE at'[s] = "refresh"
  <2>1. todo'[s] = todo[s] \ {t} /\ now'[s] = now[s] /\ found'[s] = found[s]
    BY <1>4, <1>8
  <2>2. IsList(found[s])'
    BY <1>2, <2>1, CarriesParts, ListStays
  <2> QED
    BY <1>1, <1>5, <1>6, <1>7, <1>8, <2>1, <2>2, CarriesParts DEF CarriesTyped, StepTyped
<1>9. CASE at'[s] = "resolve"
  <2>1. todo'[s] = todo[s] /\ found'[s] = [x \in {t} |-> Unopened] /\ now'[s] = version
    BY <1>4, <1>9
  <2>2. DOMAIN found'[s] = {t} /\ IsList(found[s])'
    <3>1. IsList([x \in {t} |-> Unopened])
      BY <1>2, CarriesParts, UnopenedTyped DEF IsList
    <3> QED
      BY <1>2, <2>1, <3>1, ListStays
  <2>3. version \in 0 .. MaxVersion
    <3>1. cache[t].version \in -1 .. MaxVersion
      BY CarriesParts DEF SharedTyped, Replays
    <3> QED
      BY <1>2, <1>3, <1>4, <3>1 DEF Says, LooksNoFurther
  <2> QED
    BY <1>1, <1>2, <1>5, <1>6, <1>7, <1>9, <2>1, <2>2, <2>3, CarriesParts
       DEF CarriesTyped, StepTyped
<1> QED
  BY <1>4, <1>8, <1>9

\* A list, when a table of it is resolved again or one is added to it or taken out.
LEMMA ResolvedTyped ==
    ASSUME Typed, NEW s \in Statements, NEW t \in DOMAIN list[s],
           NEW files \in SUBSET (1 .. MaxVersion)
    PROVE  /\ IsList(ListResolved(s, t, files)) /\ DOMAIN ListResolved(s, t, files) = DOMAIN list[s]
           /\ \A x \in DOMAIN list[s] : ListResolved(s, t, files)[x] =
                 IF x = t THEN Again(list[s][t], files, now[s]) ELSE list[s][x]
<1>1. IsList(list[s]) /\ now[s] \in 0 .. MaxVersion /\ list[s][t] \in Open
  BY CarriesParts DEF IsList
<1>2. Again(list[s][t], files, now[s]) \in Open
  BY <1>1, AgainTyped
<1>3. /\ DOMAIN ListResolved(s, t, files) = DOMAIN list[s]
      /\ \A x \in DOMAIN list[s] : ListResolved(s, t, files)[x] =
            IF x = t THEN Again(list[s][t], files, now[s]) ELSE list[s][x]
  BY DEF ListResolved
<1> QED
  BY <1>1, <1>2, <1>3 DEF IsList

LEMMA AddingTyped ==
    ASSUME Typed, NEW s \in Statements, NEW r \in DOMAIN found[s], Adds(s, r), list'[s][r] \in Open
    PROVE  IsList(list'[s])
BY CarriesParts DEF IsList, Adds

LEMMA WithoutTyped ==
    ASSUME Typed, NEW s \in Statements, NEW r
    PROVE  /\ IsList(Without(s, r)) /\ DOMAIN Without(s, r) = DOMAIN found[s] \ {r}
           /\ \A x \in DOMAIN found[s] \ {r} : Without(s, r)[x] = found[s][x]
<1>1. IsList(found[s])
  BY CarriesParts
<1> QED
  BY <1>1 DEF IsList, Without

LEMMA TriedTyped ==
    ASSUME ServingAssumption, Typed, NEW s \in Statements, NEW t \in Tables,
           Resolve(s, t) \/ ResolveFails(s, t)
    PROVE  StepTyped(s)
<1>1. /\ LogsKept /\ Counted /\ UNCHANGED <<servable, defined>>
      /\ at[s] = "resolve" /\ t \in DOMAIN found[s]
      /\ at'[s] = "refresh" /\ todo'[s] = todo[s] \ {t} /\ found'[s] = Nothing /\ now'[s] = 0
      /\ began'[s] = began[s] /\ moved'[s] \in {moved[s], TRUE}
      /\ \/ /\ cache' = [cache EXCEPT ![t] = Lookup(t)] /\ failed'[s] = failed[s]
            /\ list'[s] = ListResolved(s, t, Lookup(t).files)
         \/ /\ LookFails(t) /\ failed'[s] = failed[s] \cup {t} /\ list'[s] = list[s]
         \/ /\ LooksNoFurther(t) /\ failed'[s] = failed[s] \cup {t}
            /\ list'[s] = ListResolved(s, t, cache[t].files)
  BY CarriesParts, TriedDoes
<1>2. cache' \in [Tables -> Replays] /\ failed'[s] \subseteq Roots
  BY <1>1, CarriesParts, CacheTyped, RootsParts DEF LooksNoFurther
<1>3. SharedTyped'
  BY <1>1, <1>2, CarriesParts, SharedSame
<1>4. TablesStay /\ t \in DOMAIN list[s]
  BY <1>1, LogsStay, CarriesParts DEF CarriesTyped
<1>5. /\ Lookup(t).files \in SUBSET (1 .. MaxVersion)
      /\ cache[t].files \in SUBSET (1 .. MaxVersion)
  BY CarriesParts, LookupTyped DEF SharedTyped, Replays
<1>6. IsList(list'[s]) /\ DOMAIN list'[s] = DOMAIN list[s]
  BY <1>1, <1>4, <1>5, CarriesParts, ResolvedTyped
<1>7. IsList(list[s])' /\ IsList(found[s])'
  BY <1>1, <1>4, <1>6, NothingOpened, ListStays
<1>8. 0 \in 0 .. MaxVersion
  BY DEF ServingAssumption
<1>9. moved'[s] \in BOOLEAN
  BY <1>1, CarriesParts DEF CarriesTyped
<1> QED
  BY <1>1, <1>2, <1>3, <1>6, <1>7, <1>8, <1>9, CarriesParts DEF CarriesTyped, StepTyped

LEMMA WalkedTyped ==
    ASSUME ServingAssumption, Typed, NEW s \in Statements, Discover(s) \/ DiscoverFails(s)
    PROVE  StepTyped(s)
<1>1. /\ LogsKept /\ Counted /\ UNCHANGED <<cache, servable, defined>>
      /\ todo[s] = {} /\ at'[s] = "adopt"
      /\ list'[s] = list[s] /\ todo'[s] = todo[s] /\ now'[s] = now[s]
      /\ moved'[s] = moved[s] /\ began'[s] = began[s]
      /\ DOMAIN found'[s] \subseteq Unlisted(s)
      /\ \A r \in DOMAIN found'[s] : found'[s][r] = Seen(r) \/ found'[s][r] = Unread
      /\ failed'[s] \subseteq failed[s] \cup Unlisted(s)
  BY CarriesParts, WalkedDoes
<1>2. Unlisted(s) \subseteq Roots /\ \A r \in Unlisted(s) : Exists(r)
  BY DEF Unlisted
<1>3. SharedTyped' /\ TablesStay
  BY <1>1, CarriesParts, CacheTyped, SharedSame, LogsStay
<1>4. IsList(found'[s])
  BY <1>1, <1>2, SeenTyped, UnopenedTyped, CarriesParts DEF IsList
<1>5. IsList(list[s])' /\ IsList(found[s])'
  BY <1>1, <1>3, <1>4, CarriesParts, ListStays
<1>6. failed'[s] \subseteq Roots
  BY <1>1, <1>2, CarriesParts
<1> QED
  BY <1>1, <1>3, <1>5, <1>6, CarriesParts DEF CarriesTyped, StepTyped

LEMMA AdoptTyped ==
    ASSUME ServingAssumption, Typed, NEW s \in Statements, NEW r, Adopt(s, r) \/ AdoptFails(s, r)
    PROVE  StepTyped(s)
<1>1. /\ LogsKept /\ Counted /\ UNCHANGED <<servable, defined>>
      /\ r \in DOMAIN found[s] /\ list'[s] = list[s] /\ now'[s] = now[s]
      /\ moved'[s] = moved[s] /\ began'[s] = began[s]
      /\ \/ /\ r \in Tables /\ at'[s] = "version" /\ todo'[s] = {r}
            /\ \/ /\ cache' = [cache EXCEPT ![r] = Lookup(r)] /\ failed'[s] = failed[s]
                  /\ found'[s] = [found[s] EXCEPT ![r] = [@ EXCEPT !.files = Lookup(r).files]]
               \/ /\ LooksNoFurther(r) /\ failed'[s] = failed[s] \cup {r}
                  /\ found'[s] = [found[s] EXCEPT ![r] = [@ EXCEPT !.files = cache[r].files]]
         \/ /\ at'[s] = "adopt" /\ todo'[s] = todo[s] /\ found'[s] = Without(s, r)
            /\ LookFails(r) /\ failed'[s] = failed[s] \cup {r}
  BY CarriesParts, AdoptDoes
<1>2. r \in Roots /\ found[s][r] \in Open /\ failed'[s] \subseteq Roots
  BY <1>1, CarriesParts DEF IsList
<1>3. cache' \in [Tables -> Replays]
  BY <1>1, CarriesParts, CacheTyped DEF LooksNoFurther
<1>4. SharedTyped' /\ TablesStay
  BY <1>1, <1>3, CarriesParts, SharedSame, LogsStay
<1>5. IsList(found'[s]) /\ (at'[s] = "version" => DOMAIN found'[s] = DOMAIN found[s])
  <2>1. CASE at'[s] = "adopt"
    BY <1>1, <2>1, WithoutTyped
  <2>2. CASE at'[s] = "version"
    <3>1. PICK files \in SUBSET (1 .. MaxVersion) :
             found'[s] = [found[s] EXCEPT ![r] = [@ EXCEPT !.files = files]]
      <4>1. r \in Tables => /\ Lookup(r).files \in SUBSET (1 .. MaxVersion)
                            /\ cache[r].files \in SUBSET (1 .. MaxVersion)
        BY CarriesParts, LookupTyped DEF SharedTyped, Replays
      <4> QED
        BY <1>1, <2>2, <4>1
    <3>2. [found[s][r] EXCEPT !.files = files] \in Open
      BY <1>2, OpenParts
    <3>3. /\ DOMAIN found'[s] = DOMAIN found[s]
          /\ \A x \in DOMAIN found[s] : found'[s][x] =
                IF x = r THEN [found[s][r] EXCEPT !.files = files] ELSE found[s][x]
      BY <3>1
    <3> QED
      BY <3>2, <3>3, CarriesParts DEF IsList
  <2> QED
    BY <1>1, <2>1, <2>2
<1>6. IsList(list[s])' /\ IsList(found[s])'
  BY <1>1, <1>4, <1>5, CarriesParts, ListStays
<1>7. todo'[s] \subseteq Tables /\ at'[s] \in {"adopt", "version"}
  BY <1>1, CarriesParts
<1>8. at'[s] = "version" => todo'[s] \subseteq DOMAIN found'[s]
  BY <1>1, <1>5
<1> QED
  BY <1>1, <1>2, <1>4, <1>6, <1>7, <1>8, CarriesParts DEF CarriesTyped, StepTyped

LEMMA SaidTyped ==
    ASSUME ServingAssumption, log \in Logs, NEW r \in Roots
    PROVE  VersionSaid(r) \in 0 .. MaxVersion /\ 0 \in 0 .. MaxVersion
BY LogBounds DEF VersionSaid, ServingAssumption

LEMMA AddedAtTyped ==
    ASSUME ServingAssumption, Typed, NEW s \in Statements, NEW t \in Tables,
           Adopted(s, t) \/ AdoptedUnasked(s, t)
    PROVE  StepTyped(s)
<1>1. /\ LogsKept /\ Counted /\ UNCHANGED <<cache, servable, defined>>
      /\ at[s] = "version" /\ t \in todo[s] /\ at'[s] = "adopt" /\ todo'[s] = {}
      /\ found'[s] = Without(s, t) /\ moved'[s] = TRUE
      /\ now'[s] = now[s] /\ began'[s] = began[s] /\ failed'[s] = failed[s]
      /\ Adds(s, t) /\ list'[s][t] \in {TableAt(s, t, VersionSaid(t)), TableAt(s, t, 0)}
  BY CarriesParts, AddedAtDoes
<1>2. t \in DOMAIN found[s] /\ found[s][t] \in Open /\ t \in Roots
  BY <1>1, CarriesParts DEF CarriesTyped, IsList
<1>3. \A v \in 0 .. MaxVersion : TableAt(s, t, v) \in Open
  <2> TAKE v \in 0 .. MaxVersion
  <2>1. TableAt(s, t, v) = Late(found[s][t], v)
    BY DEF TableAt, Late
  <2> QED
    BY <1>2, <2>1, LateTyped
<1>4. list'[s][t] \in Open
  BY <1>1, <1>2, <1>3, CarriesParts, SaidTyped
<1>5. IsList(list'[s]) /\ IsList(found'[s])
  <2>1. Adds(s, t) /\ found'[s] = Without(s, t)
    BY <1>1
  <2>2. IsList(list'[s])
    BY <1>2, <1>4, <2>1, AddingTyped
  <2> QED
    BY <2>1, <2>2, WithoutTyped
<1>6. SharedTyped' /\ TablesStay
  BY <1>1, CarriesParts, CacheTyped, SharedSame, LogsStay
<1>7. IsList(list[s])' /\ IsList(found[s])'
  BY <1>5, <1>6, ListStays
<1> QED
  BY <1>1, <1>6, <1>7, CarriesParts DEF CarriesTyped, StepTyped

LEMMA AdoptCloneTyped ==
    ASSUME ServingAssumption, Typed, NEW s \in Statements, NEW c \in Names, AdoptClone(s, c)
    PROVE  StepTyped(s)
<1>1. /\ LogsKept /\ at[s] = "adopt" /\ c \in DOMAIN found[s] /\ at'[s] = "adopt"
      /\ Adds(s, c) /\ list'[s][c] = [found[s][c] EXCEPT !.resolved_at = VersionSaid(c)]
      /\ found'[s] = Without(s, c) /\ moved'[s] = TRUE
      /\ todo'[s] = todo[s] /\ now'[s] = now[s] /\ began'[s] = began[s] /\ failed'[s] = failed[s]
      /\ UNCHANGED <<cache, servable, defined, faults>>
  BY CarriesParts, AdoptCloneDoes
<1>2. [found[s][c] EXCEPT !.resolved_at = VersionSaid(c)] \in Open
  <2>1. found[s][c] \in Open /\ c \in Roots
    BY <1>1, CarriesParts DEF IsList
  <2>2. VersionSaid(c) \in 0 .. MaxVersion
    BY <2>1, CarriesParts, SaidTyped
  <2> QED
    BY <2>1, <2>2, OpenParts
<1>3. list'[s][c] \in Open
  BY <1>1, <1>2
<1>4. IsList(list'[s]) /\ IsList(found'[s])
  BY <1>1, <1>3, AddingTyped, WithoutTyped
<1>5. SharedTyped' /\ TablesStay
  BY <1>1, CarriesParts, CacheTyped, SharedSame, LogsStay DEF Counted
<1>6. IsList(list[s])' /\ IsList(found[s])'
  BY <1>4, <1>5, ListStays
<1> QED
  BY <1>1, <1>5, <1>6, CarriesParts DEF CarriesTyped, StepTyped

LEMMA PublishTyped ==
    ASSUME ServingAssumption, Typed, NEW s \in Statements, Publish(s)
    PROVE  StepTyped(s)
<1>1. /\ LogsKept /\ at'[s] = "read" /\ servable' \in {servable, list[s]} /\ moved'[s] = FALSE
      /\ list'[s] = list[s] /\ todo'[s] = todo[s] /\ now'[s] = now[s] /\ found'[s] = found[s]
      /\ began'[s] = began[s] /\ failed'[s] = failed[s] /\ UNCHANGED <<cache, defined, faults>>
  BY CarriesParts, PublishDoes
<1>2. TablesStay /\ IsList(servable') /\ cache' \in [Tables -> Replays]
  BY <1>1, LogsStay, CarriesParts DEF SharedTyped
<1>3. SharedTyped' /\ IsList(list[s])' /\ IsList(found[s])'
  BY <1>1, <1>2, CarriesParts, ListStays, SharedStep DEF SharedTyped
<1> QED
  BY <1>1, <1>3, CarriesParts DEF CarriesTyped, StepTyped

LEMMA FinishTyped ==
    ASSUME ServingAssumption, Typed, NEW s \in Statements, Finish(s)
    PROVE  StepTyped(s)
<1>1. /\ LogsKept /\ at'[s] = "idle" /\ list'[s] = Nothing /\ began'[s] = NotBegun
      /\ failed'[s] = {} /\ todo'[s] = todo[s] /\ now'[s] = now[s] /\ found'[s] = found[s]
      /\ moved'[s] = moved[s] /\ UNCHANGED <<cache, servable, defined, faults>>
  BY CarriesParts, FinishDoes
<1>2. TablesStay /\ SharedTyped'
  BY <1>1, LogsStay, CarriesParts, CacheTyped, SharedSame DEF Counted
<1>3. IsList(list[s])' /\ IsList(found[s])'
  BY <1>1, <1>2, NothingOpened, CarriesParts, ListStays
<1>4. NotBegun \in [Roots -> -1 .. MaxVersion]
  BY DEF NotBegun, ServingAssumption
<1> QED
  BY <1>1, <1>2, <1>3, <1>4, CarriesParts DEF CarriesTyped, StepTyped

LEMMA CloneMade ==
    ASSUME ServingAssumption, log \in Logs, NEW l \in Lineages
    PROVE  /\ NewClone(l) \in Cloned /\ NewClone(l).lineage = l
           /\ IF IsClone(l.origin)
              THEN /\ NewClone(l).root = log[l.origin].root
                   /\ NewClone(l).depth = log[l.origin].depth + 1
              ELSE NewClone(l).root = l /\ NewClone(l).depth = 1
<1>1. l.origin \in Roots
  BY DEF Lineages
<1>2. IsClone(l.origin) => log[l.origin].root \in Lineages /\ log[l.origin].depth \in Nat \ {0}
  BY <1>1, CloneIsCloned, CloneLog
<1>3. CASE IsClone(l.origin)
  BY <1>2, <1>3 DEF NewClone, Cloned
<1>4. CASE ~IsClone(l.origin)
  BY <1>4 DEF NewClone, Cloned
<1> QED
  BY <1>3, <1>4

\* A statement that only defines, or that is left alone.
LEMMA DefiningTyped ==
    ASSUME Typed, NEW s \in Statements, Defines(s), TablesStay,
           began'[s] \in [Roots -> -1 .. MaxVersion],
           \/ at'[s] = "idle"
           \/ at'[s] = "creating" /\ asked'[s].name \in Names /\ asked'[s].lineage \in Lineages
           \/ at'[s] = "dropping" /\ asked'[s].name \in Names
    PROVE  CarriesTyped(s)'
<1>1. IsList(list[s])' /\ IsList(found[s])'
  BY CarriesParts, ListStays DEF Defines
<1> QED
  BY <1>1, CarriesParts DEF CarriesTyped, Defines

LEMMA DecidedTyped ==
    ASSUME ServingAssumption, Typed, NEW s \in Statements, NEW n \in Names,
           \/ \E o \in Roots, v \in 0 .. MaxVersion : Create(s, n, o, v)
           \/ Drop(s, n) \/ DropUnseeing(s, n)
    PROVE  /\ StepTyped(s) /\ OthersKept(s) /\ LogsKept /\ Defines(s)
           /\ at'[s] \in {"creating", "dropping"} /\ began'[s] = began[s]
           /\ UNCHANGED <<cache, servable>>
<1>1. PICK what, step :
         /\ Decided(s, what, step) /\ (UNCHANGED kept \/ Fails(s, {})) /\ what.name \in Names
         /\ step = "dropping" \/ (step = "creating" /\ what.lineage \in Lineages)
  <2>1. ASSUME NEW o \in Roots, NEW v \in 0 .. MaxVersion, Create(s, n, o, v)
        PROVE  /\ Decided(s, [name |-> n, lineage |-> From(o, v)], "creating") /\ UNCHANGED kept
               /\ From(o, v) \in Lineages
    BY <2>1 DEF Create, From, Lineages
  <2>2. CASE Drop(s, n) \/ DropUnseeing(s, n)
    <3> DEFINE what == [name |-> n]
    <3>1. Decided(s, what, "dropping") /\ (UNCHANGED kept \/ Fails(s, {})) /\ what.name \in Names
      BY <2>2 DEF Drop, DropUnseeing
    <3> HIDE DEF what
    <3> QED
      BY <3>1
  <2>3. CASE \E o \in Roots, v \in 0 .. MaxVersion : Create(s, n, o, v)
    <3>1. PICK o \in Roots, v \in 0 .. MaxVersion : Create(s, n, o, v)
      BY <2>3
    <3>2. /\ [name |-> n, lineage |-> From(o, v)].name \in Names
          /\ [name |-> n, lineage |-> From(o, v)].lineage = From(o, v)
      OBVIOUS
    <3> QED
      BY <2>1, <3>1, <3>2
  <2> QED
    BY <2>2, <2>3
<1>2. /\ OthersKept(s) /\ LogsKept /\ Counted /\ Defines(s)
      /\ at'[s] = step /\ asked'[s] = what /\ began'[s] = began[s]
      /\ defined < MaxDefined /\ defined' = defined + 1 /\ UNCHANGED <<cache, servable>>
  BY <1>1, CarriesParts, DecidedDoes
<1>3. TablesStay /\ CarriesTyped(s)'
  BY <1>1, <1>2, LogsStay, CarriesParts, DefiningTyped
<1>4. defined' \in 0 .. MaxDefined
  BY <1>2, CarriesParts DEF SharedTyped, ServingAssumption
<1>5. IsList(servable)' /\ cache' \in [Tables -> Replays] /\ faults' \in 0 .. MaxFaults
  BY <1>2, <1>3, CarriesParts, ListStays, CountedTyped DEF SharedTyped
<1>6. SharedTyped'
  BY <1>2, <1>4, <1>5, CarriesParts, SharedStep
<1> QED
  BY <1>1, <1>2, <1>3, <1>6 DEF StepTyped

LEMMA DefineFailsTyped ==
    ASSUME ServingAssumption, Typed, NEW s \in Statements, DefineFails(s)
    PROVE  StepTyped(s)
<1>1. /\ Counted /\ Defines(s) /\ LogsKept /\ at'[s] = "idle" /\ began'[s] = began[s]
      /\ UNCHANGED <<cache, servable, defined>>
  BY CarriesParts, DefineFailsDoes
<1>2. SharedTyped' /\ TablesStay
  BY <1>1, CarriesParts, CacheTyped, SharedSame, LogsStay
<1> QED
  BY <1>1, <1>2, CarriesParts, DefiningTyped DEF StepTyped

\* What happens to the log of a name: no table's changes.
LEMMA NameChanges ==
    ASSUME ServingAssumption, Typed, NEW n \in Names, NEW new \in {Absent} \cup Cloned,
           log' = [log EXCEPT ![n] = new]
    PROVE  /\ log' \in Logs /\ TablesStay
           /\ \A r \in Roots : log'[r] = IF r = n THEN new ELSE log[r]
<1>1. log \in Logs /\ n \in Roots /\ \A t \in Tables : t \in Roots /\ t # n
  BY SharedParts, RootsParts
<1>2. \A r \in Roots : log'[r] = IF r = n THEN new ELSE log[r]
  BY <1>1 DEF Logs
<1>3. log' \in Logs
  BY <1>1 DEF Logs
<1> QED
  BY <1>1, <1>2, <1>3 DEF TablesStay, Exists

LEMMA CreatedTyped ==
    ASSUME ServingAssumption, Typed, NEW s \in Statements, Created(s)
    PROVE  StepTyped(s)
<1>1. /\ Counted /\ Defines(s) /\ at'[s] = "idle" /\ began'[s] = began[s]
      /\ UNCHANGED <<cache, servable, defined>> /\ at[s] = "creating"
  BY CarriesParts, CreatedDoes
<1>2. asked[s].name \in Names /\ asked[s].lineage \in Lineages
  BY <1>1, CarriesParts DEF CarriesTyped
<1>3. /\ created' \in [Names -> Nat] /\ log' \in Logs /\ severed' \in SUBSET Names /\ TablesStay
  <2>1. CASE LogsKept
    BY <2>1, CarriesParts, LogsStay DEF LogsKept, SharedTyped
  <2>2. CASE ~LogsKept
    <3>1. /\ created' = [created EXCEPT ![asked[s].name] = @ + 1]
          /\ log' = [log EXCEPT ![asked[s].name] = NewClone(asked[s].lineage)]
          /\ severed' \in {severed \ {asked[s].name}, severed \cup {asked[s].name}}
      BY <2>2, CarriesParts, CreatedDoes
    <3>2. created' \in [Names -> Nat] /\ severed' \in SUBSET Names
      BY <1>2, <3>1, CarriesParts DEF SharedTyped
    <3>3. NewClone(asked[s].lineage) \in Cloned
      BY <1>2, CarriesParts, CloneMade
    <3> QED
      BY <1>2, <3>1, <3>2, <3>3, NameChanges
  <2> QED
    BY <2>1, <2>2
<1>4. SharedTyped'
  <2>1. IsList(servable)' /\ faults' \in 0 .. MaxFaults
    BY <1>1, <1>3, CarriesParts, ListStays, CountedTyped
  <2> QED
    BY <1>1, <1>3, <2>1, CarriesParts, LogsConstant DEF SharedTyped
<1> QED
  BY <1>1, <1>3, <1>4, CarriesParts, DefiningTyped DEF StepTyped

LEMMA DroppedTyped ==
    ASSUME ServingAssumption, Typed, NEW s \in Statements, Dropped(s)
    PROVE  StepTyped(s) /\ Shapes' /\ \A q \in Statements \ {s} : CarriesTyped(q)'
<1>1. /\ Shapes' /\ Counted /\ Defines(s) /\ \A q \in Statements \ {s} : KeptButBegan(q)
      /\ at[s] = "dropping" /\ at'[s] = "idle"
      /\ UNCHANGED <<cache, servable, defined, created>>
      /\ log' = [log EXCEPT ![asked[s].name] = Absent]
      /\ \A q \in Statements : began'[q] = [began[q] EXCEPT ![asked[s].name] = -1]
      /\ severed' = (severed \cup Dependents(asked[s].name, Names)) \ {asked[s].name}
  BY CarriesParts, DroppedDoes
<1>2. asked[s].name \in Names
  BY <1>1, CarriesParts DEF CarriesTyped
<1>3. log' \in Logs /\ TablesStay
  BY <1>1, <1>2, NameChanges
<1>4. ASSUME NEW q \in Statements PROVE began'[q] \in [Roots -> -1 .. MaxVersion]
  <2>1. began[q] \in [Roots -> -1 .. MaxVersion] /\ -1 \in -1 .. MaxVersion
    BY CarriesParts DEF ServingAssumption
  <2> QED
    BY <1>1, <2>1
<1>5. severed' \in SUBSET Names
  BY <1>1, CarriesParts DEF SharedTyped, Dependents
<1>6. SharedTyped'
  <2>1. IsList(servable)' /\ faults' \in 0 .. MaxFaults
    BY <1>1, <1>3, CarriesParts, ListStays, CountedTyped
  <2> QED
    BY <1>1, <1>3, <1>5, <2>1, CarriesParts, LogsConstant DEF SharedTyped
<1>7. ASSUME NEW q \in Statements \ {s} PROVE CarriesTyped(q)'
  BY <1>1, <1>3, <1>4, CarriesParts, KeptTyped
<1>8. CarriesTyped(s)'
  BY <1>1, <1>3, <1>4, DefiningTyped
<1> QED
  BY <1>1, <1>6, <1>7, <1>8 DEF StepTyped

LEMMA CommitTyped ==
    ASSUME ServingAssumption, Typed, NEW t \in Tables, Commit(t)
    PROVE  Typed'
<1>1. /\ Newest(t) < MaxVersion /\ log' = [log EXCEPT ![t] = Table(Newest(t) + 1)]
      /\ Shapes' /\ (\A q \in Statements : Kept(q))
      /\ UNCHANGED <<cache, servable, created, defined, faults, severed>>
  BY SharedParts, CommitDoes
<1>2. log \in Logs /\ t \in Roots /\ Newest(t) + 1 \in 0 .. MaxVersion
  <2>1. log \in Logs /\ t \in Roots /\ MaxVersion \in Nat
    BY SharedParts, RootsParts
  <2>2. Newest(t) \in -1 .. MaxVersion
    BY <2>1, LogBounds
  <2> QED
    BY <1>1, <2>1, <2>2
<1>3. log' \in Logs /\ log'[t] = Table(Newest(t) + 1)
      /\ \A r \in Roots \ {t} : log'[r] = log[r]
  <2>1. Table(Newest(t) + 1) \in {Table(v) : v \in 0 .. MaxVersion}
    BY <1>2
  <2> QED
    BY <1>1, <1>2, <2>1 DEF Logs
<1>4. TablesStay
  BY <1>3, RootsParts DEF TablesStay, Exists, Table
<1>5. SharedTyped'
  <2>1. IsList(servable)'
    BY <1>1, <1>4, SharedParts, ListStays
  <2> QED
    BY <1>1, <1>3, <2>1, SharedParts, LogsConstant DEF SharedTyped
<1>6. ASSUME NEW q \in Statements PROVE CarriesTyped(q)'
  BY <1>1, <1>4, CarriesParts, KeptTyped DEF Kept
<1> QED
  BY <1>1, <1>5, <1>6 DEF Typed

\* Every step is one of these.
LEMMA Steps ==
    ASSUME [Next]_vars
    PROVE  \/ \E s \in Statements :
                 \/ Begin(s) \/ Discover(s) \/ DiscoverFails(s) \/ Publish(s) \/ Finish(s)
                 \/ \E t \in Tables :
                       \/ Refresh(s, t) \/ RefreshFails(s, t) \/ Resolve(s, t) \/ ResolveFails(s, t)
                       \/ Adopted(s, t) \/ AdoptedUnasked(s, t)
                 \/ \E r \in Roots : Adopt(s, r) \/ AdoptFails(s, r)
                 \/ Created(s) \/ Dropped(s) \/ DefineFails(s)
                 \/ \E n \in Names :
                       \/ AdoptClone(s, n)
                       \/ Drop(s, n) \/ DropUnseeing(s, n)
                       \/ \E o \in Roots, v \in 0 .. MaxVersion : Create(s, n, o, v)
           \/ \E t \in Tables : Commit(t)
           \/ UNCHANGED vars
BY DEF Next, Roots

\* A step that leaves the other statements alone, and takes no table away.
LEMMA TypedByOne ==
    ASSUME Typed, NEW s \in Statements, StepTyped(s), OthersKept(s), TablesStay
    PROVE  Typed'
<1>1. ASSUME NEW q \in Statements \ {s} PROVE CarriesTyped(q)'
  <2>1. Kept(q)
    BY DEF OthersKept
  <2>2. CarriesTyped(q) /\ KeptButBegan(q) /\ began'[q] \in [Roots -> -1 .. MaxVersion]
    BY <2>1, CarriesParts DEF Kept
  <2> QED
    BY <2>2, KeptTyped
<1> QED
  BY <1>1 DEF Typed, StepTyped, OthersKept

LEMMA CreatedStays ==
    ASSUME ServingAssumption, Typed, NEW s \in Statements, Created(s)
    PROVE  TablesStay /\ OthersKept(s)
<1>1. at[s] = "creating" /\ OthersKept(s)
  BY CarriesParts, CreatedDoes
<1>2. asked[s].name \in Names /\ asked[s].lineage \in Lineages
  BY <1>1, CarriesParts DEF CarriesTyped
<1>3. NewClone(asked[s].lineage) \in Cloned
  BY <1>2, CarriesParts, CloneMade
<1>4. LogsKept \/ log' = [log EXCEPT ![asked[s].name] = NewClone(asked[s].lineage)]
  BY CarriesParts, CreatedDoes
<1> QED
  BY <1>1, <1>2, <1>3, <1>4, NameChanges, LogsStay

LEMMA TypedStep == ServingAssumption /\ Typed /\ [Next]_vars => Typed'
<1> SUFFICES ASSUME ServingAssumption, Typed, [Next]_vars PROVE Typed'
  OBVIOUS
<1>1. Shapes /\ SharedTyped
  BY SharedParts
<1>2. ASSUME NEW s \in Statements, StepTyped(s), OthersKept(s), LogsKept PROVE Typed'
  BY <1>2, LogsStay, TypedByOne
<1>3. ASSUME NEW s \in Statements, Begin(s) PROVE Typed'
  BY <1>1, <1>2, <1>3, BeginTyped, BeginDoes
<1>4. ASSUME NEW s \in Statements, Discover(s) \/ DiscoverFails(s) PROVE Typed'
  BY <1>1, <1>2, <1>4, WalkedTyped, WalkedDoes
<1>5. ASSUME NEW s \in Statements, Publish(s) PROVE Typed'
  BY <1>1, <1>2, <1>5, PublishTyped, PublishDoes
<1>6. ASSUME NEW s \in Statements, Finish(s) PROVE Typed'
  BY <1>1, <1>2, <1>6, FinishTyped, FinishDoes
<1>7. ASSUME NEW s \in Statements, NEW t \in Tables, Refresh(s, t) \/ RefreshFails(s, t)
      PROVE  Typed'
  BY <1>1, <1>2, <1>7, LookedTyped, LookedDoes
<1>8. ASSUME NEW s \in Statements, NEW t \in Tables, Resolve(s, t) \/ ResolveFails(s, t)
      PROVE  Typed'
  BY <1>1, <1>2, <1>8, TriedTyped, TriedDoes
<1>9. ASSUME NEW s \in Statements, NEW t \in Tables, Adopted(s, t) \/ AdoptedUnasked(s, t)
      PROVE  Typed'
  BY <1>1, <1>2, <1>9, AddedAtTyped, AddedAtDoes
<1>10. ASSUME NEW s \in Statements, NEW r \in Roots, Adopt(s, r) \/ AdoptFails(s, r)
       PROVE  Typed'
  BY <1>1, <1>2, <1>10, AdoptTyped, AdoptDoes
<1>11. ASSUME NEW s \in Statements, NEW c \in Names, AdoptClone(s, c) PROVE Typed'
  BY <1>1, <1>2, <1>11, AdoptCloneTyped, AdoptCloneDoes
<1>12. ASSUME NEW s \in Statements, NEW n \in Names,
              \/ \E o \in Roots, v \in 0 .. MaxVersion : Create(s, n, o, v)
              \/ Drop(s, n) \/ DropUnseeing(s, n)
       PROVE  Typed'
  BY <1>2, <1>12, DecidedTyped
<1>13. ASSUME NEW s \in Statements, DefineFails(s) PROVE Typed'
  BY <1>1, <1>2, <1>13, DefineFailsTyped, DefineFailsDoes
<1>14. ASSUME NEW s \in Statements, Created(s) PROVE Typed'
  BY <1>14, CreatedTyped, CreatedStays, TypedByOne
<1>15. ASSUME NEW s \in Statements, Dropped(s) PROVE Typed'
  BY <1>15, DroppedTyped DEF Typed, StepTyped
<1>16. ASSUME NEW t \in Tables, Commit(t) PROVE Typed'
  BY <1>16, CommitTyped
<1>17. CASE UNCHANGED vars
  <2>1. /\ Shapes' /\ (\A q \in Statements : Kept(q))
        /\ UNCHANGED <<log, cache, servable, created, defined, faults, severed>>
    BY <1>1, <1>17, StutterDoes
  <2>2. LogsKept /\ TablesStay /\ IsList(servable)'
    BY <2>1, SharedParts, LogsStay, ListStays DEF LogsKept
  <2>3. SharedTyped'
    BY <1>1, <2>1, <2>2, SharedStep DEF SharedTyped
  <2>4. ASSUME NEW q \in Statements PROVE CarriesTyped(q)'
    BY <2>1, <2>2, CarriesParts, KeptTyped DEF Kept
  <2> QED
    BY <2>1, <2>3, <2>4 DEF Typed
<1> QED
  BY <1>3, <1>4, <1>5, <1>6, <1>7, <1>8, <1>9, <1>10, <1>11, <1>12, <1>13, <1>14, <1>15, <1>16,
     <1>17, Steps

LEMMA TypedAlways == Spec => []Typed
BY TypedInit, TypedStep, ServingAssumption, PTL DEF Spec

LEMMA TypedSuffices == ServingAssumption /\ Typed => TypeOK
<1> SUFFICES ASSUME ServingAssumption, Typed PROVE TypeOK
  OBVIOUS
<1>1. /\ log \in [Roots -> {Absent} \cup {Table(v) : v \in 0 .. MaxVersion} \cup Cloned]
      /\ cache \in [Tables -> [version : -1 .. MaxVersion, files : SUBSET (1 .. MaxVersion)]]
      /\ DOMAIN servable \subseteq Roots /\ (\A r \in DOMAIN servable : servable[r] \in Open)
      /\ created \in [Names -> Nat] /\ defined \in 0 .. MaxDefined /\ faults \in 0 .. MaxFaults
      /\ severed \in SUBSET Names
  BY SharedParts DEF SharedTyped, Logs, Replays, IsList
<1>2. ASSUME NEW s \in Statements
      PROVE  /\ DOMAIN list[s] \subseteq Roots
             /\ \A r \in DOMAIN list[s] : list[s][r] \in Open
             /\ todo[s] \subseteq Tables /\ DOMAIN found[s] \subseteq Roots
             /\ at[s] \in {"idle", "refresh", "resolve", "adopt", "version", "read",
                           "creating", "dropping"}
             /\ now[s] \in 0 .. MaxVersion /\ moved[s] \in BOOLEAN
             /\ began[s] \in [Roots -> -1 .. MaxVersion] /\ failed[s] \in SUBSET Roots
  BY CarriesParts DEF CarriesTyped, IsList
<1>3. Shapes
  BY SharedParts
<1>4. /\ at \in [Statements -> {"idle", "refresh", "resolve", "adopt", "version", "read",
                                "creating", "dropping"}]
      /\ now \in [Statements -> 0 .. MaxVersion] /\ moved \in [Statements -> BOOLEAN]
  BY <1>2, <1>3 DEF Shapes
<1>5. /\ began \in [Statements -> [Roots -> -1 .. MaxVersion]]
      /\ failed \in [Statements -> SUBSET Roots]
  BY <1>2, <1>3 DEF Shapes
<1> QED
  BY <1>1, <1>2, <1>4, <1>5 DEF TypeOK

\* The variables have their types, whatever the tables, the clones and the statements,
\* and whichever calls fail.
THEOREM TypesHold == Spec => []TypeOK
BY TypedAlways, TypedSuffices, ServingAssumption, PTL

-----------------------------------------------------------------------------
(* Freshness.                                                              *)

LEMMA FreshParts ==
    ASSUME Fresh, NEW t \in Tables
    PROVE  /\ KindsApart /\ CacheWhole
           /\ t \in DOMAIN servable => Whole(servable[t])
           /\ \A s \in Statements : CarriesFresh(s, t)
           /\ cache[t].version <= Newest(t) /\ cache[t].files = 1 .. cache[t].version
BY DEF Fresh, CacheWhole

\* A table that is there is at some version, and holds the files up to it.
LEMMA TableKinds ==
    ASSUME ServingAssumption, Typed, KindsApart, NEW t \in Tables
    PROVE  /\ Newest(t) \in -1 .. MaxVersion /\ FilesOf(t) = 1 .. Newest(t)
           /\ Exists(t) <=> Newest(t) # -1
           /\ cache[t].version \in -1 .. MaxVersion
<1>1. t \in Roots /\ log \in Logs /\ MaxVersion \in Nat
  BY SharedParts, RootsParts
<1>2. ASSUME log[t] = Absent
      PROVE  ~Exists(t) /\ Newest(t) = -1 /\ FilesOf(t) = 1 .. Newest(t)
  <2>1. ~Exists(t) /\ Newest(t) = -1 /\ FilesOf(t) = {}
    BY <1>2, AbsentLog
  <2> QED
    BY <2>1
<1>3. ASSUME NEW v \in 0 .. MaxVersion, log[t] = Table(v)
      PROVE  Exists(t) /\ Newest(t) \in 0 .. MaxVersion /\ FilesOf(t) = 1 .. Newest(t)
  BY <1>3, TableLog
<1>4. cache[t].version \in -1 .. MaxVersion
  BY SharedParts DEF SharedTyped, Replays
<1> QED
  BY <1>1, <1>2, <1>3, <1>4 DEF KindsApart

LEMMA NewestNext ==
    ASSUME ServingAssumption, KindsApart', NEW t \in Tables
    PROVE  Newest(t)' \in -1 .. MaxVersion
<1>1. MaxVersion \in Nat
  BY RootsParts
<1>2. ASSUME log'[t] = Absent PROVE Newest(t)' = -1
  BY <1>2 DEF Absent, Newest
<1>3. ASSUME NEW v \in 0 .. MaxVersion, log'[t] = Table(v) PROVE Newest(t)' = v
  BY <1>3 DEF Table, Newest
<1> QED
  BY <1>1, <1>2, <1>3 DEF KindsApart

LEMMA LookupWhole ==
    ASSUME ServingAssumption, Typed, Fresh, NEW t \in Tables
    PROVE  Lookup(t).version = Newest(t) /\ Lookup(t).files = 1 .. Newest(t)
<1>1. /\ Newest(t) \in -1 .. MaxVersion /\ FilesOf(t) = 1 .. Newest(t)
      /\ cache[t].version \in -1 .. MaxVersion /\ MaxVersion \in Nat
  BY FreshParts, TableKinds, RootsParts
<1>2. cache[t].version <= Newest(t) /\ cache[t].files = 1 .. cache[t].version
  BY FreshParts
<1>3. Lookup(t) = [version |-> Newest(t),
                   files |-> cache[t].files \cup {f \in FilesOf(t) : f > cache[t].version}]
  <2>1. ~ (cache[t].version > Newest(t))
    BY <1>1, <1>2
  <2> QED
    BY <2>1 DEF Lookup
<1>4. cache[t].files \cup {f \in FilesOf(t) : f > cache[t].version} = 1 .. Newest(t)
  BY <1>1, <1>2
<1> QED
  BY <1>3, <1>4

\* What a step does to the log of a table.
TableMoves(t) == Newest(t)' >= Newest(t)

\* What it does to the cached replay of it.
ReplayMoves(t) ==
    \/ cache'[t] = cache[t]
    \/ cache'[t] = Cold
    \/ cache'[t].version = Newest(t) /\ cache'[t].files = 1 .. Newest(t)

LEMMA NewestKept ==
    ASSUME ServingAssumption, Typed, KindsApart, LogsKept
    PROVE  KindsApart' /\ \A t \in Tables : Newest(t)' = Newest(t) /\ TableMoves(t)
<1>1. \A t \in Tables : Newest(t)' = Newest(t)
  BY DEF LogsKept, Newest
<1>2. \A t \in Tables : Newest(t) \in -1 .. MaxVersion /\ MaxVersion \in Nat
  BY TableKinds, RootsParts
<1>3. \A t \in Tables : TableMoves(t)
  BY <1>1, <1>2 DEF TableMoves
<1> QED
  BY <1>1, <1>3 DEF LogsKept, KindsApart

LEMMA CacheMoves ==
    ASSUME ServingAssumption, Typed, Fresh, NEW r,
           \/ cache' = cache
           \/ r \in Tables /\ cache' = [cache EXCEPT ![r] = Lookup(r)]
           \/ LookFails(r)
    PROVE  \A t \in Tables : ReplayMoves(t)
<1> SUFFICES ASSUME NEW t \in Tables PROVE ReplayMoves(t)
  OBVIOUS
<1>1. DOMAIN cache = Tables
  BY SharedParts DEF SharedTyped
<1>2. CASE cache' = cache
  BY <1>2 DEF ReplayMoves
<1>3. CASE LookFails(r)
  BY <1>3 DEF LookFails, ReplayMoves
<1>4. CASE r \in Tables /\ cache' = [cache EXCEPT ![r] = Lookup(r)]
  <2>1. CASE t = r
    BY <1>1, <1>4, <2>1, LookupWhole DEF ReplayMoves
  <2>2. CASE t # r
    BY <1>1, <1>4, <2>2 DEF ReplayMoves
  <2> QED
    BY <2>1, <2>2
<1> QED
  BY <1>2, <1>3, <1>4

LEMMA CacheStaysWhole ==
    ASSUME ServingAssumption, Typed, Fresh, Typed', KindsApart',
           \A t \in Tables : ReplayMoves(t) /\ TableMoves(t)
    PROVE  CacheWhole'
<1> SUFFICES ASSUME NEW t \in Tables
             PROVE  cache'[t].version <= Newest(t)' /\ cache'[t].files = 1 .. cache'[t].version
  BY DEF CacheWhole
<1>1. /\ Newest(t) \in -1 .. MaxVersion /\ cache[t].version \in -1 .. MaxVersion
      /\ MaxVersion \in Nat
  BY FreshParts, TableKinds, RootsParts
<1>3. Newest(t)' \in -1 .. MaxVersion
  BY NewestNext
<1>4. cache[t].version <= Newest(t) /\ cache[t].files = 1 .. cache[t].version
  BY FreshParts
<1>5. ReplayMoves(t) /\ TableMoves(t)
  OBVIOUS
<1>6. CASE cache'[t] = Cold
  BY <1>3, <1>6 DEF Cold
<1>7. CASE cache'[t] # Cold
  BY <1>1, <1>3, <1>4, <1>5, <1>7 DEF ReplayMoves, TableMoves
<1> QED
  BY <1>6, <1>7

\* A statement that is left alone, or only defines.
LEMMA KeptFresh ==
    ASSUME ServingAssumption, Typed, Fresh, Typed', KindsApart',
           NEW q \in Statements, NEW t \in Tables,
           ReplayMoves(t), TableMoves(t), began'[q][t] = began[q][t],
           KeptButBegan(q) \/ (Defines(q) /\ at'[q] \in {"idle", "creating", "dropping"})
    PROVE  CarriesFresh(q, t)'
<1>1. /\ Newest(t) \in -1 .. MaxVersion /\ cache[t].version \in -1 .. MaxVersion
      /\ MaxVersion \in Nat
  BY FreshParts, TableKinds, RootsParts
<1>3. Newest(t)' \in -1 .. MaxVersion
  BY NewestNext
<1>4. now[q] \in 0 .. MaxVersion /\ began[q][t] \in -1 .. MaxVersion
  BY CarriesParts, RootsParts
<1>5. CarriesFresh(q, t)
  BY FreshParts
<1>6. list'[q] = list[q] /\ failed'[q] = failed[q] /\ began'[q][t] <= Newest(t)'
  BY <1>1, <1>3, <1>4, <1>5 DEF KeptButBegan, Defines, TableMoves, CarriesFresh
<1>7. CASE KeptButBegan(q)
  <2>1. /\ at'[q] = at[q] /\ todo'[q] = todo[q] /\ found'[q] = found[q] /\ now'[q] = now[q]
    BY <1>7 DEF KeptButBegan
  <2>2. ASSUME at[q] = "resolve", t \in DOMAIN found[q]
        PROVE  /\ now'[q] <= Newest(t)'
               /\ cache'[t].version = -1 \/ now'[q] <= cache'[t].version
    <3>1. now[q] <= Newest(t) /\ (cache[t].version = -1 \/ now[q] <= cache[t].version)
      BY <1>5, <2>2 DEF CarriesFresh
    <3> QED
      BY <1>1, <1>3, <1>4, <2>1, <3>1 DEF ReplayMoves, TableMoves, Cold
  <2> QED
    BY <1>5, <1>6, <2>1, <2>2 DEF CarriesFresh, Owed
<1>8. CASE Defines(q) /\ at'[q] \in {"idle", "creating", "dropping"}
  BY <1>5, <1>6, <1>8 DEF CarriesFresh
<1> QED
  BY <1>7, <1>8

\* A list that is whole at a version no older.
LEMMA WholeAt ==
    ASSUME NEW o, NEW v \in 0 .. MaxVersion, o.files = 1 .. v, MaxVersion \in Nat
    PROVE  /\ o.resolved_at <= v \/ o.flaw = "overtaken" => Whole(o)
           /\ \A oldest \in -1 .. MaxVersion : oldest <= v => NoOlder(o, oldest)
<1>1. o.resolved_at <= v \/ o.flaw = "overtaken" => Whole(o)
  BY DEF Whole
<1>2. ASSUME NEW oldest \in -1 .. MaxVersion, oldest <= v PROVE NoOlder(o, oldest)
  <2>1. v \in oldest .. MaxVersion /\ v >= 0
    BY <1>2
  <2> QED
    BY <2>1 DEF NoOlder
<1> QED
  BY <1>1, <1>2

LEMMA BeginFresh ==
    ASSUME ServingAssumption, Typed, Fresh, NEW s \in Statements, NEW x \in Tables, Begin(s)
    PROVE  CarriesFresh(s, x)'
<1>1. /\ LogsKept /\ at'[s] = "refresh" /\ list'[s] = servable
      /\ todo'[s] = DOMAIN servable \cap Tables /\ began'[s] = [r \in Roots |-> Newest(r)]
  BY CarriesParts, BeginDoes
<1>2. Newest(x)' = Newest(x) /\ Newest(x) \in -1 .. MaxVersion
  BY <1>1, FreshParts, NewestKept, TableKinds
<1>3. began'[s][x] = Newest(x)
  BY <1>1, RootsParts
<1>4. x \in DOMAIN list'[s] => Whole(list'[s][x]) /\ x \in todo'[s]
  BY <1>1, FreshParts
<1> QED
  BY <1>1, <1>2, <1>3, <1>4, RootsParts DEF CarriesFresh

LEMMA LookedFresh ==
    ASSUME ServingAssumption, Typed, Fresh, NEW s \in Statements, NEW x \in Tables,
           NEW t \in Tables, Refresh(s, t) \/ RefreshFails(s, t)
    PROVE  CarriesFresh(s, x)'
<1>1. /\ LogsKept /\ at[s] = "refresh" /\ t \in todo[s] /\ list'[s] = list[s]
      /\ began'[s] = began[s]
  BY CarriesParts, LookedDoes
<1>2. PICK version :
         /\ Says(s, t, version)
         /\ \/ /\ version = list[s][t].resolved_at
               /\ at'[s] = "refresh" /\ todo'[s] = todo[s] \ {t}
               /\ now'[s] = now[s] /\ found'[s] = found[s]
            \/ /\ version # list[s][t].resolved_at
               /\ at'[s] = "resolve" /\ todo'[s] = todo[s]
               /\ now'[s] = version /\ found'[s] = [z \in {t} |-> Unopened]
  BY CarriesParts, LookedDoes
<1>3. /\ Newest(x)' = Newest(x) /\ Newest(x) \in -1 .. MaxVersion
      /\ Newest(t)' = Newest(t) /\ Newest(t) \in -1 .. MaxVersion
  BY <1>1, FreshParts, NewestKept, TableKinds
<1>4. CarriesFresh(s, x) /\ CarriesFresh(s, t)
  BY FreshParts
<1>5. failed[s] \subseteq failed'[s]
  BY <1>2 DEF Says
<1>6. began[s][x] \in -1 .. MaxVersion /\ began[s][t] \in -1 .. MaxVersion /\ MaxVersion \in Nat
  BY CarriesParts, RootsParts
<1>7. ASSUME at'[s] = "refresh", Owed(s, x)', x \in DOMAIN list[s] \ todo'[s]
      PROVE  NoOlder(list[s][x], began[s][x])
  <2>1. Owed(s, x) /\ todo'[s] = todo[s] \ {t} /\ version = list[s][t].resolved_at
    BY <1>1, <1>2, <1>5, <1>7 DEF Owed
  <2>2. CASE x # t
    BY <1>1, <1>4, <1>7, <2>1, <2>2 DEF CarriesFresh
  <2>3. CASE x = t
    <3>1. version = Newest(t)
      BY <1>2, <1>7, <2>3 DEF Says, Owed
    <3>2. list[s][t].resolved_at \in 0 .. MaxVersion /\ Whole(list[s][t])
      <4>1. list[s][t] \in Open
        BY <1>7, <2>3, CarriesParts DEF IsList
      <4> QED
        BY <1>4, <1>7, <2>3, <4>1, OpenParts DEF CarriesFresh
    <3>3. began[s][t] <= Newest(t)
      BY <1>4 DEF CarriesFresh
    <3>4. CASE list[s][t].flaw = "overtaken"
      BY <2>3, <3>4 DEF NoOlder
    <3>5. CASE list[s][t].flaw # "overtaken"
      <4>1. PICK v \in 0 .. MaxVersion :
               list[s][t].files = 1 .. v /\ list[s][t].resolved_at <= v
        BY <3>2, <3>5 DEF Whole
      <4>2. began[s][t] <= v
        BY <1>3, <1>6, <2>1, <3>1, <3>2, <3>3, <4>1
      <4> QED
        BY <1>6, <2>3, <4>1, <4>2, WholeAt
    <3> QED
      BY <3>4, <3>5
  <2> QED
    BY <2>2, <2>3
<1>8. ASSUME at'[s] = "resolve", x \in DOMAIN found'[s]
      PROVE  now'[s] <= Newest(x) /\ (cache'[x].version = -1 \/ now'[s] <= cache'[x].version)
  <2>1. x = t /\ now'[s] = version /\ version # list[s][t].resolved_at
    BY <1>2, <1>8
  <2>2. CASE version = Newest(t) /\ cache' = [cache EXCEPT ![t] = Lookup(t)]
    <3>1. cache'[t].version = Newest(t)
      BY <2>2, LookupWhole, SharedParts DEF SharedTyped
    <3> QED
      BY <1>3, <2>1, <2>2, <3>1
  <2>3. CASE version = cache[t].version /\ UNCHANGED cache
    <3>1. cache[t].version <= Newest(t) /\ cache[t].version \in -1 .. MaxVersion
      BY FreshParts, TableKinds
    <3> QED
      BY <2>1, <2>3, <3>1
  <2> QED
    BY <1>2, <2>1, <2>2, <2>3 DEF Says, LooksNoFurther
<1>9. ASSUME at'[s] = "resolve", Owed(s, x)', x \in DOMAIN list[s] \ todo'[s]
      PROVE  NoOlder(list[s][x], began[s][x])
  <2>1. Owed(s, x) /\ todo'[s] = todo[s]
    BY <1>1, <1>2, <1>5, <1>9 DEF Owed
  <2> QED
    BY <1>1, <1>4, <1>9, <2>1 DEF CarriesFresh
<1>10. at'[s] \in {"refresh", "resolve"}
  BY <1>2
<1> QED
  BY <1>1, <1>3, <1>4, <1>7, <1>8, <1>9, <1>10 DEF CarriesFresh

LEMMA TriedFresh ==
    ASSUME ServingAssumption, Typed, Fresh, NEW s \in Statements, NEW x \in Tables,
           NEW t \in Tables, Resolve(s, t) \/ ResolveFails(s, t)
    PROVE  CarriesFresh(s, x)'
<1>1. /\ LogsKept /\ at[s] = "resolve" /\ t \in DOMAIN found[s]
      /\ at'[s] = "refresh" /\ todo'[s] = todo[s] \ {t} /\ began'[s] = began[s]
      /\ \/ /\ cache' = [cache EXCEPT ![t] = Lookup(t)] /\ failed'[s] = failed[s]
            /\ list'[s] = ListResolved(s, t, Lookup(t).files)
         \/ /\ LookFails(t) /\ failed'[s] = failed[s] \cup {t} /\ list'[s] = list[s]
         \/ /\ LooksNoFurther(t) /\ failed'[s] = failed[s] \cup {t}
            /\ list'[s] = ListResolved(s, t, cache[t].files)
  BY CarriesParts, TriedDoes
<1>2. /\ Newest(x)' = Newest(x) /\ Newest(x) \in -1 .. MaxVersion
      /\ Newest(t) \in -1 .. MaxVersion /\ cache[t].version \in -1 .. MaxVersion
  BY <1>1, FreshParts, NewestKept, TableKinds
<1>3. CarriesFresh(s, x) /\ CarriesFresh(s, t)
  BY FreshParts
<1>4. /\ t \in DOMAIN list[s] /\ list[s][t] \in Open /\ Exists(t)
      /\ now[s] \in 0 .. MaxVersion /\ began[s][t] \in -1 .. MaxVersion /\ MaxVersion \in Nat
  <2>1. t \in DOMAIN list[s] /\ IsList(list[s]) /\ IsList(found[s])
    BY <1>1, CarriesParts DEF CarriesTyped
  <2> QED
    BY <1>1, <2>1, CarriesParts, RootsParts DEF IsList
<1>5. /\ Newest(t) \in 0 .. MaxVersion /\ now[s] <= Newest(t) /\ began[s][t] <= Newest(t)
      /\ cache[t].version = -1 \/ now[s] <= cache[t].version
      /\ cache[t].files = 1 .. cache[t].version
  BY <1>1, <1>2, <1>3, <1>4, FreshParts, TableKinds DEF CarriesFresh
<1>6. ASSUME NEW v \in 0 .. MaxVersion, now[s] <= v, list'[s] = ListResolved(s, t, 1 .. v)
      PROVE  /\ DOMAIN list'[s] = DOMAIN list[s] /\ Whole(list'[s][t])
             /\ \A y \in DOMAIN list[s] \ {t} : list'[s][y] = list[s][y]
             /\ began[s][t] <= v => NoOlder(list'[s][t], began[s][t])
  <2> DEFINE files == 1 .. v
             again == Again(list[s][t], files, now[s])
  <2>1. files \in SUBSET (1 .. MaxVersion)
    BY <1>4
  <2>2. /\ DOMAIN list'[s] = DOMAIN list[s] /\ list'[s][t] = again
        /\ \A y \in DOMAIN list[s] \ {t} : list'[s][y] = list[s][y]
    BY <1>4, <1>6 DEF ListResolved
  <2>3. again.files = files /\ again.resolved_at = now[s]
    <3> HIDE DEF files
    <3> QED
      BY <1>4, <2>1, AgainTyped
  <2> HIDE DEF again
  <2>4. Whole(again) /\ (began[s][t] <= v => NoOlder(again, began[s][t]))
    BY <1>4, <1>6, <2>3, WholeAt
  <2> QED
    BY <2>2, <2>4
<1>7. CASE /\ cache' = [cache EXCEPT ![t] = Lookup(t)] /\ failed'[s] = failed[s]
           /\ list'[s] = ListResolved(s, t, Lookup(t).files)
  <2>1. list'[s] = ListResolved(s, t, 1 .. Newest(t))
    BY <1>7, LookupWhole
  <2>2. /\ DOMAIN list'[s] = DOMAIN list[s] /\ Whole(list'[s][t])
        /\ \A y \in DOMAIN list[s] \ {t} : list'[s][y] = list[s][y]
        /\ NoOlder(list'[s][t], began[s][t])
    <3> DEFINE v == Newest(t)
    <3>1. v \in 0 .. MaxVersion /\ now[s] <= v /\ began[s][t] <= v
      BY <1>5
    <3>2. list'[s] = ListResolved(s, t, 1 .. v)
      BY <2>1
    <3> HIDE DEF v
    <3> QED
      BY <1>6, <3>1, <3>2
  <2>3. x \in DOMAIN list'[s] => Whole(list'[s][x])
    BY <1>3, <2>2 DEF CarriesFresh
  <2>4. ASSUME Owed(s, x)', x \in DOMAIN list'[s] \ todo'[s]
        PROVE  NoOlder(list'[s][x], began'[s][x])
    BY <1>1, <1>3, <1>7, <2>2, <2>4 DEF CarriesFresh, Owed
  <2> QED
    BY <1>1, <1>2, <1>3, <2>3, <2>4 DEF CarriesFresh
<1>8. CASE /\ failed'[s] = failed[s] \cup {t}
           /\ LooksNoFurther(t) /\ list'[s] = ListResolved(s, t, cache[t].files)
  <2> DEFINE v == cache[t].version
  <2>1. v \in 0 .. MaxVersion /\ now[s] <= v
    BY <1>2, <1>5, <1>8 DEF LooksNoFurther
  <2>2. list'[s] = ListResolved(s, t, 1 .. v)
    BY <1>5, <1>8
  <2> HIDE DEF v
  <2>3. /\ DOMAIN list'[s] = DOMAIN list[s] /\ Whole(list'[s][t])
        /\ \A y \in DOMAIN list[s] \ {t} : list'[s][y] = list[s][y]
    BY <1>6, <2>1, <2>2
  <2>4. x \in DOMAIN list'[s] => Whole(list'[s][x])
    BY <1>3, <2>3 DEF CarriesFresh
  <2>5. ASSUME Owed(s, x)', x \in DOMAIN list'[s] \ todo'[s]
        PROVE  NoOlder(list'[s][x], began'[s][x])
    BY <1>1, <1>3, <1>8, <2>3, <2>5 DEF CarriesFresh, Owed
  <2> QED
    BY <1>1, <1>2, <1>3, <2>4, <2>5 DEF CarriesFresh
<1>9. CASE failed'[s] = failed[s] \cup {t} /\ list'[s] = list[s]
  <2>1. ASSUME Owed(s, x)', x \in DOMAIN list'[s] \ todo'[s]
        PROVE  NoOlder(list'[s][x], began'[s][x])
    BY <1>1, <1>3, <1>9, <2>1 DEF CarriesFresh, Owed
  <2> QED
    BY <1>1, <1>2, <1>3, <1>9, <2>1 DEF CarriesFresh
<1> QED
  BY <1>1, <1>7, <1>8, <1>9

LEMMA WalkedFresh ==
    ASSUME ServingAssumption, Typed, Fresh, NEW s \in Statements, NEW x \in Tables,
           Discover(s) \/ DiscoverFails(s)
    PROVE  CarriesFresh(s, x)'
<1>1. /\ LogsKept /\ at[s] = "refresh" /\ todo[s] = {} /\ at'[s] = "adopt"
      /\ list'[s] = list[s] /\ todo'[s] = todo[s] /\ began'[s] = began[s]
      /\ failed[s] \subseteq failed'[s]
      /\ Unlisted(s) \subseteq DOMAIN found'[s] \cup failed'[s]
  BY CarriesParts, WalkedDoes
<1>2. /\ Newest(x)' = Newest(x) /\ Newest(x) \in -1 .. MaxVersion
      /\ Exists(x) <=> Newest(x) # -1
  BY <1>1, FreshParts, NewestKept, TableKinds
<1>3. CarriesFresh(s, x)
  BY FreshParts
<1>4. began[s][x] \in -1 .. MaxVersion /\ MaxVersion \in Nat /\ x \in Roots
  BY CarriesParts, RootsParts
<1>5. ASSUME Owed(s, x)'
      PROVE  \/ x \in DOMAIN list[s] /\ NoOlder(list[s][x], began[s][x])
             \/ x \in DOMAIN found'[s]
  <2>1. Owed(s, x) /\ x \notin failed'[s] /\ began[s][x] <= Newest(x)
    BY <1>1, <1>3, <1>5 DEF Owed, CarriesFresh
  <2>2. CASE x \in DOMAIN list[s]
    BY <1>1, <1>3, <2>1, <2>2 DEF CarriesFresh
  <2>3. CASE x \notin DOMAIN list[s]
    <3>1. Exists(x)
      BY <1>2, <1>4, <2>1 DEF Owed
    <3>2. x \in Unlisted(s)
      BY <1>4, <2>3, <3>1 DEF Unlisted
    <3> QED
      BY <1>1, <2>1, <3>2
  <2> QED
    BY <2>2, <2>3
<1> QED
  BY <1>1, <1>2, <1>3, <1>5 DEF CarriesFresh

LEMMA AdoptFresh ==
    ASSUME ServingAssumption, Typed, Fresh, NEW s \in Statements, NEW x \in Tables,
           NEW r, Adopt(s, r) \/ AdoptFails(s, r)
    PROVE  CarriesFresh(s, x)'
<1>1. /\ LogsKept /\ at[s] = "adopt" /\ r \in DOMAIN found[s] /\ list'[s] = list[s]
      /\ began'[s] = began[s]
      /\ \/ /\ r \in Tables /\ at'[s] = "version" /\ todo'[s] = {r}
            /\ \/ /\ cache' = [cache EXCEPT ![r] = Lookup(r)] /\ failed'[s] = failed[s]
                  /\ found'[s] = [found[s] EXCEPT ![r] = [@ EXCEPT !.files = Lookup(r).files]]
               \/ /\ LooksNoFurther(r) /\ failed'[s] = failed[s] \cup {r}
                  /\ found'[s] = [found[s] EXCEPT ![r] = [@ EXCEPT !.files = cache[r].files]]
         \/ /\ at'[s] = "adopt" /\ todo'[s] = todo[s] /\ found'[s] = Without(s, r)
            /\ LookFails(r) /\ failed'[s] = failed[s] \cup {r}
  BY CarriesParts, AdoptDoes
<1>2. Newest(x)' = Newest(x) /\ CarriesFresh(s, x)
  BY <1>1, FreshParts, NewestKept
<1>3. failed[s] \subseteq failed'[s]
  BY <1>1
<1>4. DOMAIN found'[s] = DOMAIN found[s]
      \/ (DOMAIN found'[s] = DOMAIN found[s] \ {r} /\ r \in failed'[s])
  <2>1. CASE at'[s] = "adopt"
    BY <1>1, <2>1, WithoutTyped
  <2>2. CASE at'[s] = "version"
    BY <1>1, <2>2
  <2> QED
    BY <1>1, <2>1, <2>2
<1>5. ASSUME Owed(s, x)'
      PROVE  \/ x \in DOMAIN list[s] /\ NoOlder(list[s][x], began[s][x])
             \/ x \in DOMAIN found'[s]
  <2>1. Owed(s, x) /\ x \notin failed'[s]
    BY <1>1, <1>3, <1>5 DEF Owed
  <2>2. \/ x \in DOMAIN list[s] /\ NoOlder(list[s][x], began[s][x])
        \/ x \in DOMAIN found[s]
    BY <1>1, <1>2, <2>1 DEF CarriesFresh
  <2> QED
    BY <1>4, <2>1, <2>2
<1>6. ASSUME at'[s] = "version", x \in todo'[s]
      PROVE  \E v \in 0 .. MaxVersion :
                found'[s][x].files = 1 .. v /\ (began[s][x] <= v \/ x \in failed'[s])
  <2>1. x = r
    BY <1>1, <1>6
  <2>2. found[s][x] \in Open /\ Exists(x)
    BY <1>1, <2>1, CarriesParts DEF IsList
  <2>3. Newest(x) \in 0 .. MaxVersion /\ cache[x].version \in -1 .. MaxVersion
    BY <2>2, FreshParts, TableKinds
  <2>4. CASE found'[s] = [found[s] EXCEPT ![x] = [@ EXCEPT !.files = Lookup(x).files]]
    <3>1. found'[s][x].files = 1 .. Newest(x)
      BY <1>1, <2>1, <2>2, <2>4, LookupWhole, OpenParts DEF Open
    <3> QED
      BY <1>2, <2>3, <3>1 DEF CarriesFresh
  <2>5. CASE /\ found'[s] = [found[s] EXCEPT ![x] = [@ EXCEPT !.files = cache[x].files]]
             /\ x \in failed'[s] /\ LooksNoFurther(x)
    <3>1. found'[s][x].files = 1 .. cache[x].version
      BY <1>1, <2>1, <2>2, <2>5, FreshParts DEF Open
    <3>2. cache[x].version \in 0 .. MaxVersion
      BY <2>3, <2>5 DEF LooksNoFurther
    <3> QED
      BY <2>5, <3>1, <3>2
  <2> QED
    BY <1>1, <1>6, <2>1, <2>4, <2>5
<1>7. at'[s] \in {"adopt", "version"}
  BY <1>1
<1> QED
  BY <1>1, <1>2, <1>5, <1>6, <1>7 DEF CarriesFresh

LEMMA AddedAtFresh ==
    ASSUME ServingAssumption, Typed, Fresh, NEW s \in Statements, NEW x \in Tables,
           NEW t \in Tables, Adopted(s, t) \/ AdoptedUnasked(s, t)
    PROVE  CarriesFresh(s, x)'
<1>1. /\ LogsKept /\ at[s] = "version" /\ t \in todo[s] /\ at'[s] = "adopt" /\ todo'[s] = {}
      /\ found'[s] = Without(s, t) /\ began'[s] = began[s] /\ failed'[s] = failed[s]
      /\ Adds(s, t) /\ list'[s][t] \in {TableAt(s, t, VersionSaid(t)), TableAt(s, t, 0)}
  BY CarriesParts, AddedAtDoes
<1>2. Newest(x)' = Newest(x) /\ CarriesFresh(s, x) /\ CarriesFresh(s, t)
  BY <1>1, FreshParts, NewestKept
<1>3. t \in DOMAIN found[s] /\ found[s][t] \in Open /\ t \in Roots
  BY <1>1, CarriesParts DEF CarriesTyped, IsList
<1>4. began[s][t] \in -1 .. MaxVersion /\ MaxVersion \in Nat
  BY <1>3, CarriesParts, RootsParts
<1>5. PICK k \in 0 .. MaxVersion :
         found[s][t].files = 1 .. k /\ (began[s][t] <= k \/ t \in failed[s])
  BY <1>1, <1>2 DEF CarriesFresh
<1>6. ASSUME NEW v \in 0 .. MaxVersion, list'[s][t] = TableAt(s, t, v)
      PROVE  /\ Whole(list'[s][t])
             /\ Owed(s, t) => NoOlder(list'[s][t], began[s][t])
  <2> DEFINE late == Late(found[s][t], v)
  <2>1. list'[s][t] = late
    BY <1>6 DEF TableAt, Late
  <2>2. /\ late.files = 1 .. k /\ late.resolved_at = v
        /\ late.flaw = "overtaken" \/ 1 .. v \subseteq 1 .. k
    BY <1>3, <1>5, LateTyped
  <2> HIDE DEF late
  <2>3. late.resolved_at <= k \/ late.flaw = "overtaken"
    BY <1>4, <2>2
  <2>4. Whole(late) /\ (Owed(s, t) => NoOlder(late, began[s][t]))
    BY <1>4, <1>5, <2>2, <2>3, WholeAt DEF Owed
  <2> QED
    BY <2>1, <2>4
<1>7. Whole(list'[s][t]) /\ (Owed(s, t) => NoOlder(list'[s][t], began[s][t]))
  BY <1>1, <1>3, <1>6, CarriesParts, SaidTyped
<1>8. DOMAIN found'[s] = DOMAIN found[s] \ {t}
  BY <1>1, WithoutTyped
<1>9. x \in DOMAIN list'[s] => Whole(list'[s][x])
  BY <1>1, <1>2, <1>7 DEF CarriesFresh, Adds
<1>10. ASSUME Owed(s, x)'
       PROVE  \/ x \in DOMAIN list'[s] /\ NoOlder(list'[s][x], began[s][x])
              \/ x \in DOMAIN found'[s]
  <2>1. Owed(s, x)
    BY <1>1, <1>10 DEF Owed
  <2>2. CASE x = t
    BY <1>1, <1>7, <2>1, <2>2 DEF Adds
  <2>3. CASE x # t
    BY <1>1, <1>2, <1>8, <2>1, <2>3 DEF Adds, CarriesFresh
  <2> QED
    BY <2>2, <2>3
<1> QED
  BY <1>1, <1>2, <1>9, <1>10 DEF CarriesFresh

LEMMA AdoptCloneFresh ==
    ASSUME ServingAssumption, Typed, Fresh, NEW s \in Statements, NEW x \in Tables,
           NEW c \in Names, AdoptClone(s, c)
    PROVE  CarriesFresh(s, x)'
<1>1. /\ LogsKept /\ at[s] = "adopt" /\ at'[s] = "adopt" /\ Adds(s, c)
      /\ found'[s] = Without(s, c) /\ began'[s] = began[s] /\ failed'[s] = failed[s]
  BY CarriesParts, AdoptCloneDoes
<1>2. Newest(x)' = Newest(x) /\ CarriesFresh(s, x) /\ x # c
  BY <1>1, FreshParts, NewestKept, RootsParts
<1>3. DOMAIN found'[s] = DOMAIN found[s] \ {c}
  BY <1>1, WithoutTyped
<1>4. /\ x \in DOMAIN list'[s] <=> x \in DOMAIN list[s]
      /\ x \in DOMAIN list[s] => list'[s][x] = list[s][x]
  BY <1>1, <1>2 DEF Adds
<1> QED
  BY <1>1, <1>2, <1>3, <1>4 DEF CarriesFresh, Owed

LEMMA PublishFresh ==
    ASSUME ServingAssumption, Typed, Fresh, NEW s \in Statements, NEW x \in Tables, Publish(s)
    PROVE  CarriesFresh(s, x)' /\ (x \in DOMAIN servable' => Whole(servable'[x]))
<1>1. /\ LogsKept /\ at[s] = "adopt" /\ DOMAIN found[s] = {} /\ at'[s] = "read"
      /\ servable' \in {servable, list[s]} /\ list'[s] = list[s]
      /\ began'[s] = began[s] /\ failed'[s] = failed[s]
  BY CarriesParts, PublishDoes
<1>2. Newest(x)' = Newest(x) /\ CarriesFresh(s, x)
  BY <1>1, FreshParts, NewestKept
<1>3. x \in DOMAIN servable' => Whole(servable'[x])
  BY <1>1, <1>2, FreshParts DEF CarriesFresh
<1> QED
  BY <1>1, <1>2, <1>3 DEF CarriesFresh, Owed

LEMMA FinishFresh ==
    ASSUME ServingAssumption, Typed, Fresh, NEW s \in Statements, NEW x \in Tables, Finish(s)
    PROVE  CarriesFresh(s, x)'
<1>1. LogsKept /\ at'[s] = "idle" /\ list'[s] = Nothing /\ began'[s] = NotBegun
  BY CarriesParts, FinishDoes
<1>2. Newest(x)' = Newest(x) /\ Newest(x) \in -1 .. MaxVersion
  BY <1>1, FreshParts, NewestKept, TableKinds
<1>3. began'[s][x] = -1 /\ DOMAIN list'[s] = {}
  BY <1>1, RootsParts, NothingOpened DEF NotBegun
<1> QED
  BY <1>1, <1>2, <1>3, RootsParts DEF CarriesFresh

\* What a step does to the logs: nothing, or it makes or removes a clone, or commits to a
\* table.
LogMoves ==
    \/ UNCHANGED log
    \/ \E n \in Names, new \in {Absent} \cup Cloned : log' = [log EXCEPT ![n] = new]
    \/ \E t \in Tables : Newest(t) < MaxVersion /\ log' = [log EXCEPT ![t] = Table(Newest(t) + 1)]

LEMMA LogsMove == ServingAssumption /\ Typed /\ [Next]_vars => LogMoves
<1> SUFFICES ASSUME ServingAssumption, Typed, [Next]_vars PROVE LogMoves
  OBVIOUS
<1>1. Shapes /\ SharedTyped
  BY SharedParts
<1>2. ASSUME LogsKept PROVE LogMoves
  BY <1>2 DEF LogsKept, LogMoves
<1>3. ASSUME NEW s \in Statements, Begin(s) PROVE LogMoves
  BY <1>1, <1>2, <1>3, BeginDoes
<1>4. ASSUME NEW s \in Statements, Discover(s) \/ DiscoverFails(s) PROVE LogMoves
  BY <1>1, <1>2, <1>4, WalkedDoes
<1>5. ASSUME NEW s \in Statements, Publish(s) PROVE LogMoves
  BY <1>1, <1>2, <1>5, PublishDoes
<1>6. ASSUME NEW s \in Statements, Finish(s) PROVE LogMoves
  BY <1>1, <1>2, <1>6, FinishDoes
<1>7. ASSUME NEW s \in Statements, NEW t \in Tables, Refresh(s, t) \/ RefreshFails(s, t)
      PROVE  LogMoves
  BY <1>1, <1>2, <1>7, LookedDoes
<1>8. ASSUME NEW s \in Statements, NEW t \in Tables, Resolve(s, t) \/ ResolveFails(s, t)
      PROVE  LogMoves
  BY <1>1, <1>2, <1>8, TriedDoes
<1>9. ASSUME NEW s \in Statements, NEW t \in Tables, Adopted(s, t) \/ AdoptedUnasked(s, t)
      PROVE  LogMoves
  BY <1>1, <1>2, <1>9, AddedAtDoes
<1>10. ASSUME NEW s \in Statements, NEW r \in Roots, Adopt(s, r) \/ AdoptFails(s, r)
       PROVE  LogMoves
  BY <1>1, <1>2, <1>10, AdoptDoes
<1>11. ASSUME NEW s \in Statements, NEW c \in Names, AdoptClone(s, c) PROVE LogMoves
  BY <1>1, <1>2, <1>11, AdoptCloneDoes
<1>12. ASSUME NEW s \in Statements, NEW n \in Names,
              \/ \E o \in Roots, v \in 0 .. MaxVersion : Create(s, n, o, v)
              \/ Drop(s, n) \/ DropUnseeing(s, n)
       PROVE  LogMoves
  BY <1>2, <1>12, DecidedTyped
<1>13. ASSUME NEW s \in Statements, DefineFails(s) PROVE LogMoves
  BY <1>1, <1>2, <1>13, DefineFailsDoes
<1>14. ASSUME NEW s \in Statements, Created(s) PROVE LogMoves
  <2>1. at[s] = "creating"
    BY <1>1, <1>14, CreatedDoes
  <2>2. asked[s].name \in Names /\ asked[s].lineage \in Lineages
    BY <2>1, CarriesParts DEF CarriesTyped
  <2>3. NewClone(asked[s].lineage) \in Cloned
    BY <2>2, SharedParts, CloneMade
  <2>4. LogsKept \/ log' = [log EXCEPT ![asked[s].name] = NewClone(asked[s].lineage)]
    BY <1>1, <1>14, CreatedDoes
  <2> QED
    BY <1>2, <2>2, <2>3, <2>4 DEF LogMoves
<1>15. ASSUME NEW s \in Statements, Dropped(s) PROVE LogMoves
  <2>1. at[s] = "dropping" /\ log' = [log EXCEPT ![asked[s].name] = Absent]
    BY <1>1, <1>15, DroppedDoes
  <2>2. asked[s].name \in Names
    BY <2>1, CarriesParts DEF CarriesTyped
  <2> QED
    BY <2>1, <2>2 DEF LogMoves
<1>16. ASSUME NEW t \in Tables, Commit(t) PROVE LogMoves
  BY <1>1, <1>16, CommitDoes DEF LogMoves
<1>17. CASE UNCHANGED vars
  BY <1>17 DEF vars, LogMoves
<1> QED
  BY <1>3, <1>4, <1>5, <1>6, <1>7, <1>8, <1>9, <1>10, <1>11, <1>12, <1>13, <1>14, <1>15, <1>16,
     <1>17, Steps

LEMMA KindsStep ==
    ServingAssumption /\ Typed /\ KindsApart /\ [Next]_vars =>
        KindsApart' /\ \A t \in Tables : TableMoves(t)
<1> SUFFICES ASSUME ServingAssumption, Typed, KindsApart, [Next]_vars
             PROVE  KindsApart' /\ \A t \in Tables : TableMoves(t)
  OBVIOUS
<1>1. /\ DOMAIN log = Roots /\ Tables \subseteq Roots /\ Names \subseteq Roots
      /\ Tables \cap Names = {} /\ MaxVersion \in Nat
      /\ \A t \in Tables : Newest(t) \in -1 .. MaxVersion
  BY SharedParts, RootsParts, TableKinds DEF Logs
<1>2. CASE UNCHANGED log
  <2>1. \A t \in Tables : Newest(t)' = Newest(t)
    BY <1>2 DEF Newest
  <2> QED
    BY <1>1, <1>2, <2>1 DEF KindsApart, TableMoves
<1>3. ASSUME NEW n \in Names, NEW new \in {Absent} \cup Cloned, log' = [log EXCEPT ![n] = new]
      PROVE  KindsApart' /\ \A t \in Tables : TableMoves(t)
  <2>1. log'[n] = new /\ \A r \in Roots \ {n} : log'[r] = log[r]
    BY <1>1, <1>3
  <2>2. \A t \in Tables : log'[t] = log[t]
    BY <1>1, <2>1
  <2>3. \A t \in Tables : Newest(t)' = Newest(t)
    BY <2>2 DEF Newest
  <2>4. \A m \in Names : log'[m] = Absent \/ log'[m] \in Cloned
    BY <1>1, <2>1 DEF KindsApart
  <2> QED
    BY <1>1, <2>2, <2>3, <2>4 DEF KindsApart, TableMoves, Cloned, Lineages
<1>4. ASSUME NEW t \in Tables, Newest(t) < MaxVersion,
             log' = [log EXCEPT ![t] = Table(Newest(t) + 1)]
      PROVE  KindsApart' /\ \A x \in Tables : TableMoves(x)
  <2>1. log'[t] = Table(Newest(t) + 1) /\ \A r \in Roots \ {t} : log'[r] = log[r]
    BY <1>1, <1>4
  <2>2. Newest(t) + 1 \in 0 .. MaxVersion
    BY <1>1, <1>4
  <2>3. Newest(t)' = Newest(t) + 1
    BY <2>1 DEF Newest, Table
  <2>4. \A x \in Tables \ {t} : Newest(x)' = Newest(x)
    BY <1>1, <2>1 DEF Newest
  <2>5. \A x \in Tables : TableMoves(x)
    BY <1>1, <2>3, <2>4 DEF TableMoves
  <2>6. \A m \in Names : log'[m] = log[m]
    BY <1>1, <2>1
  <2>7. \A x \in Tables : log'[x] = Absent \/ \E v \in 0 .. MaxVersion : log'[x] = Table(v)
    BY <1>1, <2>1, <2>2 DEF KindsApart
  <2> QED
    BY <2>5, <2>6, <2>7 DEF KindsApart, Cloned, Lineages
<1> QED
  BY <1>2, <1>3, <1>4, LogsMove DEF LogMoves

LEMMA FreshInit == ServingAssumption /\ Init => Fresh
<1> SUFFICES ASSUME ServingAssumption, Init PROVE Fresh
  OBVIOUS
<1>1. 0 \in 0 .. MaxVersion
  BY RootsParts
<1>2. KindsApart
  <2>1. /\ \A n \in Names : n \in Roots /\ n \notin Standing
        /\ \A t \in Tables : t \in Roots
    BY RootsParts
  <2>2. /\ \A n \in Names : log[n] = Absent
        /\ \A t \in Tables : log[t] = Absent \/ log[t] = Table(0)
    BY <2>1 DEF Init
  <2> QED
    BY <1>1, <2>2 DEF KindsApart
<1>3. Typed
  BY TypedInit
<1>4. \A t \in Tables : Newest(t) \in -1 .. MaxVersion
  BY <1>2, <1>3, TableKinds
<1>5. CacheWhole
  <2>1. \A t \in Tables : cache[t] = Cold
    BY DEF Init
  <2>2. Cold.version = -1 /\ Cold.files = 1 .. -1 /\ MaxVersion \in Nat
    BY RootsParts DEF Cold
  <2>3. ASSUME NEW t \in Tables
        PROVE  cache[t].version <= Newest(t) /\ cache[t].files = 1 .. cache[t].version
    <3>1. cache[t].version = -1 /\ cache[t].files = 1 .. -1
      BY <2>1, <2>2
    <3>2. Newest(t) >= -1
      BY <1>4, <2>2
    <3> QED
      BY <3>1, <3>2
  <2> QED
    BY <2>3 DEF CacheWhole
<1>6. ASSUME NEW t \in Tables, t \in DOMAIN servable PROVE Whole(servable[t])
  <2>1. servable[t] = Unopened
    <3>1. servable = [r \in Standing |-> Unopened]
      BY DEF Init
    <3> QED
      BY <1>6, <3>1
  <2>2. Unopened.files = 1 .. 0 /\ Unopened.resolved_at <= 0
    BY UnopenedTyped
  <2>3. Whole(Unopened)
    BY <1>1, <2>2, RootsParts, WholeAt
  <2> QED
    BY <2>1, <2>3
<1>7. ASSUME NEW s \in Statements, NEW t \in Tables PROVE CarriesFresh(s, t)
  <2>1. at[s] = "idle" /\ list[s] = Nothing /\ began[s] = NotBegun
    BY DEF Init
  <2>2. began[s][t] = -1
    BY <2>1, RootsParts DEF NotBegun
  <2> QED
    BY <1>4, <2>1, <2>2, NothingOpened, RootsParts DEF CarriesFresh
<1> QED
  BY <1>2, <1>5, <1>6, <1>7 DEF Fresh

\* A step of one statement, that leaves the others alone.
LEMMA FreshByOne ==
    ASSUME ServingAssumption, Typed, Fresh, Typed', KindsApart', NEW s \in Statements,
           \A t \in Tables : TableMoves(t) /\ ReplayMoves(t), OthersKept(s),
           \A t \in Tables : t \in DOMAIN servable' => Whole(servable'[t]),
           \A t \in Tables : CarriesFresh(s, t)'
    PROVE  Fresh'
<1>1. CacheWhole'
  BY CacheStaysWhole
<1>2. ASSUME NEW q \in Statements, NEW t \in Tables PROVE CarriesFresh(q, t)'
  <2>1. CASE q = s
    BY <2>1
  <2>2. CASE q # s
    <3>1. KeptButBegan(q) /\ began'[q][t] = began[q][t] /\ TableMoves(t) /\ ReplayMoves(t)
      BY <2>2 DEF OthersKept, Kept
    <3> QED
      BY <3>1, KeptFresh
  <2> QED
    BY <2>1, <2>2
<1> QED
  BY <1>1, <1>2 DEF Fresh

LEMMA FreshStep == ServingAssumption /\ Typed /\ Typed' /\ Fresh /\ [Next]_vars => Fresh'
<1> SUFFICES ASSUME ServingAssumption, Typed, Typed', Fresh, [Next]_vars PROVE Fresh'
  OBVIOUS
<1>1. Shapes /\ SharedTyped
  BY SharedParts
<1>2. KindsApart' /\ \A t \in Tables : TableMoves(t)
  BY KindsStep DEF Fresh
<1>3. ASSUME UNCHANGED cache PROVE \A t \in Tables : ReplayMoves(t)
  BY <1>3, CacheMoves
<1>4. ASSUME UNCHANGED servable
      PROVE  \A t \in Tables : t \in DOMAIN servable' => Whole(servable'[t])
  BY <1>4, FreshParts
<1>5. ASSUME NEW s \in Statements, OthersKept(s), UNCHANGED cache, UNCHANGED servable,
             \A t \in Tables : CarriesFresh(s, t)'
      PROVE  Fresh'
  BY <1>2, <1>3, <1>4, <1>5, FreshByOne
<1>6. ASSUME NEW s \in Statements, OthersKept(s), Defines(s), UNCHANGED cache, UNCHANGED servable,
             at'[s] \in {"idle", "creating", "dropping"}, began'[s] = began[s]
      PROVE  Fresh'
  <2>1. \A t \in Tables : CarriesFresh(s, t)'
    BY <1>2, <1>3, <1>6, KeptFresh
  <2> QED
    BY <1>5, <1>6, <2>1
<1>7. ASSUME NEW s \in Statements, NEW r, OthersKept(s), UNCHANGED servable,
             \/ r \in Tables /\ cache' = [cache EXCEPT ![r] = Lookup(r)]
             \/ LookFails(r)
             \/ cache' = cache,
             \A t \in Tables : CarriesFresh(s, t)'
      PROVE  Fresh'
  <2>1. \A t \in Tables : ReplayMoves(t)
    BY <1>7, CacheMoves
  <2> QED
    BY <1>2, <1>4, <1>7, <2>1, FreshByOne
<1>8. ASSUME NEW s \in Statements, Begin(s) PROVE Fresh'
  BY <1>1, <1>5, <1>8, BeginFresh, BeginDoes
<1>9. ASSUME NEW s \in Statements, Discover(s) \/ DiscoverFails(s) PROVE Fresh'
  BY <1>1, <1>5, <1>9, WalkedFresh, WalkedDoes
<1>10. ASSUME NEW s \in Statements, Publish(s) PROVE Fresh'
  <2>1. OthersKept(s) /\ UNCHANGED cache
    BY <1>1, <1>10, PublishDoes
  <2>2. \A t \in Tables : CarriesFresh(s, t)' /\ (t \in DOMAIN servable' => Whole(servable'[t]))
    BY <1>10, PublishFresh
  <2> QED
    BY <1>2, <1>3, <2>1, <2>2, FreshByOne
<1>11. ASSUME NEW s \in Statements, Finish(s) PROVE Fresh'
  BY <1>1, <1>5, <1>11, FinishFresh, FinishDoes
<1>12. ASSUME NEW s \in Statements, NEW t \in Tables, Refresh(s, t) \/ RefreshFails(s, t)
       PROVE  Fresh'
  <2>1. /\ OthersKept(s) /\ UNCHANGED servable
        /\ \/ cache' = [cache EXCEPT ![t] = Lookup(t)]
           \/ LookFails(t)
           \/ cache' = cache
    BY <1>1, <1>12, LookedDoes DEF Says, LooksNoFurther
  <2> QED
    BY <1>7, <1>12, <2>1, LookedFresh
<1>13. ASSUME NEW s \in Statements, NEW t \in Tables, Resolve(s, t) \/ ResolveFails(s, t)
       PROVE  Fresh'
  <2>1. /\ OthersKept(s) /\ UNCHANGED servable
        /\ \/ cache' = [cache EXCEPT ![t] = Lookup(t)]
           \/ LookFails(t)
           \/ cache' = cache
    BY <1>1, <1>13, TriedDoes DEF LooksNoFurther
  <2> QED
    BY <1>7, <1>13, <2>1, TriedFresh
<1>14. ASSUME NEW s \in Statements, NEW t \in Tables, Adopted(s, t) \/ AdoptedUnasked(s, t)
       PROVE  Fresh'
  BY <1>1, <1>5, <1>14, AddedAtFresh, AddedAtDoes
<1>15. ASSUME NEW s \in Statements, NEW r \in Roots, Adopt(s, r) \/ AdoptFails(s, r)
       PROVE  Fresh'
  <2>1. /\ OthersKept(s) /\ UNCHANGED servable
        /\ \/ r \in Tables /\ cache' = [cache EXCEPT ![r] = Lookup(r)]
           \/ LookFails(r)
           \/ cache' = cache
    BY <1>1, <1>15, AdoptDoes DEF LooksNoFurther
  <2> QED
    BY <1>7, <1>15, <2>1, AdoptFresh
<1>16. ASSUME NEW s \in Statements, NEW c \in Names, AdoptClone(s, c) PROVE Fresh'
  BY <1>1, <1>5, <1>16, AdoptCloneFresh, AdoptCloneDoes
<1>17. ASSUME NEW s \in Statements, NEW n \in Names,
              \/ \E o \in Roots, v \in 0 .. MaxVersion : Create(s, n, o, v)
              \/ Drop(s, n) \/ DropUnseeing(s, n)
       PROVE  Fresh'
  BY <1>6, <1>17, DecidedTyped
<1>18. ASSUME NEW s \in Statements, DefineFails(s) PROVE Fresh'
  BY <1>1, <1>6, <1>18, DefineFailsDoes
<1>19. ASSUME NEW s \in Statements, Created(s) PROVE Fresh'
  BY <1>1, <1>6, <1>19, CreatedDoes
<1>20. ASSUME NEW s \in Statements, Dropped(s) PROVE Fresh'
  <2>1. /\ Defines(s) /\ (\A q \in Statements \ {s} : KeptButBegan(q)) /\ UNCHANGED <<cache, servable>>
        /\ at[s] = "dropping" /\ at'[s] = "idle"
        /\ \A q \in Statements : began'[q] = [began[q] EXCEPT ![asked[s].name] = -1]
    BY <1>1, <1>20, DroppedDoes
  <2>2. asked[s].name \in Names
    BY <2>1, CarriesParts DEF CarriesTyped
  <2>3. ASSUME NEW q \in Statements, NEW t \in Tables PROVE CarriesFresh(q, t)'
    <3>1. began'[q][t] = began[q][t]
      BY <2>1, <2>2, CarriesParts, RootsParts
    <3>2. ReplayMoves(t) /\ TableMoves(t)
      BY <1>2, <1>3, <2>1
    <3> QED
      BY <1>2, <2>1, <3>1, <3>2, KeptFresh
  <2>4. CacheWhole'
    BY <1>2, <1>3, <2>1, CacheStaysWhole
  <2> QED
    BY <1>2, <1>4, <2>1, <2>3, <2>4 DEF Fresh
<1>21. ASSUME \A q \in Statements : Kept(q), UNCHANGED <<cache, servable>> PROVE Fresh'
  <2>1. ASSUME NEW q \in Statements, NEW t \in Tables PROVE CarriesFresh(q, t)'
    <3>1. began'[q][t] = began[q][t] /\ KeptButBegan(q)
      BY <1>21 DEF Kept
    <3>2. ReplayMoves(t) /\ TableMoves(t)
      BY <1>2, <1>3, <1>21
    <3> QED
      BY <1>2, <3>1, <3>2, KeptFresh
  <2>2. CacheWhole'
    BY <1>2, <1>3, <1>21, CacheStaysWhole
  <2> QED
    BY <1>2, <1>4, <1>21, <2>1, <2>2 DEF Fresh
<1>22. ASSUME NEW t \in Tables, Commit(t) PROVE Fresh'
  BY <1>1, <1>21, <1>22, CommitDoes
<1>23. CASE UNCHANGED vars
  BY <1>1, <1>21, <1>23, StutterDoes
<1> QED
  BY <1>8, <1>9, <1>10, <1>11, <1>12, <1>13, <1>14, <1>15, <1>16, <1>17, <1>18, <1>19, <1>20,
     <1>22, <1>23, Steps

LEMMA FreshAlways == Spec => []Fresh
<1>1. Spec => []Typed
  BY TypedAlways
<1> QED
  BY <1>1, FreshInit, FreshStep, ServingAssumption, PTL DEF Spec

LEMMA FreshSuffices == ServingAssumption /\ Typed /\ Fresh => ReadsAreFresh
<1> SUFFICES ASSUME ServingAssumption, Typed, Fresh,
                    NEW s \in Statements, at[s] = "read", NEW t \in Tables
             PROVE  /\ t \in DOMAIN list[s] =>
                          \E v \in 0 .. MaxVersion : list[s][t].files = 1 .. v
                    /\ Throughout(s, t) /\ t \notin failed[s] =>
                          /\ t \in DOMAIN list[s]
                          /\ \/ list[s][t].flaw = "overtaken"
                             \/ \E v \in began[s][t] .. MaxVersion : list[s][t].files = 1 .. v
  BY DEF ReadsAreFresh
<1>1. CarriesFresh(s, t)
  BY FreshParts
<1>2. t \in DOMAIN list[s] => \E v \in 0 .. MaxVersion : list[s][t].files = 1 .. v
  BY <1>1 DEF CarriesFresh, Whole
<1>3. ASSUME Throughout(s, t), t \notin failed[s]
      PROVE  t \in DOMAIN list[s] /\ NoOlder(list[s][t], began[s][t])
  BY <1>1, <1>3 DEF CarriesFresh, Owed, Throughout
<1> QED
  BY <1>2, <1>3 DEF NoOlder

\* A statement reads every table whole, and no older than when it began, for any tables
\* and any statements: but for one a call has failed on, and one a commit overtook.
THEOREM StatementsReadFresh == Spec => []ReadsAreFresh
BY TypedAlways, FreshAlways, FreshSuffices, ServingAssumption, PTL

-----------------------------------------------------------------------------
(* Clones.                                                                 *)

LEMMA FamilyParts ==
    ASSUME Families
    PROVE  /\ KindsApart /\ Lineal /\ HasRoots(servable)
           /\ \A s \in Statements : CarriesRooted(s)
BY DEF Families

\* What has a name is a clone, whose lineage is one.
LEMMA NamedClone ==
    ASSUME KindsApart, NEW n \in Names
    PROVE  /\ Exists(n) <=> IsClone(n)
           /\ IsClone(n) => /\ log[n] \in Cloned /\ Newest(n) = 0
                            /\ log[n].lineage \in Lineages /\ log[n].depth \in Nat \ {0}
           /\ ~IsClone(n) => Newest(n) = -1
<1>1. CASE log[n] = Absent
  BY <1>1, AbsentLog
<1>2. CASE log[n] \in Cloned
  BY <1>2, CloneLog
<1> QED
  BY <1>1, <1>2 DEF KindsApart

LEMMA TableNoClone ==
    ASSUME KindsApart, NEW t \in Tables
    PROVE  ~IsClone(t)
<1>1. CASE log[t] = Absent
  BY <1>1, AbsentLog
<1>2. ASSUME NEW v \in 0 .. MaxVersion, log[t] = Table(v) PROVE ~IsClone(t)
  BY <1>2, TableLog
<1> QED
  BY <1>1, <1>2 DEF KindsApart

LEMMA CloneIsNamed ==
    ASSUME ServingAssumption, KindsApart, NEW r \in Roots, IsClone(r)
    PROVE  r \in Names
BY TableNoClone, RootsParts

\* The walk from a clone under which nothing was removed, and that is no deeper than
\* the walk, ends where its files are.
LEMMA WalkEnds ==
    ASSUME ServingAssumption, Typed, KindsApart, Lineal, NEW c \in Names, Sound(c)
    PROVE  Inherited(c) = log[c].root
<1> DEFINE Ends(k) ==
             k <= MaxDepth =>
                 \A n \in Names : IsClone(n) /\ n \notin severed /\ log[n].depth <= k =>
                     Rooted[k][log[n].lineage] = log[n].root
           S == {k \in Nat : Ends(k)}
<1>1. MaxDepth \in Nat
  BY DEF ServingAssumption
<1>2. 0 \in S
  BY NamedClone
<1>3. ASSUME NEW k \in S PROVE k + 1 \in S
  <2> SUFFICES ASSUME k + 1 <= MaxDepth, NEW n \in Names, IsClone(n), n \notin severed,
                      log[n].depth <= k + 1
               PROVE  Rooted[k + 1][log[n].lineage] = log[n].root
    OBVIOUS
  <2> DEFINE lineage == log[n].lineage
             origin == lineage.origin
  <2>1. k + 1 \in 0 .. MaxDepth /\ (k + 1) - 1 = k /\ k + 1 # 0 /\ k <= MaxDepth
    BY <1>1
  <2>2. lineage \in Lineages /\ log[n].depth \in Nat \ {0}
    BY NamedClone
  <2>3. /\ Exists(origin)
        /\ IF IsClone(origin)
           THEN /\ origin \in Names \ severed
                /\ log[n].root = log[origin].root /\ log[n].depth = log[origin].depth + 1
           ELSE log[n].root = lineage
    BY DEF Lineal, Founded
  <2> HIDE DEF lineage
  <2>4. Rooted[k + 1][lineage] = IF ~Exists(origin) THEN Plain
                                 ELSE IF IsClone(origin) THEN Rooted[k][log[origin].lineage]
                                 ELSE lineage
    BY <2>1, <2>2, RootedStep
  <2>5. CASE IsClone(origin)
    <3>1. origin \in Names /\ origin \notin severed /\ log[origin].depth \in Nat
      BY <2>3, <2>5, NamedClone
    <3>2. log[origin].depth <= k
      BY <2>2, <2>3, <2>5, <3>1
    <3>3. Rooted[k][log[origin].lineage] = log[origin].root
      BY <2>1, <2>5, <3>1, <3>2
    <3> QED
      BY <2>3, <2>4, <2>5, <3>3 DEF lineage
  <2>6. CASE ~IsClone(origin)
    BY <2>3, <2>4, <2>6 DEF lineage
  <2> QED
    BY <2>5, <2>6
<1>4. S = Nat
  <2>1. S \in SUBSET Nat
    OBVIOUS
  <2> HIDE DEF S
  <2> QED
    BY <1>2, <1>3, <2>1, SetInduction
<1>5. Ends(MaxDepth)
  BY <1>1, <1>4
<1>6. IsClone(c) /\ c \notin severed /\ log[c].depth <= MaxDepth /\ MaxDepth <= MaxDepth
  BY <1>1 DEF Sound
<1>7. Rooted[MaxDepth][log[c].lineage] = log[c].root
  BY <1>5, <1>6
<1> QED
  BY <1>6, <1>7 DEF Inherited

\* What a step does to the clones a statement can be held to: none becomes one again.
NamesMove ==
    \A n \in Names :
        /\ created'[n] >= created[n]
        /\ Sound(n)' /\ created[n] >= 1 => Sound(n) /\ log'[n] = log[n]

LEMMA RootsStay ==
    ASSUME Typed, NamesMove, NEW tables, HasRoots(tables), Typed'
    PROVE  HasRoots(tables)'
<1> SUFFICES ASSUME NEW n \in DOMAIN tables \cap Names
             PROVE  /\ created'[n] >= 1
                    /\ Sound(n)' => tables[n].flaw = "unread" \/ tables[n].inherited = log'[n].root
  BY DEF HasRoots
<1>1. created[n] >= 1 /\ (Sound(n) => tables[n].flaw = "unread" \/ tables[n].inherited = log[n].root)
  BY DEF HasRoots
<1>2. created[n] \in Nat /\ created'[n] \in Nat
  BY DEF Typed, SharedTyped
<1>3. created'[n] >= created[n] /\ (Sound(n)' /\ created[n] >= 1 => Sound(n) /\ log'[n] = log[n])
  BY DEF NamesMove
<1> QED
  BY <1>1, <1>2, <1>3

LEMMA LogsKeptMove ==
    ASSUME Typed, Lineal, LogsKept
    PROVE  NamesMove /\ Lineal' /\ \A n \in Names : Exists(n)' <=> Exists(n)
<1>1. \A n \in Names : created[n] \in Nat
  BY SharedParts DEF SharedTyped
<1>2. UNCHANGED log /\ UNCHANGED created /\ UNCHANGED severed
  BY DEF LogsKept
<1>3. \A n \in Names : (Sound(n)' <=> Sound(n)) /\ (Founded(n)' <=> Founded(n))
                       /\ (IsClone(n)' <=> IsClone(n)) /\ (Exists(n)' <=> Exists(n))
  BY <1>2 DEF Sound, Founded, IsClone, Exists
<1> QED
  BY <1>1, <1>2, <1>3 DEF NamesMove, Lineal

\* A clone is made, of an origin that is there and was not severed, or it is severed.
LEMMA CreatedMoves ==
    ASSUME ServingAssumption, Typed, Families, NEW s \in Statements, Created(s)
    PROVE  NamesMove /\ Lineal' /\ \A n \in Names : Exists(n) => Exists(n)'
<1>1. at[s] = "creating" /\ KindsApart /\ Lineal
  BY CarriesParts, CreatedDoes, FamilyParts
<1>2. CASE LogsKept
  BY <1>1, <1>2, LogsKeptMove
<1>3. CASE ~LogsKept
  <2>1. PICK name \in Names, lineage \in Lineages : name = asked[s].name /\ lineage = asked[s].lineage
    BY <1>1, CarriesParts DEF CarriesTyped
  <2>2. PICK origin \in Roots : origin = lineage.origin
    BY DEF Lineages
  <2>3. PICK new \in Cloned :
           /\ new = NewClone(lineage) /\ new.lineage = lineage
           /\ IF IsClone(origin)
              THEN new.root = log[origin].root /\ new.depth = log[origin].depth + 1
              ELSE new.root = lineage /\ new.depth = 1
    BY <2>2, SharedParts, CloneMade
  <2>4. /\ ~Exists(name) /\ created' = [created EXCEPT ![name] = @ + 1]
        /\ log' = [log EXCEPT ![name] = new]
        /\ severed' = IF Exists(origin) /\ origin \notin severed
                      THEN severed \ {name} ELSE severed \cup {name}
    <3>1. /\ ~Exists(name) /\ created' = [created EXCEPT ![name] = @ + 1]
          /\ log' = [log EXCEPT ![name] = NewClone(asked[s].lineage)]
          /\ severed' = IF Exists(origin) /\ origin \notin severed
                        THEN severed \ {name} ELSE severed \cup {name}
      BY <1>3, <2>1, <2>2, CarriesParts, CreatedDoes
    <3>2. NewClone(asked[s].lineage) = NewClone(lineage)
      BY <2>1 DEF NewClone
    <3> QED
      BY <2>3, <3>1, <3>2
  <2>5. \A r \in Roots : log'[r] = IF r = name THEN new ELSE log[r]
    <3>1. log' = [log EXCEPT ![name] = new]
      BY <2>4
    <3> QED
      BY <3>1, NameChanges
  <2>6. /\ \A n \in Names : created[n] \in Nat
        /\ created'[name] = created[name] + 1 /\ \A n \in Names \ {name} : created'[n] = created[n]
    BY <2>1, <2>4, SharedParts DEF SharedTyped
  <2>7. ~IsClone(name) /\ Names \subseteq Roots
    BY <1>1, <2>1, <2>4, NamedClone, RootsParts
  <2>8. ASSUME NEW n \in Names \ {name}
        PROVE  /\ Sound(n)' => Sound(n) /\ log'[n] = log[n]
               /\ Exists(n) => Exists(n)'
    BY <2>4, <2>5, <2>6, <2>7, <2>8 DEF Sound, IsClone, Exists
  <2>9. NamesMove
    <3>1. Sound(name)' => created'[name] = 1
      BY DEF Sound
    <3> QED
      BY <2>1, <2>6, <2>8, <3>1 DEF NamesMove
  <2>10. ASSUME NEW c \in Names, IsClone(c)'
         PROVE  created'[c] >= 1 /\ (c \notin severed' => Founded(c)')
    <3>1. CASE c = name
      <4>1. created'[c] >= 1
        BY <2>1, <2>6, <3>1
      <4>2. ASSUME c \notin severed' PROVE Founded(c)'
        <5>1. Exists(origin) /\ origin \notin severed /\ severed' = severed \ {name}
          BY <2>4, <3>1, <4>2
        <5>2. origin # name /\ log'[origin] = log[origin] /\ log'[c] = new
          BY <2>1, <2>2, <2>4, <2>5, <2>7, <3>1, <5>1
        <5>3. IsClone(origin) => origin \in Names
          BY <1>1, <2>2, CloneIsNamed
        <5> QED
          BY <2>2, <2>3, <5>1, <5>2, <5>3 DEF Founded, Exists, IsClone
      <4> QED
        BY <4>1, <4>2
    <3>2. CASE c # name
      <4>1. log'[c] = log[c] /\ IsClone(c) /\ created'[c] = created[c]
        BY <2>5, <2>6, <2>7, <2>10, <3>2 DEF IsClone
      <4>2. created'[c] >= 1
        BY <1>1, <4>1 DEF Lineal
      <4>3. ASSUME c \notin severed' PROVE Founded(c)'
        <5>1. c \notin severed
          BY <2>4, <3>2, <4>3
        <5>2. Founded(c)
          BY <1>1, <4>1, <5>1 DEF Lineal
        <5>3. log[c].lineage.origin \in Roots
          <6>1. log[c].lineage \in Lineages
            BY <1>1, <4>1, NamedClone
          <6> QED
            BY <6>1 DEF Lineages
        <5>4. log[c].lineage.origin # name
          BY <2>4, <5>2 DEF Founded
        <5>5. log'[log[c].lineage.origin] = log[log[c].lineage.origin]
          BY <2>5, <5>3, <5>4
        <5> QED
          BY <2>4, <4>1, <5>2, <5>4, <5>5 DEF Founded, Exists, IsClone
      <4> QED
        BY <4>2, <4>3
    <3> QED
      BY <3>1, <3>2
  <2>11. Lineal'
    BY <2>10 DEF Lineal
  <2> QED
    BY <2>4, <2>8, <2>9, <2>11
<1> QED
  BY <1>2, <1>3

\* A clone of what is removed is severed, and so is a clone of a clone that is.
LEMMA DependentsClosed ==
    ASSUME NEW name \in Names, NEW c \in Names \ {name}, IsClone(c),
           \/ log[c].lineage.origin = name
           \/ log[c].lineage.origin \in Dependents(name, Names)
    PROVE  c \in Dependents(name, Names)
<1> SUFFICES ASSUME NEW S \in SUBSET Names, ClonesOf(S \cup {name}) \cap Names \subseteq S
             PROVE  c \in S
  BY DEF Dependents
<1>1. log[c].lineage.origin \in S \cup {name}
  BY DEF Dependents
<1>2. c \in ClonesOf(S \cup {name})
  BY <1>1 DEF ClonesOf
<1> QED
  BY <1>2

LEMMA DroppedMoves ==
    ASSUME ServingAssumption, Typed, Families, NEW s \in Statements, Dropped(s)
    PROVE  /\ NamesMove /\ Lineal' /\ asked[s].name \in Names
           /\ \A n \in Names \ {asked[s].name} : Exists(n) => Exists(n)'
<1>1. KindsApart /\ Lineal /\ at[s] = "dropping"
  BY CarriesParts, DroppedDoes, FamilyParts
<1>2. PICK name \in Names : name = asked[s].name
  BY <1>1, CarriesParts DEF CarriesTyped
<1>3. /\ KindsApart /\ Lineal
      /\ UNCHANGED created /\ log' = [log EXCEPT ![name] = Absent]
      /\ severed' = (severed \cup Dependents(name, Names)) \ {name}
  BY <1>1, <1>2, CarriesParts, DroppedDoes
<1>4. \A r \in Roots : log'[r] = IF r = name THEN Absent ELSE log[r]
  BY <1>2, <1>3, NameChanges
<1>5. Names \subseteq Roots /\ \A n \in Names : created[n] \in Nat
  BY SharedParts, RootsParts DEF SharedTyped
<1>6. ~IsClone(name)'
  BY <1>2, <1>4, <1>5 DEF IsClone, Absent
<1>7. ASSUME NEW n \in Names \ {name}
      PROVE  /\ Sound(n)' => Sound(n) /\ log'[n] = log[n]
             /\ Exists(n) => Exists(n)'
  BY <1>3, <1>4, <1>5, <1>7 DEF Sound, IsClone, Exists
<1>8. NamesMove
  <2>1. ~Sound(name)'
    BY <1>6 DEF Sound
  <2> QED
    BY <1>3, <1>5, <1>7, <2>1 DEF NamesMove
<1>9. ASSUME NEW c \in Names, IsClone(c)'
      PROVE  created'[c] >= 1 /\ (c \notin severed' => Founded(c)')
  <2>1. c # name /\ log'[c] = log[c] /\ IsClone(c) /\ created'[c] = created[c]
    BY <1>3, <1>4, <1>5, <1>6, <1>9 DEF IsClone
  <2>2. created'[c] >= 1
    BY <1>3, <2>1 DEF Lineal
  <2>3. ASSUME c \notin severed' PROVE Founded(c)'
    <3>1. PICK origin \in Roots : origin = log[c].lineage.origin
      <4>1. log[c].lineage \in Lineages
        BY <1>3, <2>1, NamedClone
      <4> QED
        BY <4>1 DEF Lineages
    <3>2. c \notin severed /\ c \notin Dependents(name, Names)
      BY <1>3, <2>1, <2>3
    <3>3. Founded(c)
      BY <1>3, <2>1, <3>2 DEF Lineal
    <3>4. origin # name /\ origin \notin Dependents(name, Names)
      BY <1>2, <2>1, <3>1, <3>2, DependentsClosed
    <3>5. log'[origin] = log[origin]
      BY <1>4, <3>1, <3>4
    <3>6. origin \notin severed => origin \notin severed'
      BY <1>3, <3>4
    <3> QED
      BY <2>1, <3>1, <3>3, <3>5, <3>6 DEF Founded, Exists, IsClone
  <2> QED
    BY <2>2, <2>3
<1>10. Lineal'
  BY <1>9 DEF Lineal
<1> QED
  BY <1>2, <1>7, <1>8, <1>10

LEMMA CommitMoves ==
    ASSUME ServingAssumption, Typed, Families, NEW t \in Tables, Commit(t)
    PROVE  NamesMove /\ Lineal' /\ \A n \in Names : Exists(n) => Exists(n)'
<1>1. /\ KindsApart /\ Lineal /\ UNCHANGED <<created, severed>>
      /\ log' = [log EXCEPT ![t] = Table(Newest(t) + 1)]
  BY SharedParts, CommitDoes, FamilyParts
<1>2. /\ DOMAIN log = Roots /\ t \in Roots /\ Names \subseteq Roots /\ t \notin Names
      /\ \A n \in Names : created[n] \in Nat
  BY SharedParts, RootsParts DEF SharedTyped, Logs
<1>3. log'[t] = Table(Newest(t) + 1) /\ \A r \in Roots \ {t} : log'[r] = log[r]
  BY <1>1, <1>2
<1>4. Exists(t)' /\ ~IsClone(t)' /\ ~IsClone(t)
  BY <1>1, <1>3, TableNoClone DEF Exists, IsClone, Table
<1>5. \A n \in Names : log'[n] = log[n]
  BY <1>2, <1>3
<1>6. \A n \in Names : (Sound(n)' <=> Sound(n)) /\ (Exists(n) => Exists(n)')
  BY <1>1, <1>5 DEF Sound, IsClone, Exists
<1>7. NamesMove
  BY <1>1, <1>2, <1>5, <1>6 DEF NamesMove
<1>8. ASSUME NEW c \in Names, IsClone(c)'
      PROVE  created'[c] >= 1 /\ (c \notin severed' => Founded(c)')
  <2>1. IsClone(c) /\ log'[c] = log[c]
    BY <1>5, <1>8 DEF IsClone
  <2>2. PICK origin \in Roots : origin = log[c].lineage.origin
    <3>1. log[c].lineage \in Lineages
      BY <1>1, <2>1, NamedClone
    <3> QED
      BY <3>1 DEF Lineages
  <2>3. /\ Exists(origin) => Exists(origin)'
        /\ IsClone(origin)' <=> IsClone(origin)
        /\ IsClone(origin) => log'[origin] = log[origin]
    <3>1. CASE origin = t
      BY <1>4, <3>1
    <3>2. CASE origin # t
      <4>1. log'[origin] = log[origin]
        BY <1>3, <2>2, <3>2
      <4> QED
        BY <4>1 DEF Exists, IsClone
    <3> QED
      BY <3>1, <3>2
  <2>4. created[c] >= 1 /\ (c \notin severed => Founded(c))
    BY <1>1, <2>1 DEF Lineal
  <2> QED
    BY <1>1, <2>1, <2>2, <2>3, <2>4 DEF Founded
<1>9. Lineal'
  BY <1>8 DEF Lineal
<1> QED
  BY <1>6, <1>7, <1>9

\* A list that has no other clones has what they inherit as well.
LEMMA RootsSame ==
    ASSUME NEW old, NEW new, HasRoots(old),
           \A n \in DOMAIN new \cap Names :
               /\ n \in DOMAIN old
               /\ new[n].flaw = old[n].flaw /\ new[n].inherited = old[n].inherited
    PROVE  HasRoots(new)
BY DEF HasRoots

LEMMA RootedAfter ==
    ASSUME Typed, Typed', Lineal, LogsKept, NEW s \in Statements,
           HasRoots(list'[s]), HasRoots(found'[s]),
           \A n \in Names : began'[s][n] # -1 =>
               /\ Exists(n)
               /\ at'[s] \in {"adopt", "version"} =>
                     n \in DOMAIN list'[s] \cup DOMAIN found'[s] \cup failed'[s]
               /\ at'[s] = "read" => n \in DOMAIN list'[s] \cup failed'[s]
    PROVE  CarriesRooted(s)'
<1>1. NamesMove /\ \A n \in Names : Exists(n)' <=> Exists(n)
  BY LogsKeptMove
<1>2. HasRoots(list[s])' /\ HasRoots(found[s])'
  BY <1>1, RootsStay
<1> QED
  BY <1>1, <1>2 DEF CarriesRooted

LEMMA KeptRooted ==
    ASSUME Typed, Typed', Families, NamesMove, NEW q \in Statements,
           KeptButBegan(q) \/ (Defines(q) /\ at'[q] \in {"idle", "creating", "dropping"}),
           \A n \in Names : began'[q][n] # -1 =>
               began[q][n] # -1 /\ (Exists(n) => Exists(n)')
    PROVE  CarriesRooted(q)'
<1>1. CarriesRooted(q)
  BY FamilyParts
<1>2. list'[q] = list[q] /\ found'[q] = found[q] /\ failed'[q] = failed[q]
  BY DEF KeptButBegan, Defines
<1>3. HasRoots(list[q])' /\ HasRoots(found[q])'
  BY <1>1, <1>2, RootsStay DEF CarriesRooted
<1>4. at'[q] = at[q] \/ at'[q] \in {"idle", "creating", "dropping"}
  BY DEF KeptButBegan
<1>5. ASSUME NEW n \in Names, began'[q][n] # -1
      PROVE  /\ Exists(n)'
             /\ at'[q] \in {"adopt", "version"} =>
                   n \in DOMAIN list[q] \cup DOMAIN found[q] \cup failed[q]
             /\ at'[q] = "read" => n \in DOMAIN list[q] \cup failed[q]
  BY <1>1, <1>4, <1>5 DEF CarriesRooted
<1> QED
  BY <1>2, <1>3, <1>5 DEF CarriesRooted

LEMMA RootedParts ==
    ASSUME Families, NEW s \in Statements
    PROVE  /\ KindsApart /\ Lineal /\ HasRoots(servable)
           /\ HasRoots(list[s]) /\ HasRoots(found[s])
           /\ \A n \in Names : began[s][n] # -1 =>
                 /\ Exists(n)
                 /\ at[s] \in {"adopt", "version"} =>
                       n \in DOMAIN list[s] \cup DOMAIN found[s] \cup failed[s]
                 /\ at[s] = "read" => n \in DOMAIN list[s] \cup failed[s]
BY FamilyParts DEF CarriesRooted

LEMMA NothingRooted == HasRoots(Nothing)
BY NothingOpened DEF HasRoots

LEMMA BeginRooted ==
    ASSUME ServingAssumption, Typed, Typed', Families, NEW s \in Statements, Begin(s)
    PROVE  CarriesRooted(s)'
<1>1. /\ LogsKept /\ at'[s] = "refresh" /\ list'[s] = servable /\ found'[s] = found[s]
      /\ began'[s] = [r \in Roots |-> Newest(r)]
  BY CarriesParts, BeginDoes
<1>2. \A n \in Names : began'[s][n] # -1 => Exists(n)
  BY <1>1, RootedParts, RootsParts, NamedClone
<1> QED
  BY <1>1, <1>2, RootedParts, RootedAfter

LEMMA LookedRooted ==
    ASSUME ServingAssumption, Typed, Typed', Families, NEW s \in Statements,
           NEW t \in Tables, Refresh(s, t) \/ RefreshFails(s, t)
    PROVE  CarriesRooted(s)'
<1>1. /\ LogsKept /\ list'[s] = list[s] /\ began'[s] = began[s]
      /\ at'[s] \in {"refresh", "resolve"}
      /\ found'[s] = found[s] \/ found'[s] = [x \in {t} |-> Unopened]
  BY CarriesParts, LookedDoes
<1>2. HasRoots(found'[s])
  <2>1. CASE found'[s] = found[s]
    BY <2>1, RootedParts
  <2>2. CASE found'[s] = [x \in {t} |-> Unopened]
    <3>1. DOMAIN found'[s] \cap Names = {}
      BY <2>2, RootsParts
    <3> QED
      BY <3>1 DEF HasRoots
  <2> QED
    BY <1>1, <2>1, <2>2
<1> QED
  BY <1>1, <1>2, RootedParts, RootedAfter

LEMMA TriedRooted ==
    ASSUME ServingAssumption, Typed, Typed', Families, NEW s \in Statements,
           NEW t \in Tables, Resolve(s, t) \/ ResolveFails(s, t)
    PROVE  CarriesRooted(s)'
<1>1. /\ LogsKept /\ at'[s] = "refresh" /\ found'[s] = Nothing /\ began'[s] = began[s]
      /\ \/ list'[s] = ListResolved(s, t, Lookup(t).files)
         \/ list'[s] = list[s]
         \/ list'[s] = ListResolved(s, t, cache[t].files)
  BY CarriesParts, TriedDoes
<1>2. DOMAIN list'[s] = DOMAIN list[s] /\ \A x \in DOMAIN list[s] \ {t} : list'[s][x] = list[s][x]
  BY <1>1 DEF ListResolved
<1>3. HasRoots(list'[s])
  <2>1. \A n \in DOMAIN list'[s] \cap Names : n \in DOMAIN list[s] /\ list'[s][n] = list[s][n]
    BY <1>2, RootsParts
  <2> QED
    BY <2>1, RootedParts, RootsSame
<1> QED
  BY <1>1, <1>3, NothingRooted, RootedParts, RootedAfter

LEMMA WalkedRooted ==
    ASSUME ServingAssumption, Typed, Typed', Families, NEW s \in Statements,
           Discover(s) \/ DiscoverFails(s)
    PROVE  CarriesRooted(s)'
<1>1. /\ LogsKept /\ at'[s] = "adopt" /\ list'[s] = list[s] /\ began'[s] = began[s]
      /\ DOMAIN found'[s] \subseteq Unlisted(s)
      /\ \A r \in DOMAIN found'[s] : found'[s][r] = Seen(r) \/ found'[s][r] = Unread
      /\ Unlisted(s) \subseteq DOMAIN found'[s] \cup failed'[s]
  BY CarriesParts, WalkedDoes
<1>2. HasRoots(found'[s])
  <2> SUFFICES ASSUME NEW n \in DOMAIN found'[s] \cap Names
               PROVE  /\ created[n] >= 1
                      /\ Sound(n) => \/ found'[s][n].flaw = "unread"
                                     \/ found'[s][n].inherited = log[n].root
    BY DEF HasRoots
  <2>1. IsClone(n) /\ created[n] >= 1
    <3>1. Exists(n)
      BY <1>1 DEF Unlisted
    <3> QED
      BY <3>1, RootedParts, NamedClone DEF Lineal
  <2>2. CASE found'[s][n] = Unread
    BY <2>1, <2>2, UnopenedTyped
  <2>3. CASE found'[s][n] = Seen(n)
    <3>1. Seen(n).inherited = Inherited(n)
      BY SharedParts, RootsParts, SeenTyped
    <3>2. Sound(n) => Inherited(n) = log[n].root
      BY RootedParts, WalkEnds
    <3> QED
      BY <2>1, <2>3, <3>1, <3>2
  <2> QED
    BY <1>1, <2>2, <2>3
<1>3. ASSUME NEW n \in Names, began'[s][n] # -1
      PROVE  Exists(n) /\ n \in DOMAIN list'[s] \cup DOMAIN found'[s] \cup failed'[s]
  <2>1. Exists(n) /\ n \in Roots
    BY <1>1, <1>3, RootedParts, RootsParts
  <2> QED
    BY <1>1, <2>1 DEF Unlisted
<1> QED
  BY <1>1, <1>2, <1>3, RootedParts, RootedAfter

LEMMA AdoptRooted ==
    ASSUME ServingAssumption, Typed, Typed', Families, NEW s \in Statements, NEW r,
           Adopt(s, r) \/ AdoptFails(s, r)
    PROVE  CarriesRooted(s)'
<1>1. /\ LogsKept /\ at[s] = "adopt" /\ r \in DOMAIN found[s] /\ list'[s] = list[s]
      /\ began'[s] = began[s] /\ at'[s] \in {"adopt", "version"}
      /\ \/ /\ r \in Tables /\ failed[s] \subseteq failed'[s]
            /\ \/ found'[s] = [found[s] EXCEPT ![r] = [@ EXCEPT !.files = Lookup(r).files]]
               \/ found'[s] = [found[s] EXCEPT ![r] = [@ EXCEPT !.files = cache[r].files]]
         \/ found'[s] = Without(s, r) /\ failed'[s] = failed[s] \cup {r}
  BY CarriesParts, AdoptDoes
<1>2. /\ \A x \in DOMAIN found'[s] \cap Names : x \in DOMAIN found[s] /\ found'[s][x] = found[s][x]
      /\ \A x \in DOMAIN found[s] : x \in DOMAIN found'[s] \cup failed'[s]
      /\ failed[s] \subseteq failed'[s]
  <2>1. CASE found'[s] = Without(s, r) /\ failed'[s] = failed[s] \cup {r}
    <3>1. /\ DOMAIN Without(s, r) = DOMAIN found[s] \ {r}
          /\ \A x \in DOMAIN found[s] \ {r} : Without(s, r)[x] = found[s][x]
      BY WithoutTyped
    <3>2. /\ DOMAIN found'[s] = DOMAIN found[s] \ {r}
          /\ \A x \in DOMAIN found[s] \ {r} : found'[s][x] = found[s][x]
      BY <2>1, <3>1, Zenon
    <3> QED
      BY <2>1, <3>2
  <2>2. CASE /\ r \in Tables /\ failed[s] \subseteq failed'[s]
             /\ \/ found'[s] = [found[s] EXCEPT ![r] = [@ EXCEPT !.files = Lookup(r).files]]
                \/ found'[s] = [found[s] EXCEPT ![r] = [@ EXCEPT !.files = cache[r].files]]
    <3>1. DOMAIN found'[s] = DOMAIN found[s]
          /\ \A x \in DOMAIN found[s] \ {r} : found'[s][x] = found[s][x]
      BY <2>2
    <3> QED
      BY <2>2, <3>1, RootsParts
  <2> QED
    BY <1>1, <2>1, <2>2
<1>3. HasRoots(found'[s])
  BY <1>2, RootedParts, RootsSame
<1> QED
  BY <1>1, <1>2, <1>3, RootedParts, RootedAfter

LEMMA AddedRooted ==
    ASSUME ServingAssumption, Typed, Typed', Families, NEW s \in Statements, NEW r,
           LogsKept, Adds(s, r), found'[s] = Without(s, r),
           r \in Names => /\ r \in DOMAIN found[s]
                          /\ list'[s][r].inherited = found[s][r].inherited
                          /\ list'[s][r].flaw = found[s][r].flaw,
           at[s] \in {"adopt", "version"}, at'[s] = "adopt",
           began'[s] = began[s], failed'[s] = failed[s]
    PROVE  CarriesRooted(s)'
<1>1. HasRoots(list'[s])
  <2> SUFFICES ASSUME NEW n \in DOMAIN list'[s] \cap Names
               PROVE  /\ created[n] >= 1
                      /\ Sound(n) => \/ list'[s][n].flaw = "unread"
                                     \/ list'[s][n].inherited = log[n].root
    BY DEF HasRoots
  <2>1. HasRoots(list[s]) /\ HasRoots(found[s])
    BY RootedParts
  <2>2. CASE n = r
    BY <2>1, <2>2 DEF HasRoots
  <2>3. CASE n # r
    <3>1. n \in DOMAIN list[s] /\ list'[s][n] = list[s][n]
      BY <2>3 DEF Adds
    <3> QED
      BY <2>1, <3>1 DEF HasRoots
  <2> QED
    BY <2>2, <2>3
<1>2. /\ DOMAIN found'[s] = DOMAIN found[s] \ {r}
      /\ \A x \in DOMAIN found'[s] : found'[s][x] = found[s][x]
  <2>1. /\ DOMAIN Without(s, r) = DOMAIN found[s] \ {r}
        /\ \A x \in DOMAIN found[s] \ {r} : Without(s, r)[x] = found[s][x]
    BY WithoutTyped
  <2> QED
    BY <2>1, Zenon
<1>3. HasRoots(found'[s])
  BY <1>2, RootedParts, RootsSame
<1>4. \A n \in Names : began'[s][n] # -1 =>
         Exists(n) /\ n \in DOMAIN list'[s] \cup DOMAIN found'[s] \cup failed'[s]
  BY <1>2, RootedParts DEF Adds
<1> QED
  BY <1>1, <1>3, <1>4, RootedParts, RootedAfter

LEMMA PublishRooted ==
    ASSUME ServingAssumption, Typed, Typed', Families, NEW s \in Statements, Publish(s)
    PROVE  CarriesRooted(s)' /\ HasRoots(servable)'
<1>1. /\ LogsKept /\ at[s] = "adopt" /\ DOMAIN found[s] = {} /\ at'[s] = "read"
      /\ servable' \in {servable, list[s]} /\ list'[s] = list[s] /\ found'[s] = found[s]
      /\ began'[s] = began[s] /\ failed'[s] = failed[s]
  BY CarriesParts, PublishDoes
<1>2. HasRoots(servable') /\ NamesMove
  BY <1>1, RootedParts, LogsKeptMove
<1>3. HasRoots(servable)'
  BY <1>2, RootsStay
<1> QED
  BY <1>1, <1>3, RootedParts, RootedAfter

LEMMA FinishRooted ==
    ASSUME ServingAssumption, Typed, Typed', Families, NEW s \in Statements, Finish(s)
    PROVE  CarriesRooted(s)'
<1>1. /\ LogsKept /\ at'[s] = "idle" /\ list'[s] = Nothing /\ began'[s] = NotBegun
      /\ found'[s] = found[s]
  BY CarriesParts, FinishDoes
<1>2. \A n \in Names : began'[s][n] = -1
  BY <1>1, RootsParts DEF NotBegun
<1> QED
  BY <1>1, <1>2, NothingRooted, RootedParts, RootedAfter

LEMMA AdoptCloneRooted ==
    ASSUME ServingAssumption, Typed, Typed', Families, NEW s \in Statements, NEW c \in Names,
           AdoptClone(s, c)
    PROVE  CarriesRooted(s)'
<1>1. /\ LogsKept /\ at[s] = "adopt" /\ c \in DOMAIN found[s] /\ at'[s] = "adopt"
      /\ Adds(s, c) /\ list'[s][c] = [found[s][c] EXCEPT !.resolved_at = VersionSaid(c)]
      /\ found'[s] = Without(s, c) /\ began'[s] = began[s] /\ failed'[s] = failed[s]
  BY CarriesParts, AdoptCloneDoes
<1>2. /\ list'[s][c].inherited = found[s][c].inherited
      /\ list'[s][c].flaw = found[s][c].flaw
  <2>1. found[s][c] \in Open /\ c \in Roots
    BY <1>1, CarriesParts DEF IsList
  <2>2. VersionSaid(c) \in 0 .. MaxVersion
    BY <2>1, CarriesParts, SaidTyped
  <2> QED
    BY <1>1, <2>1, <2>2, OpenParts
<1> QED
  BY <1>1, <1>2, AddedRooted

LEMMA AddedAtRooted ==
    ASSUME ServingAssumption, Typed, Typed', Families, NEW s \in Statements, NEW t \in Tables,
           Adopted(s, t) \/ AdoptedUnasked(s, t)
    PROVE  CarriesRooted(s)'
<1>1. /\ LogsKept /\ at[s] = "version" /\ at'[s] = "adopt" /\ Adds(s, t)
      /\ found'[s] = Without(s, t) /\ began'[s] = began[s] /\ failed'[s] = failed[s]
  BY CarriesParts, AddedAtDoes
<1>2. t \notin Names
  BY RootsParts
<1> QED
  BY <1>1, <1>2, AddedRooted

LEMMA FamiliesInit == ServingAssumption /\ Init => Families
<1> SUFFICES ASSUME ServingAssumption, Init PROVE Families
  OBVIOUS
<1>1. KindsApart
  BY FreshInit DEF Fresh
<1>2. /\ \A n \in Names : n \in Roots /\ n \notin Standing
      /\ DOMAIN servable = Standing /\ Standing \cap Names = {}
  BY RootsParts DEF Init
<1>3. Lineal
  <2>1. \A n \in Names : log[n] = Absent
    BY <1>2 DEF Init
  <2> QED
    BY <2>1, AbsentLog DEF Lineal
<1>4. HasRoots(servable)
  BY <1>2 DEF HasRoots
<1>5. ASSUME NEW s \in Statements PROVE CarriesRooted(s)
  <2>1. list[s] = Nothing /\ found[s] = Nothing /\ began[s] = NotBegun
    BY DEF Init
  <2>2. \A n \in Names : began[s][n] = -1
    BY <1>2, <2>1 DEF NotBegun
  <2> QED
    BY <2>1, <2>2, NothingRooted DEF CarriesRooted
<1> QED
  BY <1>1, <1>3, <1>4, <1>5 DEF Families

\* A step of one statement, that leaves the logs and the other statements alone.
LEMMA FamiliesByOne ==
    ASSUME ServingAssumption, Typed, Typed', Families, KindsApart', NEW s \in Statements,
           LogsKept, OthersKept(s), HasRoots(servable)', CarriesRooted(s)'
    PROVE  Families'
<1>1. NamesMove /\ Lineal' /\ \A n \in Names : Exists(n)' <=> Exists(n)
  BY FamilyParts, LogsKeptMove
<1>2. ASSUME NEW q \in Statements PROVE CarriesRooted(q)'
  <2>1. CASE q = s
    BY <2>1
  <2>2. CASE q # s
    <3>1. KeptButBegan(q) /\ began'[q] = began[q]
      BY <2>2 DEF OthersKept, Kept
    <3> QED
      BY <1>1, <3>1, KeptRooted
  <2> QED
    BY <2>1, <2>2
<1> QED
  BY <1>1, <1>2 DEF Families

LEMMA FamiliesStep ==
    ServingAssumption /\ Typed /\ Typed' /\ Families /\ [Next]_vars => Families'
<1> SUFFICES ASSUME ServingAssumption, Typed, Typed', Families, [Next]_vars PROVE Families'
  OBVIOUS
<1>1. Shapes /\ SharedTyped
  BY SharedParts
<1>2. KindsApart'
  BY KindsStep DEF Families
<1>3. ASSUME NamesMove, UNCHANGED servable PROVE HasRoots(servable)'
  BY <1>3, FamilyParts, RootsStay
<1>4. ASSUME NEW s \in Statements, LogsKept, OthersKept(s), UNCHANGED servable, CarriesRooted(s)'
      PROVE  Families'
  <2>1. NamesMove
    BY <1>4, FamilyParts, LogsKeptMove
  <2> QED
    BY <1>2, <1>3, <1>4, <2>1, FamiliesByOne
<1>5. ASSUME NamesMove, Lineal', UNCHANGED servable,
             \A q \in Statements :
                 /\ KeptButBegan(q) \/ (Defines(q) /\ at'[q] \in {"idle", "creating", "dropping"})
                 /\ \A n \in Names : began'[q][n] # -1 =>
                       began[q][n] # -1 /\ (Exists(n) => Exists(n)')
      PROVE  Families'
  <2>1. \A q \in Statements : CarriesRooted(q)'
    BY <1>5, KeptRooted
  <2> QED
    BY <1>2, <1>3, <1>5, <2>1 DEF Families
<1>6. ASSUME NEW s \in Statements, NamesMove, Lineal', \A n \in Names : Exists(n) => Exists(n)',
             OthersKept(s), UNCHANGED servable, Defines(s),
             at'[s] \in {"idle", "creating", "dropping"}, began'[s] = began[s]
      PROVE  Families'
  <2>1. \A q \in Statements :
           /\ KeptButBegan(q) \/ (Defines(q) /\ at'[q] \in {"idle", "creating", "dropping"})
           /\ began'[q] = began[q]
    BY <1>6 DEF OthersKept, Kept
  <2> QED
    BY <1>5, <1>6, <2>1
<1>7. ASSUME LogsKept PROVE NamesMove /\ Lineal' /\ \A n \in Names : Exists(n) => Exists(n)'
  BY <1>7, FamilyParts, LogsKeptMove
<1>8. ASSUME NEW s \in Statements, Begin(s) PROVE Families'
  BY <1>1, <1>4, <1>8, BeginRooted, BeginDoes
<1>9. ASSUME NEW s \in Statements, Discover(s) \/ DiscoverFails(s) PROVE Families'
  BY <1>1, <1>4, <1>9, WalkedRooted, WalkedDoes
<1>10. ASSUME NEW s \in Statements, Publish(s) PROVE Families'
  BY <1>1, <1>2, <1>10, PublishRooted, PublishDoes, FamiliesByOne
<1>11. ASSUME NEW s \in Statements, Finish(s) PROVE Families'
  BY <1>1, <1>4, <1>11, FinishRooted, FinishDoes
<1>12. ASSUME NEW s \in Statements, NEW t \in Tables, Refresh(s, t) \/ RefreshFails(s, t)
       PROVE  Families'
  BY <1>1, <1>4, <1>12, LookedRooted, LookedDoes
<1>13. ASSUME NEW s \in Statements, NEW t \in Tables, Resolve(s, t) \/ ResolveFails(s, t)
       PROVE  Families'
  BY <1>1, <1>4, <1>13, TriedRooted, TriedDoes
<1>14. ASSUME NEW s \in Statements, NEW t \in Tables, Adopted(s, t) \/ AdoptedUnasked(s, t)
       PROVE  Families'
  BY <1>1, <1>4, <1>14, AddedAtRooted, AddedAtDoes
<1>15. ASSUME NEW s \in Statements, NEW r \in Roots, Adopt(s, r) \/ AdoptFails(s, r)
       PROVE  Families'
  BY <1>1, <1>4, <1>15, AdoptRooted, AdoptDoes
<1>16. ASSUME NEW s \in Statements, NEW c \in Names, AdoptClone(s, c) PROVE Families'
  BY <1>1, <1>4, <1>16, AdoptCloneRooted, AdoptCloneDoes
<1>17. ASSUME NEW s \in Statements, NEW n \in Names,
              \/ \E o \in Roots, v \in 0 .. MaxVersion : Create(s, n, o, v)
              \/ Drop(s, n) \/ DropUnseeing(s, n)
       PROVE  Families'
  BY <1>6, <1>7, <1>17, DecidedTyped
<1>18. ASSUME NEW s \in Statements, DefineFails(s) PROVE Families'
  BY <1>1, <1>6, <1>7, <1>18, DefineFailsDoes
<1>19. ASSUME NEW s \in Statements, Created(s) PROVE Families'
  BY <1>1, <1>6, <1>19, CreatedDoes, CreatedMoves
<1>20. ASSUME NEW s \in Statements, Dropped(s) PROVE Families'
  <2>1. /\ Defines(s) /\ (\A q \in Statements \ {s} : KeptButBegan(q)) /\ UNCHANGED servable
        /\ at'[s] = "idle"
        /\ \A q \in Statements : began'[q] = [began[q] EXCEPT ![asked[s].name] = -1]
    BY <1>1, <1>20, DroppedDoes
  <2>2. PICK name \in Names : name = asked[s].name
    BY <1>20, DroppedMoves
  <2>3. /\ NamesMove /\ Lineal'
        /\ \A n \in Names \ {name} : Exists(n) => Exists(n)'
    BY <1>20, <2>2, DroppedMoves
  <2>4. ASSUME NEW q \in Statements, NEW n \in Names, began'[q][n] # -1
        PROVE  began[q][n] # -1 /\ (Exists(n) => Exists(n)')
    <3>1. DOMAIN began[q] = Roots /\ n \in Roots
      BY CarriesParts, RootsParts
    <3>2. n # name /\ began'[q][n] = began[q][n]
      BY <2>1, <2>2, <2>4, <3>1
    <3> QED
      BY <2>3, <2>4, <3>2
  <2> QED
    BY <1>5, <2>1, <2>3, <2>4
<1>21. ASSUME NamesMove, Lineal', \A n \in Names : Exists(n) => Exists(n)',
              \A q \in Statements : Kept(q), UNCHANGED servable
       PROVE  Families'
  BY <1>5, <1>21 DEF Kept
<1>22. ASSUME NEW t \in Tables, Commit(t) PROVE Families'
  BY <1>1, <1>21, <1>22, CommitDoes, CommitMoves
<1>23. CASE UNCHANGED vars
  <2>1. (\A q \in Statements : Kept(q)) /\ LogsKept /\ UNCHANGED servable
    BY <1>1, <1>23, StutterDoes DEF LogsKept
  <2> QED
    BY <1>7, <1>21, <2>1
<1> QED
  BY <1>8, <1>9, <1>10, <1>11, <1>12, <1>13, <1>14, <1>15, <1>16, <1>17, <1>18, <1>19, <1>20,
     <1>22, <1>23, Steps

LEMMA FamiliesAlways == Spec => []Families
<1>1. Spec => []Typed
  BY TypedAlways
<1> QED
  BY <1>1, FamiliesInit, FamiliesStep, ServingAssumption, PTL DEF Spec

LEMMA FamiliesSuffice == Typed /\ Families => ClonesReadTheirVersion
<1> SUFFICES ASSUME Typed, Families, NEW s \in Statements, at[s] = "read", NEW c \in Names,
                    Throughout(s, c), created[c] = 1, c \notin severed, log[c].depth <= MaxDepth
             PROVE  /\ c \in DOMAIN list[s] \cup failed[s]
                    /\ c \in DOMAIN list[s] =>
                          list[s][c].flaw = "unread" \/ list[s][c].inherited = log[c].root
  BY DEF ClonesReadTheirVersion
<1>1. Exists(c) /\ c \in DOMAIN list[s] \cup failed[s] /\ HasRoots(list[s])
  BY RootedParts DEF Throughout
<1>2. Sound(c)
  BY <1>1, RootedParts, NamedClone DEF Sound
<1> QED
  BY <1>1, <1>2 DEF HasRoots

\* A clone is read at the version it was made at, for any clones of clones and any
\* definitions at the same time: the first to have its name, with nothing removed from
\* under it, no more above it than a walk follows, and a lineage that could be read when
\* it was found.
THEOREM ClonesReadTrue == Spec => []ClonesReadTheirVersion
BY TypedAlways, FamiliesAlways, FamiliesSuffice, PTL
=============================================================================
