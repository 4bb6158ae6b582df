---------------------------- MODULE TieringProofs ----------------------------
(***************************************************************************)
(* That tiering loses nothing, that a query never reads an archive nobody  *)
(* proved, and that a journal can always be resumed and is never behind    *)
(* its purge, for any purges, any ranges and any number of crashes,        *)
(* restores and rewritten journal entries.                                 *)
(*                                                                         *)
(* None of it is inductive.  A restore brings back an older source, so     *)
(* what holds of the source must hold of the backup too; an archive is     *)
(* recorded long after it was compared, so a purge has to be known to have *)
(* been verified from its journal alone, which is what a resume has.  And  *)
(* a journal left by a crash is resumed much later: that it replays to the *)
(* beginning of the phases is kept of every journal, in memory or not.     *)
(***************************************************************************)
EXTENDS Tiering, WellFoundedInduction, TLAPS

\* A journal is a sequence, of whatever was written to it.
IsJournal(entries) == entries \in Seq({entries[i] : i \in DOMAIN entries})

\* The variables of each purge are functions of the purges, and a journal is a sequence.
Shapes ==
    /\ DOMAIN journal = Purges /\ DOMAIN entered = Purges
    /\ DOMAIN acting = Purges /\ DOMAIN copy = Purges
    /\ \A p \in Purges : IsJournal(journal[p])

\* A purge with a journal was verified; one without has entered nothing but its plan,
\* and acts on nothing.
JournalMeansProved ==
    \A p \in Purges :
        /\ journal[p] # <<>> => copy[p] = "faithful"
        /\ journal[p] = <<>> => entered[p] = <<>> \/ entered[p] = <<"planned">>
        /\ journal[p] = <<>> => acting[p] = None

\* A source, as it is or as it was backed up.
IsSource(s) ==
    /\ s = [attached |-> s.attached, registry |-> s.registry, held |-> s.held]
    /\ s.attached \subseteq Domain

\* Every entry is of a purge that was verified, no two touch, and every ordinal is
\* attached, held or archived.
EntriesProved(s) ==
    \A e \in s.registry :
        e.purge \in Purges /\ e.range = RangeOf[e.purge] /\ copy[e.purge] = "faithful"

EntriesApart(s) == \A e, f \in s.registry : e # f => e.range \cap f.range = {}

HeldByPurges(s) == \A h \in s.held : h.purge \in Purges

EveryOrdinal(s) ==
    \A x \in Domain :
        \/ x \in s.attached
        \/ \E h \in s.held : x \in RangeOf[h.purge]
        \/ \E e \in s.registry : x \in e.range

Sound(s) ==
    /\ IsSource(s) /\ EntriesProved(s) /\ EntriesApart(s)
    /\ HeldByPurges(s) /\ EveryOrdinal(s)

IInv == Shapes /\ JournalMeansProved /\ Sound(source) /\ Sound(backup)

-----------------------------------------------------------------------------
\* A sequence of one set's members is one of any set that holds what is in it.
LEMMA SeqOfWider ==
    ASSUME NEW T, NEW s \in Seq(T), NEW S, \A i \in DOMAIN s : s[i] \in S
    PROVE  s \in Seq(S)
<1>1. Len(s) \in Nat /\ DOMAIN s = 1 .. Len(s) /\ s = [i \in 1 .. Len(s) |-> s[i]]
  OBVIOUS
<1> QED
  BY <1>1

LEMMA AppendIsSeq ==
    ASSUME NEW S, NEW s \in Seq(S), NEW e \in S
    PROVE  Append(s, e) \in Seq(S) /\ Append(s, e) # <<>>
<1>1. Append(s, e) \in Seq(S)
  OBVIOUS
<1>2. Len(Append(s, e)) = Len(s) + 1 /\ Len(s) \in Nat
  OBVIOUS
<1>3. Len(<<>>) = 0
  OBVIOUS
<1> QED
  BY <1>1, <1>2, <1>3

\* Appending to a journal gives a journal, and never the empty one.
LEMMA AppendedJournal ==
    ASSUME NEW entries, IsJournal(entries), NEW phase
    PROVE  IsJournal(Append(entries, phase)) /\ Append(entries, phase) # <<>>
<1> DEFINE T == {entries[i] : i \in DOMAIN entries}
<1> DEFINE S == T \cup {phase}
<1> DEFINE longer == Append(entries, phase)
<1> DEFINE R == {longer[i] : i \in DOMAIN longer}
<1>1. entries \in Seq(T) /\ \A i \in DOMAIN entries : entries[i] \in S
  BY DEF IsJournal
<1>2. phase \in S
  OBVIOUS
<1> HIDE DEF T, S
<1>3. entries \in Seq(S)
  BY <1>1, SeqOfWider
<1>4. longer \in Seq(S) /\ longer # <<>>
  BY <1>2, <1>3, AppendIsSeq
<1> HIDE DEF longer
<1>5. \A i \in DOMAIN longer : longer[i] \in R
  OBVIOUS
<1> HIDE DEF R
<1>6. longer \in Seq(R)
  BY <1>4, <1>5, SeqOfWider
<1> QED
  BY <1>4, <1>6 DEF IsJournal, longer, R

-----------------------------------------------------------------------------
(* Resuming is a fold over the journal.  What it computes is proved by     *)
(* induction, stated over a set of naturals: every nonempty set of         *)
(* naturals has a least element, because < is well founded.                *)

LEMMA LeastElement ==
    ASSUME NEW S \in SUBSET Nat, S # {}
    PROVE  \E m \in S : \A n \in S : m <= n
<1> DEFINE Less == OpToRel(<, Nat)
<1>1. \A x, y \in Nat : x < y => <<x, y>> \in Less
  BY DEF OpToRel
<1>2. PICK m \in S : \A n \in S : ~ (<<n, m>> \in Less)
  <2>1. IsWellFoundedOn(Less, Nat)
    BY NatLessThanWellFounded
  <2> HIDE DEF Less
  <2> QED
    BY <2>1, WFMin
<1> HIDE DEF Less
<1>3. ASSUME NEW n \in S PROVE m <= n
  <2>1. ~ (n < m)
    BY <1>1, <1>2
  <2> QED
    BY <2>1
<1> QED
  BY <1>2, <1>3

LEMMA SetInduction ==
    ASSUME NEW S \in SUBSET Nat, 0 \in S, \A n \in S : n + 1 \in S
    PROVE  S = Nat
<1>1. ASSUME Nat \ S # {} PROVE FALSE
  <2>1. PICK m \in Nat \ S : \A n \in Nat \ S : m <= n
    BY <1>1, LeastElement
  <2>2. m # 0 /\ m - 1 \in Nat /\ ~ (m <= m - 1)
    BY <2>1
  <2>3. m - 1 \in S
    BY <2>1, <2>2
  <2>4. (m - 1) + 1 \in S
    BY <2>3
  <2> QED
    BY <2>1, <2>4
<1> QED
  BY <1>1

LEMMA MaxIsTop ==
    ASSUME NEW n \in Nat, NEW s \in SUBSET (1 .. n + 1), n + 1 \in s
    PROVE  Max(s) = n + 1
<1>1. \A x \in s : x \in Int /\ n + 1 >= x
  OBVIOUS
<1>2. ASSUME NEW x \in s, \A y \in s : x >= y PROVE x = n + 1
  BY <1>1, <1>2
<1>3. Max(s) \in s /\ \A y \in s : Max(s) >= y
  BY <1>1 DEF Max
<1> QED
  BY <1>2, <1>3

Plan == <<"planned">>

\* What the fold computes on each set of the first n entries.
Unrolled(entries, n, g) ==
    [s \in SUBSET (1 .. n) |->
        IF s = {} THEN Plan ELSE Replay(g[s \ {Max(s)}], entries[Max(s)])]

LEMMA FoldIsUnrolled ==
    ASSUME NEW S, NEW entries \in Seq(S)
    PROVE  Replayed(entries) =
             (CHOOSE g : g = Unrolled(entries, Len(entries), g))[1 .. Len(entries)]
<1>1. DOMAIN entries = 1 .. Len(entries)
  OBVIOUS
<1>2. Replayed(entries) =
        (CHOOSE g : g = [s \in SUBSET DOMAIN entries |->
            IF s = {} THEN Plan ELSE Replay(g[s \ {Max(s)}], entries[Max(s)])])[DOMAIN entries]
  BY Zenon DEF Replayed, FoldLeft, MapThenFoldSet, Plan
<1> QED
  BY <1>1, <1>2, Zenon DEF Unrolled

LEMMA UnrolledExists ==
    ASSUME NEW entries
    PROVE  \A n \in Nat : \E g : g = Unrolled(entries, n, g)
<1> DEFINE S == {n \in Nat : \E g : g = Unrolled(entries, n, g)}
<1>1. 0 \in S
  <2> DEFINE g == [s \in SUBSET (1 .. 0) |-> Plan]
  <2>1. \A s \in SUBSET (1 .. 0) : s = {}
    OBVIOUS
  <2>2. g = Unrolled(entries, 0, g)
    BY <2>1 DEF Unrolled
  <2> QED
    BY <2>2
<1>2. ASSUME NEW n \in S PROVE n + 1 \in S
  <2>1. PICK g : g = Unrolled(entries, n, g)
    OBVIOUS
  <2>2. n \in Nat
    OBVIOUS
  <2> DEFINE h == [s \in SUBSET (1 .. n + 1) |->
                     IF n + 1 \in s THEN Replay(g[s \ {n + 1}], entries[n + 1]) ELSE g[s]]
             u == Unrolled(entries, n + 1, h)
  <2>3. ASSUME NEW s \in SUBSET (1 .. n + 1) PROVE h[s] = u[s]
    <3>1. u[s] = IF s = {} THEN Plan ELSE Replay(h[s \ {Max(s)}], entries[Max(s)])
      BY Zenon DEF Unrolled
    <3>2. CASE n + 1 \in s
      <4>1. Max(s) = n + 1
        BY <2>2, <3>2, MaxIsTop
      <4>2. s \ {n + 1} \in SUBSET (1 .. n + 1) /\ n + 1 \notin s \ {n + 1}
        OBVIOUS
      <4>3. h[s \ {n + 1}] = g[s \ {n + 1}]
        BY <4>2
      <4>4. h[s] = Replay(g[s \ {n + 1}], entries[n + 1])
        BY <3>2
      <4> QED
        BY <3>1, <3>2, <4>1, <4>3, <4>4, Zenon
    <3>3. CASE n + 1 \notin s
      <4>1. s \in SUBSET (1 .. n) /\ h[s] = g[s]
        BY <2>2, <3>3
      <4>2. g[s] = IF s = {} THEN Plan ELSE Replay(g[s \ {Max(s)}], entries[Max(s)])
        BY <2>1, <4>1, Zenon DEF Unrolled
      <4>3. s \ {Max(s)} \in SUBSET (1 .. n + 1) /\ n + 1 \notin s \ {Max(s)}
        BY <3>3
      <4>4. h[s \ {Max(s)}] = g[s \ {Max(s)}]
        BY <4>3
      <4> QED
        BY <3>1, <4>1, <4>2, <4>4, Zenon
    <3> QED
      BY <3>2, <3>3
  <2>4. h = u
    <3>1. u = [s \in SUBSET (1 .. n + 1) |-> u[s]]
      BY Zenon DEF Unrolled
    <3>2. h = [s \in SUBSET (1 .. n + 1) |-> h[s]]
      BY Zenon
    <3> HIDE DEF h, u
    <3> QED
      BY <2>3, <3>1, <3>2
  <2>5. \E f : f = Unrolled(entries, n + 1, f)
    BY <2>4, Zenon
  <2> QED
    BY <2>2, <2>5
<1>3. S = Nat
  <2>1. S \in SUBSET Nat
    OBVIOUS
  <2> HIDE DEF S
  <2> QED
    BY <1>1, <1>2, <2>1, SetInduction
<1> QED
  BY <1>3

\* The phases after each entry.
LEMMA ReplayedOneByOne ==
    ASSUME NEW S, NEW entries \in Seq(S)
    PROVE  \E r : /\ r[0] = Plan
                  /\ \A i \in 1 .. Len(entries) : r[i] = Replay(r[i - 1], entries[i])
                  /\ Replayed(entries) = r[Len(entries)]
<1> DEFINE n == Len(entries)
           g == CHOOSE g : g = Unrolled(entries, n, g)
           r == [i \in 0 .. n |-> g[1 .. i]]
<1>1. n \in Nat
  OBVIOUS
<1>2. g = Unrolled(entries, n, g)
  BY <1>1, UnrolledExists, Zenon
<1>3. Replayed(entries) = r[n]
  BY <1>1, FoldIsUnrolled
<1> HIDE DEF g
<1>4. r[0] = Plan
  <2>1. 1 .. 0 = {} /\ {} \in SUBSET (1 .. n)
    OBVIOUS
  <2>2. g[{}] = Plan
    BY <1>2, <2>1, Zenon DEF Unrolled
  <2> QED
    BY <1>1, <2>1, <2>2
<1>5. ASSUME NEW i \in 1 .. n PROVE r[i] = Replay(r[i - 1], entries[i])
  <2>1. /\ i - 1 \in Nat /\ (i - 1) + 1 = i
        /\ 1 .. i \in SUBSET (1 .. n) /\ i \in 1 .. i
        /\ (1 .. i) \ {i} = 1 .. i - 1
        /\ i \in 0 .. n /\ i - 1 \in 0 .. n
    BY <1>1
  <2>2. Max(1 .. i) = i
    BY <2>1, MaxIsTop
  <2>3. g[1 .. i] = Replay(g[(1 .. i) \ {Max(1 .. i)}], entries[Max(1 .. i)])
    BY <1>2, <2>1, Zenon DEF Unrolled
  <2> QED
    BY <2>1, <2>2, <2>3
<1> QED
  BY <1>3, <1>4, <1>5

\* One more entry is one more step.
LEMMA ReplayedAppend ==
    ASSUME NEW S, NEW entries \in Seq(S), NEW phase \in S
    PROVE  Replayed(Append(entries, phase)) = Replay(Replayed(entries), phase)
<1> DEFINE longer == Append(entries, phase)
<1>1. longer \in Seq(S) /\ Len(entries) \in Nat /\ Len(longer) = Len(entries) + 1
  OBVIOUS
<1>2. longer[Len(entries) + 1] = phase /\ \A i \in 1 .. Len(entries) : longer[i] = entries[i]
  OBVIOUS
<1> HIDE DEF longer
<1>3. PICK r : /\ r[0] = Plan
               /\ \A i \in 1 .. Len(entries) : r[i] = Replay(r[i - 1], entries[i])
               /\ Replayed(entries) = r[Len(entries)]
  BY ReplayedOneByOne
<1>4. PICK q : /\ q[0] = Plan
               /\ \A i \in 1 .. Len(longer) : q[i] = Replay(q[i - 1], longer[i])
               /\ Replayed(longer) = q[Len(longer)]
  BY <1>1, ReplayedOneByOne
<1> DEFINE Same == {k \in Nat : k <= Len(entries) => q[k] = r[k]}
<1>5. 0 \in Same
  BY <1>3, <1>4
<1>6. ASSUME NEW k \in Same PROVE k + 1 \in Same
  <2>1. CASE k + 1 <= Len(entries)
    <3>1. k + 1 \in 1 .. Len(entries) /\ k + 1 \in 1 .. Len(longer) /\ (k + 1) - 1 = k
      BY <1>1, <2>1
    <3>2. q[k] = r[k]
      BY <1>1, <2>1
    <3>3. q[k + 1] = Replay(q[k], longer[k + 1]) /\ r[k + 1] = Replay(r[k], entries[k + 1])
      BY <1>3, <1>4, <3>1
    <3>4. q[k + 1] = r[k + 1]
      BY <1>2, <3>1, <3>2, <3>3
    <3> QED
      BY <3>4
  <2>2. CASE ~ (k + 1 <= Len(entries))
    BY <2>2
  <2> QED
    BY <2>1, <2>2
<1>7. Same = Nat
  <2>1. Same \in SUBSET Nat
    OBVIOUS
  <2> HIDE DEF Same
  <2> QED
    BY <1>5, <1>6, <2>1, SetInduction
<1>8. q[Len(entries)] = r[Len(entries)]
  <2>1. Len(entries) \in Same
    BY <1>1, <1>7
  <2> QED
    BY <1>1, <2>1
<1>9. q[Len(longer)] = Replay(q[Len(entries)], phase)
  <2>1. Len(longer) \in 1 .. Len(longer) /\ Len(longer) - 1 = Len(entries)
    BY <1>1
  <2> QED
    BY <1>1, <1>2, <1>4, <2>1
<1> QED
  BY <1>3, <1>4, <1>8, <1>9 DEF longer

LEMMA ReplayedNothing == Replayed(<<>>) = Plan
<1>1. <<>> \in Seq({}) /\ Len(<<>>) = 0
  OBVIOUS
<1> QED
  BY <1>1, ReplayedOneByOne

-----------------------------------------------------------------------------
(* What a purge has entered is the beginning of the phases.                *)

\* The traces of a purge that has begun.
Begun == {SubSeq(Phases, 1, n) : n \in 1 .. 7}

LEMMA BegunIsTrace == Begun \subseteq Traces /\ Traces \subseteq Begun \cup {<<>>}
<1>1. SubSeq(Phases, 1, 0) = <<>>
  BY DEF Phases
<1>2. 0 .. 7 = {0} \cup 1 .. 7
  OBVIOUS
<1> QED
  BY <1>1, <1>2 DEF Begun, Traces

LEMMA PhasesTyped == Phases \in Seq(PhaseNames) /\ Len(Phases) = 7
<1>1. Len(Phases) = 7 /\ \A i \in 1 .. 7 : Phases[i] \in PhaseNames
  BY DEF Phases, PhaseNames
<1>2. Phases = [i \in 1 .. 7 |-> Phases[i]]
  BY DEF Phases
<1> HIDE DEF Phases
<1> QED
  BY <1>1, <1>2

LEMMA PhasesInOrder ==
    ASSUME NEW n \in 1 .. 7
    PROVE  /\ SubSeq(Phases, 1, n) # <<>>
           /\ Last(SubSeq(Phases, 1, n)) = Phases[n]
           /\ n < 7 => Append(SubSeq(Phases, 1, n), Phases[n + 1]) = SubSeq(Phases, 1, n + 1)
<1>1. Phases \in Seq(PhaseNames) /\ Len(Phases) = 7
  BY PhasesTyped
<1> DEFINE s == SubSeq(Phases, 1, n)
<1>2. Len(s) = n /\ s[n] = Phases[n]
  BY <1>1
<1>3. n < 7 => Append(s, Phases[n + 1]) = SubSeq(Phases, 1, n + 1)
  BY <1>1
<1>4. s # <<>>
  <2>1. Len(<<>>) = 0
    OBVIOUS
  <2> HIDE DEF s
  <2> QED
    BY <1>2, <2>1
<1> HIDE DEF s
<1>5. Last(s) = Phases[n]
  BY <1>2 DEF Last
<1> QED
  BY <1>3, <1>4, <1>5 DEF s

-----------------------------------------------------------------------------
LEMMA InitIInv == TieringAssumption /\ Init => IInv
<1> SUFFICES ASSUME TieringAssumption, Init PROVE IInv
  OBVIOUS
<1>1. Shapes
  <2>1. IsJournal(<<>>)
    BY DEF IsJournal
  <2> QED
    BY <2>1 DEF Init, Shapes
<1>2. JournalMeansProved
  BY DEF Init, JournalMeansProved
<1>3. Sound(source)
  BY DEF Init, Sound, IsSource, EntriesProved, EntriesApart, HeldByPurges, EveryOrdinal
<1> QED
  BY <1>1, <1>2, <1>3 DEF IInv, Init

\* No step unproves an archive.
LEMMA ProofsKept ==
    ASSUME IInv, [Next]_vars
    PROVE  \A p \in Purges : copy[p] = "faithful" => copy'[p] = "faithful"
<1> SUFFICES ASSUME NEW p \in Purges, copy[p] = "faithful" PROVE copy'[p] = "faithful"
  OBVIOUS
<1>1. ASSUME NEW q \in Purges, Copy(q) PROVE copy'[p] = "faithful"
  BY <1>1 DEF Copy
<1>2. CASE UNCHANGED copy
  BY <1>2
<1>3. ASSUME NEW q \in Purges,
             \/ Begin(q) \/ Verified(q) \/ Entering(q) \/ Rewrite(q)
             \/ Resume(q) \/ Act(q) \/ Reattach(q)
      PROVE  UNCHANGED copy
  BY <1>3 DEF Begin, Verified, Entering, Transition, Rewrite, Resume, Act, Reattach
<1>4. ASSUME Crash \/ Reap \/ Tick \/ Switch \/ BackUp \/ Restore PROVE UNCHANGED copy
  BY <1>4 DEF Crash, Reap, Tick, Switch, BackUp, Restore
<1>5. ASSUME UNCHANGED vars PROVE UNCHANGED copy
  BY <1>5 DEF vars
<1> QED
  BY <1>1, <1>2, <1>3, <1>4, <1>5 DEF Next

\* Only the verification of a purge follows its plan.
LEMMA AfterThePlan ==
    ASSUME NEW next, Requires(next) = Last(<<"planned">>)
    PROVE  next = "verified"
<1>1. Last(<<"planned">>) = "planned"
  BY DEF Last
<1>2. CASE next = "verified"
  BY <1>2
<1>3. CASE next = "gated"
  BY <1>1, <1>3 DEF Requires
<1>4. CASE next = "marked"
  BY <1>1, <1>4 DEF Requires
<1>5. CASE next = "detached"
  BY <1>1, <1>5 DEF Requires
<1>6. CASE next = "dropped"
  BY <1>1, <1>6 DEF Requires
<1>7. CASE next = "recorded"
  BY <1>1, <1>7 DEF Requires
<1>8. CASE next \notin {"verified", "gated", "marked", "detached", "dropped", "recorded"}
  BY <1>1, <1>8 DEF Requires, None
<1> QED
  BY <1>2, <1>3, <1>4, <1>5, <1>6, <1>7, <1>8

\* A phase is journalled for a purge that has been verified, or by its verification.
LEMMA TransitionProved ==
    ASSUME IInv, NEW p \in Purges, Verified(p) \/ Entering(p)
    PROVE  /\ copy[p] = "faithful"
           /\ \E next : /\ journal' = [journal EXCEPT ![p] = Append(@, next)]
                        /\ acting' = [acting EXCEPT ![p] = next]
           /\ UNCHANGED <<entered, copy, source, backup>>
<1>1. CASE Verified(p)
  BY <1>1 DEF Verified, Transition, Proof, faults
<1>2. CASE Entering(p)
  <2>1. PICK next \in PhaseNames \ {"verified"} : Transition(p, next)
    BY <1>2 DEF Entering
  <2>2. journal[p] # <<>>
    <3> SUFFICES ASSUME journal[p] = <<>> PROVE FALSE
      OBVIOUS
    <3>1. entered[p] = <<"planned">>
      BY <2>1 DEF Transition, IInv, JournalMeansProved
    <3>2. Requires(next) = Last(<<"planned">>)
      BY <2>1, <3>1 DEF Transition
    <3> QED
      BY <2>1, <3>2, AfterThePlan
  <2> QED
    BY <2>1, <2>2 DEF Transition, IInv, JournalMeansProved, faults
<1> QED
  BY <1>1, <1>2

LEMMA ShapesKept ==
    ASSUME IInv, [Next]_vars
    PROVE  Shapes'
<1>1. Shapes
  BY DEF IInv
<1>2. ASSUME NEW p \in Purges, Verified(p) \/ Entering(p) PROVE Shapes'
  <2>1. PICK next : /\ journal' = [journal EXCEPT ![p] = Append(@, next)]
                    /\ acting' = [acting EXCEPT ![p] = next]
    BY <1>2, TransitionProved
  <2>2. UNCHANGED <<entered, copy>>
    BY <1>2, TransitionProved
  <2>3. IsJournal(Append(journal[p], next))
    BY <1>1, AppendedJournal DEF Shapes
  <2>4. \A q \in Purges : IsJournal(journal'[q])
    BY <1>1, <2>1, <2>3 DEF Shapes
  <2> QED
    BY <1>1, <2>1, <2>2, <2>4 DEF Shapes
<1>3. ASSUME NEW p \in Purges, Rewrite(p) PROVE Shapes'
  <2>1. IsJournal(Append(journal[p], acting[p]))
    BY <1>1, AppendedJournal DEF Shapes
  <2>2. \A q \in Purges : IsJournal(journal'[q])
    BY <1>1, <1>3, <2>1 DEF Shapes, Rewrite
  <2> QED
    BY <1>1, <1>3, <2>2 DEF Shapes, Rewrite, memory
<1>4. ASSUME NEW p \in Purges, Begin(p) \/ Copy(p) \/ Resume(p) PROVE Shapes'
  BY <1>1, <1>4 DEF Shapes, Begin, Copy, Resume, memory, faults
<1>5. ASSUME NEW p \in Purges, Act(p) PROVE Shapes'
  <2>1. /\ UNCHANGED <<journal, copy>>
        /\ entered' = [entered EXCEPT ![p] = Entered(@, acting[p])]
        /\ acting' = [acting EXCEPT ![p] = None]
    BY <1>5 DEF Act
  <2> QED
    BY <1>1, <2>1 DEF Shapes
<1>6. ASSUME NEW p \in Purges, Reattach(p) PROVE Shapes'
  BY <1>1, <1>6 DEF Shapes, Reattach, memory, faults
<1>7. CASE Crash \/ Restore
  BY <1>1, <1>7 DEF Shapes, Crash, Restore
<1>8. CASE Reap \/ Tick \/ Switch \/ BackUp \/ UNCHANGED vars
  <2>1. UNCHANGED <<journal, entered, acting, copy>>
    BY <1>8 DEF Reap, Tick, Switch, BackUp, vars, memory, faults
  <2> QED
    BY <1>1, <2>1 DEF Shapes
<1> QED
  BY <1>2, <1>3, <1>4, <1>5, <1>6, <1>7, <1>8 DEF Next

LEMMA JournalKept ==
    ASSUME IInv, [Next]_vars
    PROVE  JournalMeansProved'
<1>1. JournalMeansProved /\ Shapes
  BY DEF IInv
<1>2. \A q \in Purges : copy[q] = "faithful" => copy'[q] = "faithful"
  BY ProofsKept
<1>3. ASSUME NEW p \in Purges, Verified(p) \/ Entering(p) PROVE JournalMeansProved'
  <2>1. PICK next : /\ journal' = [journal EXCEPT ![p] = Append(@, next)]
                    /\ acting' = [acting EXCEPT ![p] = next]
    BY <1>3, TransitionProved
  <2>2. UNCHANGED <<entered, copy>> /\ copy[p] = "faithful"
    BY <1>3, TransitionProved
  <2>3. Append(journal[p], next) # <<>>
    BY <1>1, AppendedJournal DEF Shapes
  <2> QED
    BY <1>1, <2>1, <2>2, <2>3 DEF JournalMeansProved, Shapes
<1>4. ASSUME NEW p \in Purges, Rewrite(p) PROVE JournalMeansProved'
  <2>1. Append(journal[p], acting[p]) # <<>>
    BY <1>1, AppendedJournal DEF Shapes
  <2>2. journal[p] # <<>>
    BY <1>1, <1>4 DEF Rewrite, JournalMeansProved
  <2> QED
    BY <1>1, <1>4, <2>1, <2>2 DEF Rewrite, JournalMeansProved, Shapes, memory
<1>5. ASSUME NEW p \in Purges, Begin(p) PROVE JournalMeansProved'
  BY <1>1, <1>5 DEF Begin, JournalMeansProved, Shapes, faults
<1>6. ASSUME NEW p \in Purges, Copy(p) PROVE JournalMeansProved'
  BY <1>1, <1>2, <1>6 DEF Copy, JournalMeansProved, memory, faults
<1>7. ASSUME NEW p \in Purges, Resume(p) PROVE JournalMeansProved'
  <2>1. /\ UNCHANGED <<journal, copy>> /\ journal[p] # <<>>
        /\ entered' = [entered EXCEPT ![p] = Replayed(journal[p])]
        /\ acting' = [acting EXCEPT ![p] = Last(Replayed(journal[p]))]
    BY <1>7 DEF Resume
  <2> QED
    BY <1>1, <2>1 DEF JournalMeansProved, Shapes
<1>8. ASSUME NEW p \in Purges, Act(p) PROVE JournalMeansProved'
  <2>1. /\ UNCHANGED <<journal, copy>> /\ acting[p] # None
        /\ entered' = [entered EXCEPT ![p] = Entered(@, acting[p])]
        /\ acting' = [acting EXCEPT ![p] = None]
    BY <1>8 DEF Act
  <2> QED
    BY <1>1, <2>1 DEF JournalMeansProved, Shapes
<1>9. ASSUME NEW p \in Purges, Reattach(p) PROVE JournalMeansProved'
  BY <1>1, <1>9 DEF JournalMeansProved, Reattach, memory, faults
<1>10. CASE Crash \/ Restore
  BY <1>1, <1>10 DEF JournalMeansProved, Crash, Restore
<1>11. CASE Reap \/ Tick \/ Switch \/ BackUp \/ UNCHANGED vars
  <2>1. UNCHANGED <<journal, entered, acting, copy>>
    BY <1>11 DEF Reap, Tick, Switch, BackUp, vars, memory, faults
  <2> QED
    BY <1>1, <2>1 DEF JournalMeansProved
<1> QED
  BY <1>3, <1>4, <1>5, <1>6, <1>7, <1>8, <1>9, <1>10, <1>11 DEF Next

-----------------------------------------------------------------------------
\* The entry of a purge that is acting goes into the registry.
LEMMA SoundMark ==
    ASSUME IInv, NEW p \in Purges, acting[p] # None, Mark(p), TieringAssumption
    PROVE  Sound(source')
<1>1. Sound(source)
  BY DEF IInv
<1>2. CASE source' = source
  BY <1>1, <1>2
<1>3. CASE /\ MayRecord(source.registry, RangeOf[p])
           /\ source' = [source EXCEPT !.registry = @ \cup {EntryOf(p)}]
  <2>1. copy[p] = "faithful"
    BY DEF IInv, JournalMeansProved
  <2>2. source' = [attached |-> source.attached,
                   registry |-> source.registry \cup {EntryOf(p)},
                   held |-> source.held]
    BY <1>1, <1>3 DEF Sound, IsSource
  <2>3. EntryOf(p).range = RangeOf[p] /\ EntryOf(p).purge = p
    BY DEF EntryOf
  <2>4. IsSource(source') /\ HeldByPurges(source') /\ EveryOrdinal(source')
    BY <1>1, <2>2 DEF Sound, IsSource, HeldByPurges, EveryOrdinal
  <2>5. EntriesProved(source')
    BY <1>1, <2>1, <2>2, <2>3 DEF Sound, EntriesProved
  <2>6. EntriesApart(source')
    BY <1>1, <1>3, <2>2, <2>3 DEF Sound, EntriesApart, MayRecord
  <2> QED
    BY <2>4, <2>5, <2>6 DEF Sound
<1> QED
  BY <1>2, <1>3 DEF Mark

\* A partition leaves the live table for the quarantine.
LEMMA SoundDetach ==
    ASSUME IInv, NEW p \in Purges, Detach(p)
    PROVE  Sound(source')
<1>1. Sound(source)
  BY DEF IInv
<1>2. CASE source' = source
  BY <1>1, <1>2
<1>3. CASE source' = [source EXCEPT !.attached = @ \ RangeOf[p],
                                    !.held = @ \cup {[purge |-> p, at |-> now]}]
  <2>1. source' = [attached |-> source.attached \ RangeOf[p],
                   registry |-> source.registry,
                   held |-> source.held \cup {[purge |-> p, at |-> now]}]
    BY <1>1, <1>3 DEF Sound, IsSource
  <2>2. IsSource(source') /\ EntriesProved(source') /\ EntriesApart(source')
    BY <1>1, <2>1 DEF Sound, IsSource, EntriesProved, EntriesApart
  <2>3. HeldByPurges(source')
    BY <1>1, <2>1 DEF Sound, HeldByPurges
  <2>4. EveryOrdinal(source')
    <3> SUFFICES ASSUME NEW x \in Domain
                 PROVE  \/ x \in source'.attached
                        \/ \E h \in source'.held : x \in RangeOf[h.purge]
                        \/ \E e \in source'.registry : x \in e.range
      BY DEF EveryOrdinal
    <3>1. CASE x \in RangeOf[p]
      <4>1. [purge |-> p, at |-> now] \in source'.held
        BY <2>1
      <4> QED
        BY <3>1, <4>1
    <3>2. CASE x \notin RangeOf[p]
      BY <1>1, <2>1, <3>2 DEF Sound, EveryOrdinal
    <3> QED
      BY <3>1, <3>2
  <2> QED
    BY <2>2, <2>3, <2>4 DEF Sound
<1> QED
  BY <1>2, <1>3 DEF Detach

\* A partition comes back, and its entry is withdrawn in the same step.
LEMMA SoundReattach ==
    ASSUME IInv, NEW p \in Purges, Reattach(p), TieringAssumption
    PROVE  Sound(source')
<1>1. Sound(source)
  BY DEF IInv
<1>2. PICK h \in HeldFor(p) : source' = Reattached(h)
  BY DEF Reattach
<1>3. h.purge = p /\ h \in source.held
  BY DEF HeldFor
<1>4. source' = [attached |-> source.attached \cup RangeOf[p],
                 registry |-> {e \in source.registry : e.range # RangeOf[p]},
                 held |-> source.held \ {h}]
  BY <1>2, <1>3 DEF Reattached, Claims
<1>5. IsSource(source')
  BY <1>1, <1>4 DEF Sound, IsSource, TieringAssumption
<1>6. EntriesProved(source') /\ EntriesApart(source') /\ HeldByPurges(source')
  BY <1>1, <1>4 DEF Sound, EntriesProved, EntriesApart, HeldByPurges
<1>7. EveryOrdinal(source')
  BY <1>1, <1>3, <1>4 DEF Sound, EveryOrdinal
<1> QED
  BY <1>5, <1>6, <1>7 DEF Sound

\* What is released was claimed by an entry of the very range it held.
LEMMA SoundReap ==
    ASSUME IInv, Reap
    PROVE  Sound(source')
<1>1. Sound(source)
  BY DEF IInv
<1>2. source' = [attached |-> source.attached, registry |-> source.registry,
                 held |-> source.held \ Released(source.held)]
  BY <1>1 DEF Sound, IsSource, Reap
<1>3. IsSource(source') /\ EntriesProved(source') /\ EntriesApart(source') /\ HeldByPurges(source')
  BY <1>1, <1>2 DEF Sound, IsSource, EntriesProved, EntriesApart, HeldByPurges
<1>4. EveryOrdinal(source')
  <2> SUFFICES ASSUME NEW x \in Domain, NEW h \in Released(source.held), x \in RangeOf[h.purge]
               PROVE  \E e \in source.registry : x \in e.range
    BY <1>1, <1>2 DEF Sound, EveryOrdinal
  <2>1. PICK e \in source.registry : e.range = RangeOf[h.purge]
    BY DEF Released, Claims
  <2> QED
    BY <2>1
<1> QED
  BY <1>3, <1>4 DEF Sound

\* Every step leaves the source sound, by what is proved so far.
LEMMA SourceKept ==
    ASSUME IInv, [Next]_vars, TieringAssumption
    PROVE  Sound(source')
<1>1. Sound(source) /\ Sound(backup)
  BY DEF IInv
<1>2. ASSUME NEW p \in Purges, Act(p) PROVE Sound(source')
  <2>1. acting[p] # None
    BY <1>2 DEF Act
  <2>2. CASE acting[p] = "marked"
    BY <1>2, <2>1, <2>2, SoundMark DEF Act
  <2>3. CASE acting[p] = "detached"
    BY <1>2, <2>3, SoundDetach DEF Act
  <2>4. CASE acting[p] \notin {"marked", "detached"}
    BY <1>1, <1>2, <2>4 DEF Act
  <2> QED
    BY <2>2, <2>3, <2>4
<1>3. ASSUME NEW p \in Purges, Reattach(p) PROVE Sound(source')
  BY <1>3, SoundReattach
<1>4. CASE Reap
  BY <1>4, SoundReap
<1>5. CASE Restore
  BY <1>1, <1>5 DEF Restore
<1>6. ASSUME NEW p \in Purges,
             Begin(p) \/ Copy(p) \/ Verified(p) \/ Entering(p) \/ Rewrite(p) \/ Resume(p)
      PROVE  source' = source
  BY <1>6 DEF Begin, Copy, Verified, Entering, Transition, Rewrite, Resume
<1>7. ASSUME Crash \/ Tick \/ Switch \/ BackUp \/ UNCHANGED vars PROVE source' = source
  BY <1>7 DEF Crash, Tick, Switch, BackUp, vars
<1> QED
  BY <1>1, <1>2, <1>3, <1>4, <1>5, <1>6, <1>7 DEF Next

LEMMA BackupKept ==
    ASSUME [Next]_vars
    PROVE  backup' \in {source, backup}
<1>1. CASE BackUp
  BY <1>1 DEF BackUp
<1>2. ASSUME NEW p \in Purges,
             \/ Begin(p) \/ Copy(p) \/ Verified(p) \/ Entering(p) \/ Rewrite(p)
             \/ Resume(p) \/ Act(p) \/ Reattach(p)
      PROVE  backup' = backup
  BY <1>2 DEF Begin, Copy, Verified, Entering, Transition, Rewrite, Resume, Act, Reattach
<1>3. ASSUME Crash \/ Reap \/ Tick \/ Switch \/ Restore \/ UNCHANGED vars PROVE backup' = backup
  BY <1>3 DEF Crash, Reap, Tick, Switch, Restore, vars
<1> QED
  BY <1>1, <1>2, <1>3 DEF Next

LEMMA StepIInv == TieringAssumption /\ IInv /\ [Next]_vars => IInv'
<1> SUFFICES ASSUME TieringAssumption, IInv, [Next]_vars PROVE IInv'
  OBVIOUS
<1>1. \A p \in Purges : copy[p] = "faithful" => copy'[p] = "faithful"
  BY ProofsKept
<1>2. Sound(source)'
  BY <1>1, SourceKept
     DEF Sound, IsSource, EntriesProved, EntriesApart, HeldByPurges, EveryOrdinal
<1>3. Sound(backup)'
  <2>1. backup' \in {source, backup} /\ Sound(source) /\ Sound(backup)
    BY BackupKept DEF IInv
  <2> QED
    BY <1>1, <2>1 DEF Sound, IsSource, EntriesProved, EntriesApart, HeldByPurges, EveryOrdinal
<1> QED
  BY <1>2, <1>3, ShapesKept, JournalKept DEF IInv

\* What the invariant is for: every ordinal is somewhere, and an archive a query
\* would read is one that was proved, and the only one.
LEMMA IInvSuffices == IInv => NothingLost /\ ReadsAreTrue
<1> SUFFICES ASSUME IInv PROVE NothingLost /\ ReadsAreTrue
  OBVIOUS
<1>1. EntriesProved(source) /\ EntriesApart(source) /\ EveryOrdinal(source)
  BY DEF IInv, Sound
<1>2. NothingLost
  BY <1>1 DEF NothingLost, EntriesProved, EveryOrdinal
<1>3. ASSUME NEW x \in Domain, Read(x) = "archive"
      PROVE  \E e \in source.registry : Covering(x) = {e} /\ copy[e.purge] = "faithful"
  <2>1. PICK e \in source.registry : e \in Covering(x)
    BY <1>3 DEF Read, Covering
  <2>2. \A f \in Covering(x) : f = e
    BY <1>1, <2>1 DEF EntriesApart, Covering
  <2> QED
    BY <1>1, <2>1, <2>2 DEF EntriesProved
<1> QED
  BY <1>2, <1>3 DEF ReadsAreTrue

LEMMA Inductive == Spec => []IInv
<1>1. Init => IInv
  BY InitIInv, TieringAssumption
<1>2. IInv /\ [Next]_vars => IInv'
  BY StepIInv, TieringAssumption
<1> QED
  BY <1>1, <1>2, PTL DEF Spec

-----------------------------------------------------------------------------
(* The machine: its journal replays to the beginning of the phases, and a  *)
(* purge acts only while it is in memory.                                  *)

Resumable == \A p \in Purges : Replayed(journal[p]) \in Begun

ActsInMemory == \A p \in Purges : entered[p] = <<>> => acting[p] = None

Machine == TypeOK /\ Resumable /\ ActsInMemory /\ JournalLeads

LEMMA NoneIsNoPhase == None \notin PhaseNames
BY DEF None, PhaseNames, Phases

LEMMA BegunTrace ==
    ASSUME NEW trace \in Begun
    PROVE  /\ trace # <<>> /\ trace \in Traces
           /\ \E n \in 1 .. 7 : trace = SubSeq(Phases, 1, n) /\ Last(trace) = Phases[n]
           /\ Last(trace) \in PhaseNames
<1>1. PICK n \in 1 .. 7 : trace = SubSeq(Phases, 1, n)
  BY DEF Begun
<1> QED
  BY <1>1, BegunIsTrace, PhasesInOrder DEF PhaseNames

LEMMA RequiredOnce ==
    ASSUME NEW n \in 1 .. 7, NEW next \in PhaseNames, Requires(next) = Phases[n]
    PROVE  n < 7 /\ next = Phases[n + 1] /\ Phases[n] # next
<1>1. PICK m \in 1 .. 7 : next = Phases[m]
  BY DEF PhaseNames
<1>2. m # 1 /\ n = m - 1
  BY <1>1 DEF Requires, Phases, None
<1> QED
  BY <1>1, <1>2 DEF Phases

\* A phase that follows is entered at the end of the trace.
LEMMA ReplayNext ==
    ASSUME NEW trace \in Begun, NEW next \in PhaseNames, Requires(next) = Last(trace)
    PROVE  Replay(trace, next) \in Begun /\ Replay(trace, next) = Entered(trace, next)
<1>1. PICK n \in 1 .. 7 : trace = SubSeq(Phases, 1, n) /\ Last(trace) = Phases[n]
  BY BegunTrace
<1>2. n < 7 /\ next = Phases[n + 1] /\ Last(trace) # next
  BY <1>1, RequiredOnce
<1>3. Append(trace, next) = SubSeq(Phases, 1, n + 1) /\ n + 1 \in 1 .. 7
  BY <1>1, <1>2, PhasesInOrder
<1>4. Replay(trace, next) = Append(trace, next)
  BY <1>2, BegunTrace DEF Replay
<1>5. Entered(trace, next) = Append(trace, next)
  BY <1>2 DEF Entered
<1>6. Append(trace, next) \in Begun
  BY <1>3 DEF Begun
<1> QED
  BY <1>4, <1>5, <1>6

\* A phase the trace ends with changes nothing.
LEMMA ReplayAgain ==
    ASSUME NEW trace \in Begun
    PROVE  Replay(trace, Last(trace)) = trace /\ Entered(trace, Last(trace)) = trace
BY BegunTrace DEF Replay, Entered

\* Once a phase has been entered the trace ends with it.
LEMMA EnteredIsLast ==
    ASSUME NEW trace \in Traces, NEW phase \in PhaseNames
    PROVE  Last(Entered(trace, phase)) = phase
<1>1. trace \in Seq(PhaseNames)
  <2>1. CASE trace = <<>>
    BY <2>1
  <2>2. ASSUME NEW n \in 1 .. 7, trace = SubSeq(Phases, 1, n) PROVE trace \in Seq(PhaseNames)
    <3>1. Phases \in Seq(PhaseNames) /\ Len(Phases) = 7
      BY PhasesTyped
    <3> QED
      BY <2>2, <3>1
  <2> QED
    BY <2>1, <2>2, BegunIsTrace DEF Begun
<1>2. CASE Last(trace) = phase
  BY <1>2 DEF Entered
<1>3. CASE Last(trace) # phase
  <2> DEFINE longer == Append(trace, phase)
  <2>1. longer[Len(longer)] = phase
    BY <1>1
  <2> QED
    BY <1>3, <2>1 DEF Entered, Last
<1> QED
  BY <1>2, <1>3

LEMMA EmptyTrace == <<>> \in Traces
<1>1. SubSeq(Phases, 1, 0) = <<>>
  BY DEF Phases
<1> QED
  BY <1>1 DEF Traces

LEMMA InitMachine == TieringAssumption /\ Init => Machine
<1> SUFFICES ASSUME TieringAssumption, Init PROVE Machine
  OBVIOUS
<1>1. \A p \in Purges : Replayed(journal[p]) = Plan
  BY ReplayedNothing DEF Init
<1>2. Plan \in Begun
  <2>1. Phases[1] = "planned"
    BY DEF Phases
  <2>2. SubSeq(Phases, 1, 1) = [i \in 1 .. 1 |-> Phases[i]]
    BY PhasesTyped
  <2>3. Plan = [i \in 1 .. 1 |-> "planned"]
    BY DEF Plan
  <2>4. SubSeq(Phases, 1, 1) = Plan
    BY <2>1, <2>2, <2>3
  <2> QED
    BY <2>4 DEF Begun
<1>3. Resumable /\ ActsInMemory
  BY <1>1, <1>2 DEF Init, Resumable, ActsInMemory
<1>4. JournalLeads
  <2>1. Plan # <<>>
    BY <1>2, BegunTrace
  <2> QED
    BY <1>1, <2>1 DEF Init, JournalLeads
<1>5. <<>> \in Traces
  BY EmptyTrace
<1>6. source \in Sources
  BY DEF Init, Sources
<1>7. journal \in [Purges -> Seq(PhaseNames)]
  BY DEF Init
<1>8. TypeOK
  <2>1. entered \in [Purges -> Traces] /\ acting \in [Purges -> PhaseNames \cup {None}]
    BY <1>5 DEF Init
  <2>2. copy \in [Purges -> {"absent", "faithful", "flawed"}] /\ backup = source
    BY DEF Init
  <2>3. now = 0 /\ rewrites = 0 /\ crashes = 0 /\ killed \in BOOLEAN
    BY DEF Init
  <2>4. MaxTime \in Nat /\ MaxRewrites \in Nat /\ MaxCrashes \in Nat
    BY DEF TieringAssumption
  <2>5. now \in 0 .. MaxTime /\ rewrites \in 0 .. MaxRewrites /\ crashes \in 0 .. MaxCrashes
    BY <2>3, <2>4
  <2> QED
    BY <1>6, <1>7, <2>1, <2>2, <2>3, <2>5 DEF TypeOK
<1> QED
  BY <1>3, <1>4, <1>8 DEF Machine

\* A purge whose journal grew by a phase that follows, or repeats, what it was acting on.
LEMMA JournalGrows ==
    ASSUME Machine, NEW p \in Purges, NEW phase \in PhaseNames,
           entered[p] # <<>>,
           \/ acting[p] = None /\ Requires(phase) = Last(entered[p])
           \/ acting[p] = phase
    PROVE  /\ Replayed(Append(journal[p], phase)) \in Begun
           /\ Replayed(Append(journal[p], phase)) = Entered(entered[p], phase)
           /\ Append(journal[p], phase) \in Seq(PhaseNames)
<1>1. /\ journal[p] \in Seq(PhaseNames) /\ entered[p] \in Traces
      /\ Replayed(journal[p]) \in Begun
      /\ Replayed(journal[p]) = IF acting[p] = None THEN entered[p]
                                ELSE Entered(entered[p], acting[p])
  BY DEF Machine, TypeOK, Resumable, JournalLeads
<1>2. Replayed(Append(journal[p], phase)) = Replay(Replayed(journal[p]), phase)
  BY <1>1, ReplayedAppend
<1>3. Append(journal[p], phase) \in Seq(PhaseNames)
  BY <1>1
<1>4. CASE acting[p] = None /\ Requires(phase) = Last(entered[p])
  BY <1>1, <1>2, <1>3, <1>4, ReplayNext
<1>5. CASE acting[p] = phase
  <2>1. Replayed(journal[p]) = Entered(entered[p], phase)
    BY <1>1, <1>5, NoneIsNoPhase
  <2>2. Last(Replayed(journal[p])) = phase
    BY <1>1, <2>1, EnteredIsLast
  <2>3. Replay(Replayed(journal[p]), phase) = Replayed(journal[p])
    BY <1>1, <2>2, ReplayAgain
  <2> QED
    BY <1>1, <1>2, <1>3, <2>1, <2>3
<1> QED
  BY <1>4, <1>5

\* What is written in the source is of its type.
LEMMA MachineSource ==
    ASSUME Machine, [Next]_vars, TieringAssumption
    PROVE  source' \in Sources /\ backup' \in Sources
<1>1. /\ source \in Sources /\ backup \in Sources /\ now \in 0 .. MaxTime
      /\ \A p \in Purges : RangeOf[p] \subseteq Domain
  BY DEF Machine, TypeOK, TieringAssumption
<1>2. /\ source = [attached |-> source.attached, registry |-> source.registry, held |-> source.held]
      /\ source.attached \subseteq Domain
      /\ source.registry \subseteq Entries /\ source.held \subseteq Held
  BY <1>1 DEF Sources
<1>3. \A a \in SUBSET Domain, r \in SUBSET Entries, h \in SUBSET Held :
          [attached |-> a, registry |-> r, held |-> h] \in Sources
  BY DEF Sources
<1>4. ASSUME NEW p \in Purges, Act(p) PROVE source' \in Sources
  <2>1. EntryOf(p) \in Entries /\ [purge |-> p, at |-> now] \in Held
    BY <1>1 DEF EntryOf, Entries, Held
  <2>2. CASE source' = source
    BY <1>1, <2>2
  <2>3. CASE source' = [source EXCEPT !.registry = @ \cup {EntryOf(p)}]
    <3>1. source' = [attached |-> source.attached,
                     registry |-> source.registry \cup {EntryOf(p)}, held |-> source.held]
      BY <1>2, <2>3
    <3> QED
      BY <1>1, <1>2, <1>3, <2>1, <3>1
  <2>4. CASE source' = [source EXCEPT !.attached = @ \ RangeOf[p],
                                      !.held = @ \cup {[purge |-> p, at |-> now]}]
    <3>1. source' = [attached |-> source.attached \ RangeOf[p], registry |-> source.registry,
                     held |-> source.held \cup {[purge |-> p, at |-> now]}]
      BY <1>2, <2>4
    <3> QED
      BY <1>1, <1>2, <1>3, <2>1, <3>1
  <2>5. acting[p] \notin {"marked", "detached"} => source' = source
    BY <1>4 DEF Act
  <2>6. acting[p] = "marked" => Mark(p)
    BY <1>4 DEF Act
  <2>7. acting[p] = "detached" => Detach(p)
    BY <1>4 DEF Act
  <2> QED
    BY <2>2, <2>3, <2>4, <2>5, <2>6, <2>7 DEF Mark, Detach
<1>5. ASSUME NEW p \in Purges, Reattach(p) PROVE source' \in Sources
  <2>1. PICK h \in HeldFor(p) : source' = Reattached(h)
    BY <1>5 DEF Reattach
  <2>2. h.purge = p
    BY DEF HeldFor
  <2> QED
    BY <1>1, <1>2, <1>3, <2>1, <2>2 DEF Reattached
<1>6. ASSUME Reap PROVE source' \in Sources
  <2>1. source' = [source EXCEPT !.held = @ \ Released(source.held)]
    BY <1>6 DEF Reap
  <2>2. source' = [attached |-> source.attached, registry |-> source.registry,
                   held |-> source.held \ Released(source.held)]
    BY <1>2, <2>1
  <2> QED
    BY <1>2, <1>3, <2>2
<1>7. ASSUME NEW p \in Purges,
             Begin(p) \/ Copy(p) \/ Verified(p) \/ Entering(p) \/ Rewrite(p) \/ Resume(p)
      PROVE  source' = source
  BY <1>7 DEF Begin, Copy, Verified, Entering, Transition, Rewrite, Resume
<1>8. ASSUME Crash \/ Tick \/ Switch \/ BackUp \/ UNCHANGED vars PROVE source' = source
  BY <1>8 DEF Crash, Tick, Switch, BackUp, vars
<1>9. Restore => source' = backup
  BY DEF Restore
<1>10. backup' \in {source, backup}
  BY BackupKept
<1> QED
  BY <1>1, <1>4, <1>5, <1>6, <1>7, <1>8, <1>9, <1>10 DEF Next

\* What the world and the table do leaves the type of the rest.
LEMMA MachineCounters ==
    ASSUME Machine, [Next]_vars, TieringAssumption
    PROVE  /\ copy' \in [Purges -> {"absent", "faithful", "flawed"}]
           /\ killed' \in BOOLEAN /\ now' \in 0 .. MaxTime
           /\ rewrites' \in 0 .. MaxRewrites /\ crashes' \in 0 .. MaxCrashes
<1>1. /\ copy \in [Purges -> {"absent", "faithful", "flawed"}]
      /\ killed \in BOOLEAN /\ now \in 0 .. MaxTime
      /\ rewrites \in 0 .. MaxRewrites /\ crashes \in 0 .. MaxCrashes
      /\ MaxTime \in Nat /\ MaxRewrites \in Nat /\ MaxCrashes \in Nat
  BY DEF Machine, TypeOK, TieringAssumption
<1>2. ASSUME NEW p \in Purges, Copy(p) PROVE copy' \in [Purges -> {"absent", "faithful", "flawed"}]
  BY <1>1, <1>2 DEF Copy
<1>3. ASSUME NEW p \in Purges,
             \/ Begin(p) \/ Verified(p) \/ Entering(p) \/ Resume(p) \/ Act(p) \/ Reattach(p)
      PROVE  UNCHANGED <<copy, faults>>
  BY <1>3 DEF Begin, Verified, Entering, Transition, Resume, Act, Reattach
<1>4. ASSUME NEW p \in Purges, Copy(p) PROVE UNCHANGED faults
  BY <1>4 DEF Copy
<1>5. ASSUME NEW p \in Purges, Rewrite(p)
      PROVE  rewrites' \in 0 .. MaxRewrites /\ UNCHANGED <<copy, killed, now, crashes>>
  BY <1>1, <1>5 DEF Rewrite
<1>6. CASE Crash \/ Restore
  BY <1>1, <1>6 DEF Crash, Restore
<1>7. CASE Tick
  BY <1>1, <1>7 DEF Tick
<1>8. CASE Switch
  BY <1>1, <1>8 DEF Switch
<1>9. ASSUME Reap \/ BackUp \/ UNCHANGED vars PROVE UNCHANGED <<copy, faults>>
  BY <1>9 DEF Reap, BackUp, vars, faults
<1> QED
  BY <1>1, <1>2, <1>3, <1>4, <1>5, <1>6, <1>7, <1>8, <1>9 DEF Next, faults

\* The purge in memory and its journal.
MachineOf(p) ==
    /\ journal[p] \in Seq(PhaseNames) /\ entered[p] \in Traces
    /\ acting[p] \in PhaseNames \cup {None}
    /\ Replayed(journal[p]) \in Begun
    /\ entered[p] = <<>> => acting[p] = None
    /\ entered[p] # <<>> => Replayed(journal[p]) =
           IF acting[p] = None THEN entered[p] ELSE Entered(entered[p], acting[p])

LEMMA MachineOfEach ==
    ASSUME Machine
    PROVE  /\ DOMAIN journal = Purges /\ DOMAIN entered = Purges /\ DOMAIN acting = Purges
           /\ journal = [q \in Purges |-> journal[q]]
           /\ entered = [q \in Purges |-> entered[q]]
           /\ acting = [q \in Purges |-> acting[q]]
           /\ \A p \in Purges : MachineOf(p)
BY DEF Machine, TypeOK, Resumable, ActsInMemory, JournalLeads, MachineOf

\* Each step, over the purge it is a step of; the others are as they were.
LEMMA MachineOfKept ==
    ASSUME Machine, [Next]_vars, NEW q \in Purges
    PROVE  MachineOf(q)'
<1>1. /\ DOMAIN journal = Purges /\ DOMAIN entered = Purges /\ DOMAIN acting = Purges
      /\ MachineOf(q)
  BY MachineOfEach
<1>2. ASSUME journal'[q] = journal[q], entered'[q] = entered[q], acting'[q] = acting[q]
      PROVE  MachineOf(q)'
  BY <1>1, <1>2 DEF MachineOf
<1>3. ASSUME NEW p \in Purges, Begin(p) PROVE MachineOf(q)'
  <2>1. CASE p = q
    <3>1. /\ entered'[q] = Plan /\ journal'[q] = <<>> /\ acting'[q] = None
      BY <1>1, <1>3, <2>1 DEF Begin, MachineOf, Plan
    <3>2. Replayed(<<>>) = Plan /\ Plan \in Begun
      BY <1>1, <1>3, <2>1, ReplayedNothing DEF Begin, MachineOf
    <3>3. <<>> \in Seq(PhaseNames) /\ Plan \in Traces /\ Plan # <<>>
      BY <3>2, BegunTrace
    <3> QED
      BY <3>1, <3>2, <3>3 DEF MachineOf
  <2>2. CASE p # q
    BY <1>1, <1>2, <1>3, <2>2 DEF Begin
  <2> QED
    BY <2>1, <2>2
<1>4. ASSUME NEW p \in Purges, NEW next \in PhaseNames, Transition(p, next) PROVE MachineOf(q)'
  <2>1. CASE p = q
    <3>1. /\ journal'[q] = Append(journal[q], next) /\ acting'[q] = next
          /\ entered'[q] = entered[q] /\ entered[q] # <<>>
          /\ acting[q] = None /\ Requires(next) = Last(entered[q])
      BY <1>1, <1>4, <2>1 DEF Transition
    <3>2. /\ Replayed(journal'[q]) \in Begun
          /\ Replayed(journal'[q]) = Entered(entered[q], next)
          /\ journal'[q] \in Seq(PhaseNames)
      BY <3>1, JournalGrows
    <3> QED
      BY <1>1, <3>1, <3>2, NoneIsNoPhase DEF MachineOf
  <2>2. CASE p # q
    BY <1>1, <1>2, <1>4, <2>2 DEF Transition
  <2> QED
    BY <2>1, <2>2
<1>5. ASSUME NEW p \in Purges, Rewrite(p) PROVE MachineOf(q)'
  <2>1. CASE p = q
    <3>1. /\ journal'[q] = Append(journal[q], acting[q]) /\ acting'[q] = acting[q]
          /\ entered'[q] = entered[q] /\ acting[q] # None
      BY <1>1, <1>5, <2>1 DEF Rewrite, memory
    <3>2. acting[q] \in PhaseNames /\ entered[q] # <<>>
      BY <1>1, <3>1 DEF MachineOf
    <3>3. /\ Replayed(journal'[q]) \in Begun
          /\ Replayed(journal'[q]) = Entered(entered[q], acting[q])
          /\ journal'[q] \in Seq(PhaseNames)
      BY <3>1, <3>2, JournalGrows
    <3> QED
      BY <1>1, <3>1, <3>2, <3>3 DEF MachineOf
  <2>2. CASE p # q
    BY <1>1, <1>2, <1>5, <2>2 DEF Rewrite, memory
  <2> QED
    BY <2>1, <2>2
<1>6. ASSUME NEW p \in Purges, Resume(p) PROVE MachineOf(q)'
  <2>1. CASE p = q
    <3> DEFINE r == Replayed(journal[q])
    <3>1. journal'[q] = journal[q] /\ entered'[q] = r /\ acting'[q] = Last(r)
      BY <1>1, <1>6, <2>1 DEF Resume
    <3>2. r \in Begun /\ journal[q] \in Seq(PhaseNames)
      BY <1>1 DEF MachineOf
    <3>3. r \in Traces /\ r # <<>> /\ Last(r) \in PhaseNames /\ Entered(r, Last(r)) = r
      BY <3>2, BegunTrace, ReplayAgain
    <3>4. Replayed(journal'[q]) = r
      BY <3>1
    <3> HIDE DEF r
    <3> QED
      BY <3>1, <3>2, <3>3, <3>4, NoneIsNoPhase DEF MachineOf
  <2>2. CASE p # q
    BY <1>1, <1>2, <1>6, <2>2 DEF Resume
  <2> QED
    BY <2>1, <2>2
<1>7. ASSUME NEW p \in Purges, Act(p) PROVE MachineOf(q)'
  <2>0. /\ UNCHANGED journal /\ acting[p] # None
        /\ entered' = [entered EXCEPT ![p] = Entered(@, acting[p])]
        /\ acting' = [acting EXCEPT ![p] = None]
    BY <1>7 DEF Act
  <2>1. CASE p = q
    <3>1. /\ journal'[q] = journal[q] /\ acting'[q] = None /\ acting[q] # None
          /\ entered'[q] = Entered(entered[q], acting[q])
      BY <1>1, <2>0, <2>1
    <3>2. entered'[q] = Replayed(journal[q]) /\ Replayed(journal[q]) \in Begun
      BY <1>1, <3>1 DEF MachineOf
    <3>3. entered'[q] \in Traces /\ entered'[q] # <<>>
      BY <3>2, BegunTrace
    <3> QED
      BY <1>1, <3>1, <3>2, <3>3 DEF MachineOf
  <2>2. CASE p # q
    BY <1>1, <1>2, <2>0, <2>2
  <2> QED
    BY <2>1, <2>2
<1>8. CASE Crash \/ Restore
  <2>1. journal'[q] = journal[q] /\ entered'[q] = <<>> /\ acting'[q] = None
    BY <1>8 DEF Crash, Restore
  <2>2. <<>> \in Traces
    BY EmptyTrace
  <2> QED
    BY <1>1, <2>1, <2>2 DEF MachineOf
<1>9. ASSUME \/ \E p \in Purges : Copy(p) \/ Reattach(p)
             \/ Reap \/ Tick \/ Switch \/ BackUp \/ UNCHANGED vars
      PROVE  MachineOf(q)'
  <2>1. UNCHANGED <<journal, entered, acting>>
    BY <1>9 DEF Copy, Reattach, Reap, Tick, Switch, BackUp, vars, memory
  <2> QED
    BY <1>2, <2>1
<1>10. ASSUME NEW p \in Purges, Verified(p) \/ Entering(p) PROVE MachineOf(q)'
  <2>1. "verified" \in PhaseNames
    BY DEF PhaseNames, Phases
  <2> QED
    BY <1>4, <1>10, <2>1 DEF Verified, Entering
<1> QED
  BY <1>3, <1>5, <1>6, <1>7, <1>8, <1>9, <1>10 DEF Next

LEMMA MachineShapes ==
    ASSUME Machine, [Next]_vars
    PROVE  /\ journal' = [q \in Purges |-> journal'[q]]
           /\ entered' = [q \in Purges |-> entered'[q]]
           /\ acting' = [q \in Purges |-> acting'[q]]
<1>1. /\ journal = [q \in Purges |-> journal[q]]
      /\ entered = [q \in Purges |-> entered[q]]
      /\ acting = [q \in Purges |-> acting[q]]
  BY MachineOfEach
<1>2. ASSUME NEW p \in Purges, Begin(p) \/ Copy(p) \/ Rewrite(p) \/ Resume(p) \/ Reattach(p)
      PROVE  \E j, e, a : /\ journal' \in {journal, [journal EXCEPT ![p] = j]}
                         /\ entered' \in {entered, [entered EXCEPT ![p] = e]}
                         /\ acting' \in {acting, [acting EXCEPT ![p] = a]}
  BY <1>2 DEF Begin, Copy, Rewrite, Resume, Reattach, memory
<1>3. ASSUME NEW p \in Purges, Verified(p) \/ Entering(p) \/ Act(p)
      PROVE  \E j, e, a : /\ journal' \in {journal, [journal EXCEPT ![p] = j]}
                         /\ entered' \in {entered, [entered EXCEPT ![p] = e]}
                         /\ acting' \in {acting, [acting EXCEPT ![p] = a]}
  BY <1>3 DEF Verified, Entering, Transition, Act
<1>4. ASSUME Crash \/ Restore
      PROVE  /\ journal' = journal
             /\ entered' = [q \in Purges |-> <<>>] /\ acting' = [q \in Purges |-> None]
  BY <1>4 DEF Crash, Restore
<1>5. ASSUME Reap \/ Tick \/ Switch \/ BackUp \/ UNCHANGED vars
      PROVE  UNCHANGED <<journal, entered, acting>>
  BY <1>5 DEF Reap, Tick, Switch, BackUp, vars, memory
<1> QED
  BY <1>1, <1>2, <1>3, <1>4, <1>5 DEF Next

LEMMA StepMachine == TieringAssumption /\ Machine /\ [Next]_vars => Machine'
<1> SUFFICES ASSUME TieringAssumption, Machine, [Next]_vars PROVE Machine'
  OBVIOUS
<1>1. \A p \in Purges : MachineOf(p)'
  BY MachineOfKept
<1>2. /\ journal' \in [Purges -> Seq(PhaseNames)]
      /\ entered' \in [Purges -> Traces]
      /\ acting' \in [Purges -> PhaseNames \cup {None}]
  BY <1>1, MachineShapes DEF MachineOf
<1>3. TypeOK'
  BY <1>2, MachineSource, MachineCounters DEF TypeOK
<1>4. Resumable' /\ ActsInMemory'
  BY <1>1 DEF MachineOf, Resumable, ActsInMemory
<1>5. \A p \in Purges : Replayed(journal'[p]) # <<>>
  BY <1>1, BegunTrace DEF MachineOf
<1>6. JournalLeads'
  BY <1>1, <1>5 DEF MachineOf, JournalLeads
<1> QED
  BY <1>3, <1>4, <1>6 DEF Machine

LEMMA MachineAlways == Spec => []Machine
<1>1. Init => Machine
  BY InitMachine, TieringAssumption
<1>2. Machine /\ [Next]_vars => Machine'
  BY StepMachine, TieringAssumption
<1> QED
  BY <1>1, <1>2, PTL DEF Spec

\* The types of tiering, with the phases a purge has entered always the first of the
\* phases.  machine.rs, registry.rs, quarantine.rs.
THEOREM TypesHold == Spec => []TypeOK
<1>1. Machine => TypeOK
  BY DEF Machine
<1> QED
  BY <1>1, MachineAlways, PTL

\* However often a process crashes and an entry is written twice, resume takes the
\* journal, and finds in it what the purge had entered with the phase it was acting on.
\* machine.rs, transition and resume.
THEOREM JournalIsAhead == Spec => []JournalLeads
<1>1. Machine => JournalLeads
  BY DEF Machine
<1> QED
  BY <1>1, MachineAlways, PTL

\* The data is never lost, through any crash, any rewritten journal and any restore of
\* the source: an ordinal is in the live table, in quarantine, or in an archive that a
\* comparison proved.  machine.rs, quarantine.rs, registry.rs.
THEOREM NothingIsLost == Spec => []NothingLost
BY Inductive, IInvSuffices, PTL

\* A query reads an ordinal from one archive at most, and only from one that was
\* proved to hold it.  unify.rs, plan.
THEOREM ReadsTrue == Spec => []ReadsAreTrue
BY Inductive, IInvSuffices, PTL
=============================================================================
