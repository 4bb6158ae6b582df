---------------------------- MODULE IntakeProofs ----------------------------
(***************************************************************************)
(* The two ways in which rows enter a table, a feed and a capture: neither *)
(* writes a row twice, and neither loses one without a record.             *)
(*                                                                         *)
(* A feed over any number of sources of any length, under any number of    *)
(* crashes and of commits that fail or are made and reported as failed:    *)
(* its rows and its position never disagree.  Sources are delivered in     *)
(* name order, so that the feed is never part-way through a source with an *)
(* earlier one unread (Frontier).  A commit therefore covers exactly the   *)
(* lines it publishes, and disturbs what is covered of no other source     *)
(* (CommitCovers).  Both assumptions about the surroundings are in         *)
(* Survivable; NeverReingested fails without either of them.               *)
(*                                                                         *)
(* A capture of any tables, over any stream, with any restarts: its tables *)
(* keep the promise of ExactlyOnce.  What arrives inside a block is of the *)
(* transaction every batcher was last told of (KnowsItsBlock), so a row    *)
(* waits with its own transaction until that ends (RowsWait) and, once it  *)
(* is committed, is sealed, in the log, or known to be given up            *)
(* (ChangesKept).  What is sealed past the floor of a table is past the    *)
(* position of its log, although the two differ after an append that was   *)
(* made and reported as failed (BatchersTrue).  Each append thus takes its *)
(* table from where the one before it ended (AppendsTrue), and as a        *)
(* transaction commits at one position, no two appends hold parts of one.  *)
(***************************************************************************)
EXTENDS Feed, Capture, TLAPS, SequenceTheorems, FiniteSetTheorems, WellFoundedInduction

-----------------------------------------------------------------------------
(* The feed.                                                               *)

Survivable == Faults \subseteq { "crash", "publish" }

-----------------------------------------------------------------------------
(* The inductive invariant.                                                *)

Lines == 1..MaxLines

TextFits == \A s \in Sources : Len(text[s]) <= MaxLines

(* Every source before the one part-way read is behind the mark, and both  *)
(* are sources that were delivered.                                        *)
Frontier ==
  /\ recorded.through # 0 => recorded.through \in spool
  /\ recorded.partial # 0 =>
       /\ recorded.partial \in spool
       /\ recorded.partial > recorded.through
       /\ recorded.lines <= Len(text[recorded.partial])
       /\ \A s \in spool : s < recorded.partial => s <= recorded.through

(* A run's copy of the position is the one in the table, and it takes up   *)
(* sources in order, leaving none behind that is not finished.             *)
Running ==
  pc # "idle" =>
    /\ held = recorded
    /\ todo \subseteq spool
    /\ \A t \in todo, s \in spool :
         s < t => \/ s \in todo
                  \/ s <= recorded.through
                  \/ pc # "listing" /\ s = source

Reading == pc \in { "reading", "closing", "ending" }
Leaving == pc \in { "refusing", "deciding" }

InSource ==
  Reading \/ Leaving =>
    /\ source \in spool
    /\ \A s \in spool : s < source => s <= recorded.through

(* What the run holds is what it read since the last commit, and what it   *)
(* read beyond read_through is blank.                                      *)
InHandIsUnread ==
  Reading =>
    /\ Standing(recorded, source) # "done"
    /\ Skipped(recorded, source) <= through
    /\ next <= Len(text[source])
    /\ \A k \in Lines :
         k \in fitted <=> Skipped(recorded, source) < k /\ k <= through /\ Good(source, k)
    /\ \A k \in Lines :
         Skipped(recorded, source) < k /\ k <= through /\ Bad(source, k) => k \in refused
    /\ \A k \in (through + 1)..next : text[source][k] = "blank"
    /\ pc = "reading" => ~stopped
    /\ pc = "ending" => stopped

(* Once a source is committed to its end, the mark has it, unless the feed *)
(* stopped there; either way what was refused is behind the position.      *)
LeftBehind ==
  /\ Leaving =>
       /\ ~stopped => source <= recorded.through
       /\ \A k \in refused : Covered(recorded, source, k)
  /\ pc \in { "idle", "listing", "deciding" } => refused = {}

(* A record is in the table exactly if it fits and is covered.             *)
RowsFollow ==
  \A s \in Sources, k \in Lines :
    landed[<< s, k >>] = IF s \in spool /\ Good(s, k) /\ Covered(recorded, s, k) THEN 1 ELSE 0

RefusalsFollow ==
  /\ \A s \in Sources, k \in Lines :
       kept[<< s, k >>] # 0 => s \in spool /\ Covered(recorded, s, k)
  /\ Reading \/ Leaving =>
       \A k \in refused : Bad(source, k) /\ kept[<< source, k >>] = 0
  /\ RefusalsAccountedFor

FeedInv ==
  /\ TypeOK
  /\ TextFits
  /\ Frontier
  /\ Running
  /\ InSource
  /\ InHandIsUnread
  /\ LeftBehind
  /\ RowsFollow
  /\ RefusalsFollow

-----------------------------------------------------------------------------
(* What a commit of the run does to the position.  The two it may make     *)
(* cover, of the lines that are not blank, what was covered before and     *)
(* what was read since; and the new position is a frontier as well.        *)

Commits(p) ==
  \/ p = PartWay(held, source, through)
  \/ /\ p = Finished(held, source)
     /\ through <= Len(text[source])
     /\ \A k \in (through + 1)..Len(text[source]) : text[source][k] = "blank"

LEMMA PartWayIs ==
  ASSUME NEW p \in Position, NEW s \in 0..NumSources, NEW n \in 0..MaxLines
  PROVE  /\ PartWay(p, s, n) \in Position
         /\ PartWay(p, s, n).through = p.through
         /\ PartWay(p, s, n).partial = s
         /\ PartWay(p, s, n).lines = n
<1>1. PartWay(p, s, n) \in Position
  BY DEF PartWay, Position
<1>2. /\ PartWay(p, s, n).through = p.through
      /\ PartWay(p, s, n).partial = s
      /\ PartWay(p, s, n).lines = n
  BY DEF PartWay, Position
<1> QED BY <1>1, <1>2

LEMMA FinishedIs ==
  ASSUME NEW p \in Position, NEW s \in 0..NumSources
  PROVE  /\ Finished(p, s) \in Position
         /\ Finished(p, s).through = IF s > p.through THEN s ELSE p.through
         /\ Finished(p, s).partial = 0
         /\ Finished(p, s).lines = 0
  BY FeedAssumption DEF Finished, Position

(* Where a run that is reading stands, as numbers.                         *)
LEMMA WhileReading ==
  ASSUME FeedInv, Reading
  PROVE  /\ source \in spool /\ source \in 1..NumSources
         /\ held = recorded /\ recorded \in Position
         /\ through \in 0..MaxLines
         /\ source > recorded.through
         /\ recorded.partial \in {0, source}
         /\ through <= Len(text[source]) /\ Len(text[source]) \in Nat
<1> USE FeedAssumption
<1>1. source \in spool /\ source \in 1..NumSources
  BY DEF FeedInv, TypeOK, Sources, InSource
<1>2. held = recorded /\ recorded \in Position
  BY DEF FeedInv, TypeOK, Running, Reading
<1>3. next \in 0..MaxLines /\ through \in 0..MaxLines
  BY DEF FeedInv, TypeOK
<1>4. recorded.through \in 0..NumSources /\ recorded.partial \in 0..NumSources
  BY <1>2 DEF Position
<1>5. source > recorded.through
  BY <1>1, <1>4 DEF FeedInv, InHandIsUnread, Standing, Frontier
<1>6. recorded.partial \in {0, source}
  <2>1. recorded.partial # 0 => recorded.partial > recorded.through
    BY DEF FeedInv, Frontier
  <2>2. recorded.partial # 0 /\ source < recorded.partial => source <= recorded.through
    BY <1>1 DEF FeedInv, Frontier
  <2>3. recorded.partial # 0 /\ recorded.partial < source
          => recorded.partial <= recorded.through
    BY DEF FeedInv, Frontier, InSource
  <2> QED BY <1>1, <1>4, <1>5, <2>1, <2>2, <2>3
<1>7. Len(text[source]) \in Nat
  BY <1>1 DEF FeedInv, TypeOK, Sources
<1>8. through <= Len(text[source])
  BY <1>3, <1>7 DEF FeedInv, TypeOK, InHandIsUnread
<1> QED BY <1>1, <1>2, <1>3, <1>5, <1>6, <1>7, <1>8

LEMMA MarkMoves ==
  ASSUME FeedInv, Reading, NEW p, Commits(p)
  PROVE  /\ p \in Position
         /\ \/ /\ p.partial = source
               /\ p.through = recorded.through
               /\ p.lines = through
            \/ /\ p.partial = 0
               /\ p.through = source
               /\ \A k \in (through + 1)..Len(text[source]) : text[source][k] = "blank"
<1>1. /\ held = recorded /\ held \in Position
      /\ source \in 0..NumSources /\ through \in 0..MaxLines
      /\ source > recorded.through
  BY WhileReading, FeedAssumption
<1>2. CASE p = PartWay(held, source, through)
  BY <1>1, <1>2, PartWayIs
<1>3. CASE /\ p = Finished(held, source)
           /\ \A k \in (through + 1)..Len(text[source]) : text[source][k] = "blank"
  BY <1>1, <1>3, FinishedIs
<1> QED BY <1>2, <1>3 DEF Commits

LEMMA CommitCovers ==
  ASSUME FeedInv, Reading, NEW p, Commits(p), NEW s \in spool, NEW k \in Lines
  PROVE  /\ Covered(recorded, s, k) => Covered(p, s, k)
         /\ Good(s, k) \/ Bad(s, k) =>
              (Covered(p, s, k) <=> Covered(recorded, s, k) \/ (s = source /\ k <= through))
<1>1. /\ source \in 1..NumSources /\ through \in 0..MaxLines
      /\ recorded \in Position /\ p \in Position
      /\ source > recorded.through /\ recorded.partial \in {0, source}
      /\ s \in 1..NumSources /\ k \in 1..MaxLines /\ NumSources \in Nat
  BY WhileReading, MarkMoves, FeedAssumption DEF FeedInv, TypeOK, Sources, Lines
<1>2. /\ recorded.lines \in Nat /\ recorded.through \in Nat
      /\ p.lines \in Nat /\ p.through \in Nat
  BY <1>1, FeedAssumption DEF Position
<1>3. CASE s < source
  <2>1. s <= recorded.through
    BY <1>3 DEF FeedInv, InSource
  <2> QED
    BY <1>1, <1>2, <1>3, <2>1, MarkMoves DEF Covered, Standing, Skipped
<1>4. CASE s > source
  BY <1>1, <1>2, <1>4, MarkMoves DEF Covered, Standing, Skipped
<1>5. CASE s = source
  <2>1. Skipped(recorded, source) <= through
    BY DEF FeedInv, InHandIsUnread
  <2>2. CASE /\ p.partial = source
             /\ p.through = recorded.through
             /\ p.lines = through
    BY <1>1, <1>2, <1>5, <2>1, <2>2 DEF Covered, Standing, Skipped
  <2>3. CASE /\ p.partial = 0
             /\ p.through = source
             /\ \A j \in (through + 1)..Len(text[source]) : text[source][j] = "blank"
    <3>1. Good(s, k) \/ Bad(s, k) => k <= through
      <4> SUFFICES ASSUME Good(s, k) \/ Bad(s, k), ~(k <= through) PROVE FALSE
        OBVIOUS
      <4>1. k \in 1..Len(text[source])
        BY <1>1, <1>5 DEF Good, Bad, FeedInv, TypeOK, Sources
      <4>2. k \in (through + 1)..Len(text[source])
        BY <1>1, <4>1, WhileReading
      <4> QED BY <1>5, <2>3, <4>2 DEF Good, Bad
    <3> QED BY <1>1, <1>2, <1>5, <2>3, <3>1 DEF Covered, Standing, Skipped
  <2> QED BY <2>2, <2>3, MarkMoves
<1> QED BY <1>1, <1>3, <1>4, <1>5

LEMMA CommitKeepsFrontier ==
  ASSUME FeedInv, Reading, NEW p, Commits(p), recorded' = p, UNCHANGED << spool, text >>
  PROVE  Frontier'
<1>1. /\ source \in spool /\ source \in 1..NumSources
      /\ source > recorded.through /\ through <= Len(text[source])
      /\ recorded.through \in 0..NumSources /\ spool \subseteq 1..NumSources
  BY WhileReading DEF Position, FeedInv, TypeOK, Sources
<1>2. \A s \in spool : s < source => s <= recorded.through
  BY DEF FeedInv, InSource
<1>3. recorded.through # 0 => recorded.through \in spool
  BY DEF FeedInv, Frontier
<1> QED BY <1>1, <1>2, <1>3, MarkMoves, FeedAssumption DEF Frontier

(* The source a run takes up next.                                         *)
LEMMA FirstIsFirst ==
  ASSUME todo \subseteq Sources, todo # {}
  PROVE  First \in todo /\ \A t \in todo : First <= t
<1> DEFINE R == OpToRel(<, Nat)
<1>1. IsWellFoundedOn(R, Nat)
  BY NatLessThanWellFounded, Zenon
<1>2. todo \subseteq Nat
  BY FeedAssumption DEF Sources
<1>3. \A x, y \in Nat : x < y => << x, y >> \in R
  BY DEF OpToRel
<1> HIDE DEF R
<1>4. PICK s \in todo : \A t \in todo : ~(<< t, s >> \in R)
  BY <1>1, <1>2, WFMin
<1>5. ASSUME NEW t \in todo PROVE s <= t
  <2>1. s \in Nat /\ t \in Nat
    BY <1>2
  <2>2. ~(t < s)
    BY <1>3, <1>4, <2>1
  <2> QED BY <2>1, <2>2
<1>6. \E m \in todo : \A t \in todo : m <= t
  BY <1>5
<1> QED BY <1>6, Zenon DEF First

-----------------------------------------------------------------------------
(* The invariant is inductive.                                             *)

LEMMA SlideIsAWindow ==
  ASSUME TypeOK, NEW fits \in BOOLEAN
  PROVE  Slide(fits) \in Seq(BOOLEAN) /\ Len(Slide(fits)) <= Window
<1> DEFINE longer == Append(recent, fits)
<1>1. recent \in Seq(BOOLEAN) /\ Len(recent) <= Window /\ Window \in Nat
  BY FeedAssumption DEF TypeOK
<1>2. longer \in Seq(BOOLEAN) /\ longer # << >> /\ Len(longer) = Len(recent) + 1
  BY <1>1, AppendProperties
<1>3. Tail(longer) \in Seq(BOOLEAN) /\ Len(Tail(longer)) = Len(longer) - 1
  BY <1>2, HeadTailProperties
<1>4. Len(recent) \in Nat
  BY <1>1, LenProperties
<1>5. Slide(fits) = IF Len(longer) > Window THEN Tail(longer) ELSE longer
  BY DEF Slide
<1> HIDE DEF longer
<1>6. CASE Len(longer) > Window
  <2>1. Slide(fits) = Tail(longer)
    BY <1>5, <1>6
  <2>2. Len(Tail(longer)) <= Window
    BY <1>1, <1>2, <1>3, <1>4
  <2> QED BY <1>3, <2>1, <2>2
<1>7. CASE ~(Len(longer) > Window)
  <2>1. Slide(fits) = longer
    BY <1>5, <1>7
  <2>2. Len(longer) <= Window
    BY <1>1, <1>2, <1>4, <1>7
  <2> QED BY <1>2, <2>1, <2>2
<1> QED BY <1>6, <1>7

LEMMA Initially == Init => FeedInv
<1> SUFFICES ASSUME Init PROVE FeedInv
  OBVIOUS
<1> USE FeedAssumption DEF Init, AtRest
<1>1. \A s \in Sources : text[s] \in Seq(Kinds) /\ Len(text[s]) <= MaxLines
  <2> SUFFICES ASSUME NEW s \in Sources
               PROVE  text[s] \in Seq(Kinds) /\ Len(text[s]) <= MaxLines
    OBVIOUS
  <2>1. PICK n \in 0..MaxLines : text[s] \in [1..n -> Kinds]
    OBVIOUS
  <2>2. text[s] \in Seq(Kinds)
    BY <2>1
  <2>3. Len(text[s]) = n
    BY <2>1, <2>2, LenProperties
  <2> QED BY <2>1, <2>2, <2>3
<1>2. text \in [Sources -> Seq(Kinds)]
  BY <1>1
<1>3. Default \in Position
  BY DEF Default, Position
<1>4. << >> \in Seq(BOOLEAN) /\ Len(<< >>) = 0
  BY EmptySeq
<1>5. TypeOK
  <2>1. landed \in [Records -> Nat] /\ kept \in [Records -> Nat]
    OBVIOUS
  <2>2. spool \subseteq Sources /\ todo \subseteq Sources /\ cut \subseteq Sources
    OBVIOUS
  <2>3. recent \in Seq(BOOLEAN) /\ Len(recent) <= Window
    BY <1>4
  <2>4. fitted \subseteq 1..through /\ refused \subseteq 1..through
    OBVIOUS
  <2>5. seen \subseteq BOOLEAN /\ stopped \in BOOLEAN /\ halted \in BOOLEAN
    OBVIOUS
  <2>6. source \in 0..NumSources /\ next \in 0..MaxLines /\ through \in 0..next
        /\ faults \in 0..MaxFaults
    OBVIOUS
  <2> QED
    BY <1>2, <1>3, <2>1, <2>2, <2>3, <2>4, <2>5, <2>6 DEF TypeOK
<1>6. TextFits
  BY <1>1 DEF TextFits
<1>7. Frontier
  BY DEF Frontier, Default
<1>8. RowsFollow /\ RefusalsFollow
  <2>1. \A s \in Sources, k \in Lines :
          landed[<< s, k >>] = 0 /\ kept[<< s, k >>] = 0
    BY DEF Records, Lines
  <2> QED
    BY <2>1 DEF RowsFollow, RefusalsFollow, RefusalsAccountedFor, Reading, Leaving
<1>9. Running /\ InSource /\ InHandIsUnread /\ LeftBehind
  BY DEF Running, InSource, InHandIsUnread, LeftBehind, Reading, Leaving
<1> QED BY <1>5, <1>6, <1>7, <1>8, <1>9 DEF FeedInv

(* The parts of TypeOK, each a step leaves alone as a whole or not.        *)
RunTyped ==
  /\ pc \in { "idle", "listing", "reading", "closing", "ending", "refusing", "deciding" }
  /\ todo \subseteq Sources
  /\ held \in Position
  /\ source \in 0..NumSources
  /\ next \in 0..MaxLines
  /\ through \in 0..next
  /\ fitted \subseteq 1..through
  /\ refused \subseteq 1..through

RateTyped ==
  /\ recent \in Seq(BOOLEAN) /\ Len(recent) <= Window
  /\ seen \subseteq BOOLEAN
  /\ stopped \in BOOLEAN

TableTyped ==
  /\ recorded \in Position
  /\ landed \in [Records -> Nat]
  /\ kept \in [Records -> Nat]

AroundTyped ==
  /\ spool \subseteq Sources
  /\ text \in [Sources -> Seq(Kinds)]
  /\ halted \in BOOLEAN
  /\ faults \in 0..MaxFaults
  /\ cut \subseteq Sources

LEMMA TypesApart ==
  /\ TypeOK <=> RunTyped /\ RateTyped /\ TableTyped /\ AroundTyped
  /\ TypeOK' <=> RunTyped' /\ RateTyped' /\ TableTyped' /\ AroundTyped'
  BY DEF TypeOK, RunTyped, RateTyped, TableTyped, AroundTyped

LEMMA SamePartsSameTypes ==
  /\ RateTyped /\ UNCHANGED rate => RateTyped'
  /\ TableTyped /\ UNCHANGED table => TableTyped'
  /\ AroundTyped /\ UNCHANGED << spool, text, halted, faults, cut >> => AroundTyped'
  BY DEF RateTyped, rate, TableTyped, table, AroundTyped

LEMMA ForgetIsTyped == Forget => RunTyped' /\ RateTyped'
<1> SUFFICES ASSUME Forget PROVE RunTyped' /\ RateTyped'
  OBVIOUS
<1>1. Default \in Position
  BY FeedAssumption DEF Default, Position
<1>2. << >> \in Seq(BOOLEAN) /\ Len(<< >>) = 0
  BY EmptySeq
<1>3. RateTyped'
  <2>1. recent' \in Seq(BOOLEAN) /\ Len(recent') = 0
    BY <1>2 DEF Forget
  <2>2. seen' \subseteq BOOLEAN
    BY DEF Forget
  <2>3. stopped' \in BOOLEAN
    BY DEF Forget
  <2> QED BY <2>1, <2>2, <2>3, FeedAssumption DEF RateTyped
<1>4. RunTyped'
  <2>1. held' \in Position
    BY <1>1 DEF Forget
  <2>2. source' \in 0..NumSources /\ next' \in 0..MaxLines /\ through' \in 0..next'
    BY FeedAssumption DEF Forget
  <2>3. /\ todo' \subseteq Sources
        /\ fitted' \subseteq 1..through'
        /\ refused' \subseteq 1..through'
    BY DEF Forget
  <2>4. pc' = "idle"
    BY DEF Forget
  <2> QED BY <2>1, <2>2, <2>3, <2>4 DEF RunTyped
<1> QED
  BY <1>3, <1>4

LEMMA PublishIsTyped ==
  ASSUME TableTyped, NEW p \in Position, Publish(p)
  PROVE  TableTyped'
  BY DEF Publish, TableTyped

LEMMA SetAsideIsTyped ==
  ASSUME TableTyped, SetAside
  PROVE  TableTyped'
  BY DEF SetAside, TableTyped

LEMMA CutIsTyped ==
  ASSUME FeedInv, CutShort
  PROVE  cut' \subseteq Sources
<1>1. refused = {} \/ source \in Sources
  BY DEF FeedInv, TypeOK, InSource, LeftBehind, Reading, Leaving
<1> QED BY <1>1 DEF FeedInv, TypeOK, CutShort

(* How every failed commit ends, whether or not it was made.               *)
LEMMA FailureIsTyped ==
  ASSUME FeedInv, TableTyped',
         faults < MaxFaults, faults' = faults + 1, halted' = TRUE,
         Forget, CutShort, UNCHANGED << spool, text >>
  PROVE  TypeOK'
<1>1. faults' \in 0..MaxFaults /\ halted' \in BOOLEAN
  BY FeedAssumption DEF FeedInv, TypeOK
<1>2. spool' \subseteq Sources /\ text' \in [Sources -> Seq(Kinds)]
  BY DEF FeedInv, TypeOK
<1>3. AroundTyped'
  BY <1>1, <1>2, CutIsTyped DEF AroundTyped
<1> QED
  BY <1>3, ForgetIsTyped, TypesApart

LEMMA CommitIsTyped ==
  ASSUME FeedInv, Reading, NEW p, Commits(p),
         NEW to \in { "reading", "ending", "refusing" }, CommitBatch(p, to)
  PROVE  TypeOK'
<1>1. p \in Position /\ RunTyped /\ RateTyped /\ TableTyped /\ AroundTyped
  BY MarkMoves, TypesApart DEF FeedInv
<1>2. CASE CommitFails(Publish(p))
  <2>1. TableTyped'
    BY <1>1, <1>2, PublishIsTyped, SamePartsSameTypes DEF CommitFails
  <2> QED BY <1>2, <2>1, FailureIsTyped DEF CommitFails
<1>3. CASE ~CommitFails(Publish(p))
  <2>1. /\ Publish(p) /\ held' = p /\ fitted' = {} /\ pc' = to
        /\ UNCHANGED << spool, text, halted, todo, source, next, through, refused, rate,
                        faults, cut >>
    BY <1>3 DEF CommitBatch
  <2>2. TableTyped'
    BY <1>1, <2>1, PublishIsTyped
  <2>3. RunTyped'
    BY <1>1, <2>1 DEF RunTyped
  <2> QED BY <1>1, <2>1, <2>2, <2>3, SamePartsSameTypes, TypesApart
<1> QED BY <1>2, <1>3

(* The two places a run commits from.                                      *)
LEMMA CloseCommits ==
  ASSUME FeedInv, Close
  PROVE  Reading /\ Commits(PartWay(held, source, through))
  BY DEF Close, Reading, Commits

LEMMA EndSourceCommits ==
  ASSUME FeedInv, EndSource
  PROVE  /\ Reading
         /\ \/ /\ stopped
               /\ Commits(PartWay(held, source, through))
               /\ CommitBatch(PartWay(held, source, through), "refusing")
            \/ /\ ~stopped
               /\ Commits(Finished(held, source))
               /\ CommitBatch(Finished(held, source), "refusing")
<1>1. Reading
  BY DEF EndSource, Reading
<1>2. CASE stopped
  BY <1>1, <1>2 DEF EndSource, Commits
<1>3. CASE ~stopped
  <2>1. next = Len(text[source])
    BY <1>1, <1>3 DEF EndSource, FeedInv, InHandIsUnread
  <2>2. \A k \in (through + 1)..Len(text[source]) : text[source][k] = "blank"
    BY <1>1, <2>1 DEF FeedInv, InHandIsUnread
  <2>3. Commits(Finished(held, source))
    BY <1>1, <2>2, WhileReading DEF Commits
  <2> QED BY <1>1, <1>3, <2>3 DEF EndSource
<1> QED BY <1>1, <1>2, <1>3

LEMMA ReadIsTyped ==
  ASSUME FeedInv, Read
  PROVE  TypeOK'
<1>1. RunTyped /\ RateTyped /\ TableTyped /\ AroundTyped
  BY TypesApart DEF FeedInv
<1>2. next \in 0..MaxLines /\ next + 1 \in 0..MaxLines /\ next' = next + 1
  <2>1. Reading /\ next < Len(text[source])
    BY DEF Read, Reading
  <2>2. Len(text[source]) \in Nat /\ Len(text[source]) <= MaxLines
    BY <2>1, WhileReading DEF FeedInv, TextFits, Sources
  <2> QED BY <1>1, <2>1, <2>2, FeedAssumption DEF RunTyped, Read
<1>3. UNCHANGED << spool, text, halted, faults, cut >> /\ UNCHANGED table
      /\ UNCHANGED << todo, held, source >>
  BY DEF Read
<1>4. CASE text[source][next'] = "blank"
  <2>1. RateTyped' /\ UNCHANGED << pc, through, fitted, refused >>
    BY <1>1, <1>4, SamePartsSameTypes DEF Read
  <2>2. RunTyped'
    BY <1>1, <1>2, <1>3, <2>1 DEF RunTyped
  <2> QED BY <1>1, <1>3, <2>1, <2>2, SamePartsSameTypes, TypesApart
<1>5. CASE text[source][next'] # "blank"
  <2> DEFINE fits == text[source][next'] = "good"
  <2>1. fits \in BOOLEAN
    OBVIOUS
  <2>2. /\ recent' = Slide(fits) /\ seen' = seen \cup {fits}
        /\ stopped' = TooMany(recent') /\ through' = next'
        /\ fitted' \subseteq fitted \cup {next'}
        /\ refused' \subseteq refused \cup {next'}
        /\ pc' \in { "closing", "reading" }
    BY <1>5 DEF Read
  <2> HIDE DEF fits
  <2>3. Slide(fits) \in Seq(BOOLEAN) /\ Len(Slide(fits)) <= Window
    BY <2>1, SlideIsAWindow DEF FeedInv
  <2>4. TooMany(recent') \in BOOLEAN
    BY DEF TooMany
  <2>5. RateTyped'
    BY <1>1, <2>1, <2>2, <2>3, <2>4 DEF RateTyped
  <2>6. fitted' \subseteq 1..through' /\ refused' \subseteq 1..through'
        /\ through' \in 0..next'
    BY <1>1, <1>2, <2>2 DEF RunTyped
  <2>7. RunTyped'
    BY <1>1, <1>2, <1>3, <2>2, <2>6 DEF RunTyped
  <2> QED BY <1>1, <1>3, <2>5, <2>7, SamePartsSameTypes, TypesApart
<1> QED BY <1>4, <1>5

LEMMA TypesKept ==
  ASSUME FeedInv, [Next]_vars
  PROVE  TypeOK'
<1>0. RunTyped /\ RateTyped /\ TableTyped /\ AroundTyped
  BY TypesApart DEF FeedInv
<1>1. ASSUME NEW s \in Sources, Deliver(s) PROVE TypeOK'
  <2>1. RunTyped' /\ RateTyped' /\ TableTyped'
    BY <1>0, <1>1, SamePartsSameTypes DEF Deliver, run, batch, RunTyped
  <2>2. AroundTyped'
    BY <1>0, <1>1 DEF Deliver, AroundTyped
  <2> QED BY <2>1, <2>2, TypesApart
<1>2. CASE StartRun
  <2>1. held' \in Position
    BY <1>0, <1>2, FeedAssumption DEF StartRun, TableTyped, Default, Position
  <2>2. faults' \in 0..MaxFaults
    BY <1>0, <1>2, FeedAssumption DEF StartRun, AroundTyped
  <2>3. RunTyped'
    BY <1>0, <1>2, <2>1 DEF StartRun, RunTyped, AroundTyped, batch
  <2>4. AroundTyped'
    BY <1>0, <1>2, <2>2 DEF StartRun, AroundTyped
  <2> QED BY <1>0, <1>2, <2>3, <2>4, SamePartsSameTypes, TypesApart DEF StartRun
<1>3. CASE PassOver
  <2>1. RunTyped'
    BY <1>0, <1>3 DEF PassOver, RunTyped, batch
  <2> QED BY <1>0, <1>3, <2>1, SamePartsSameTypes, TypesApart DEF PassOver
<1>4. CASE Open
  <2>1. First \in Sources
    BY <1>0, <1>4, FirstIsFirst DEF Open, RunTyped
  <2>2. Skipped(held, First) \in 0..MaxLines
    BY <1>0, FeedAssumption DEF RunTyped, Skipped, Position
  <2>3. RunTyped'
    BY <1>0, <1>4, <2>1, <2>2, FeedAssumption DEF Open, RunTyped, Sources
  <2>4. RateTyped'
    BY <1>0, <1>4 DEF Open, RateTyped
  <2> QED BY <1>0, <1>4, <2>3, <2>4, SamePartsSameTypes, TypesApart DEF Open
<1>5. CASE Close
  BY <1>5, CloseCommits, CommitIsTyped DEF Close
<1>6. CASE EndSource
  BY <1>6, EndSourceCommits, CommitIsTyped
<1>7. CASE QuarantineAll
  <2>1. CASE CommitFails(SetAside)
    <3>1. TableTyped'
      BY <1>0, <2>1, SetAsideIsTyped, SamePartsSameTypes DEF CommitFails
    <3> QED BY <2>1, <3>1, FailureIsTyped DEF CommitFails
  <2>2. CASE ~CommitFails(SetAside)
    <3>1. /\ SetAside /\ refused' = {} /\ pc' = "deciding"
          /\ UNCHANGED << spool, text, halted, todo, held, source, next, through, fitted,
                          rate, faults, cut >>
      BY <1>7, <2>2 DEF QuarantineAll
    <3>2. RunTyped'
      BY <1>0, <3>1 DEF RunTyped
    <3> QED BY <1>0, <3>1, <3>2, SetAsideIsTyped, SamePartsSameTypes, TypesApart
  <2> QED BY <2>1, <2>2
<1>8. CASE Decide
  <2>1. CASE Forget
    <3>1. AroundTyped'
      BY <1>0, <1>8 DEF Decide, AroundTyped
    <3> QED BY <1>0, <1>8, <2>1, <3>1, ForgetIsTyped, SamePartsSameTypes, TypesApart DEF Decide
  <2>2. CASE ~Forget
    <3>1. /\ pc' = "listing" /\ seen' = {}
          /\ UNCHANGED << halted, todo, held, source, batch, recent, stopped >>
          /\ UNCHANGED << spool, text, table, faults, cut >>
      BY <1>8, <2>2 DEF Decide
    <3>2. RunTyped'
      BY <1>0, <3>1 DEF RunTyped, batch
    <3>3. RateTyped'
      BY <1>0, <3>1 DEF RateTyped
    <3> QED BY <1>0, <3>1, <3>2, <3>3, SamePartsSameTypes, TypesApart
  <2> QED BY <2>1, <2>2
<1>9. CASE EndRun
  BY <1>0, <1>9, ForgetIsTyped, SamePartsSameTypes, TypesApart DEF EndRun
<1>10. CASE Resume
  <2>1. RunTyped' /\ RateTyped' /\ TableTyped'
    BY <1>0, <1>10, SamePartsSameTypes DEF Resume, run, batch, RunTyped
  <2>2. AroundTyped'
    BY <1>0, <1>10 DEF Resume, AroundTyped
  <2> QED BY <2>1, <2>2, TypesApart
<1>11. CASE Crash
  <2>1. AroundTyped'
    <3>1. faults' \in 0..MaxFaults
      BY <1>0, <1>11, FeedAssumption DEF Crash, AroundTyped
    <3>2. cut' \subseteq Sources
      BY <1>11, CutIsTyped DEF Crash
    <3> QED BY <1>0, <1>11, <3>1, <3>2 DEF Crash, AroundTyped
  <2> QED BY <1>0, <1>11, <2>1, ForgetIsTyped, SamePartsSameTypes, TypesApart DEF Crash
<1>12. CASE UNCHANGED vars
  BY <1>0, <1>12, SamePartsSameTypes, TypesApart DEF vars, run, batch, RunTyped
<1> QED
  BY <1>1, <1>2, <1>3, <1>4, <1>5, <1>6, <1>7, <1>8, <1>9, <1>10, <1>11, <1>12,
     ReadIsTyped DEF Next, Task

-----------------------------------------------------------------------------
(* What a step may do to the table: nothing, one commit of the run, or one *)
(* write of the quarantine.                                                *)

Undisturbed == UNCHANGED << spool, text, table >>

Committed ==
  /\ Reading
  /\ UNCHANGED << spool, text >>
  /\ \/ Commits(PartWay(held, source, through)) /\ Publish(PartWay(held, source, through))
     \/ Commits(Finished(held, source)) /\ Publish(Finished(held, source))

Quarantined ==
  /\ pc = "refusing"
  /\ UNCHANGED << spool, text >>
  /\ SetAside

LEMMA TableSteps ==
  ASSUME FeedInv, [Next]_vars
  PROVE  \/ \E s \in Sources : Deliver(s)
         \/ Undisturbed \/ Committed \/ Quarantined
<1>1. CASE Close
  <2>1. Reading /\ Commits(PartWay(held, source, through))
    BY <1>1, CloseCommits
  <2> QED BY <1>1, <2>1 DEF Close, CommitBatch, CommitFails, Committed, Undisturbed
<1>2. CASE EndSource
  <2>1. CASE stopped
    BY <1>2, <2>1, EndSourceCommits DEF CommitBatch, CommitFails, Committed, Undisturbed
  <2>2. CASE ~stopped
    BY <1>2, <2>2, EndSourceCommits DEF CommitBatch, CommitFails, Committed, Undisturbed
  <2> QED BY <2>1, <2>2
<1>3. CASE QuarantineAll
  BY <1>3 DEF QuarantineAll, CommitFails, Quarantined, Undisturbed
<1>4. CASE StartRun \/ PassOver \/ Open \/ Read \/ Decide \/ EndRun \/ Resume \/ Crash
  BY <1>4 DEF StartRun, PassOver, Open, Read, Decide, EndRun, Resume, Crash, Undisturbed
<1>5. CASE UNCHANGED vars
  BY <1>5 DEF vars, Undisturbed
<1> QED BY <1>1, <1>2, <1>3, <1>4, <1>5 DEF Next, Task

LEMMA CommittedPosition ==
  ASSUME FeedInv, Committed
  PROVE  Commits(recorded') /\ Publish(recorded')
  BY DEF Committed, Publish

(* A source that is being delivered was covered by nothing.                *)
LEMMA DeliveredIsNew ==
  ASSUME FeedInv, Survivable, NEW s \in Sources, Deliver(s)
  PROVE  /\ s \notin spool /\ \A t \in spool : t < s
         /\ recorded.partial # s /\ recorded.through < s
         /\ \A k \in Lines : ~Covered(recorded, s, k)
<1>1. s \notin spool /\ \A t \in spool : t < s
  BY DEF Deliver, Survivable
<1>2. recorded.through \in 0..NumSources /\ s \in 1..NumSources /\ NumSources \in Nat
  BY FeedAssumption DEF FeedInv, TypeOK, Position, Sources
<1>3. recorded.partial # s /\ recorded.through < s
  BY <1>1, <1>2 DEF FeedInv, Frontier
<1> QED BY <1>1, <1>2, <1>3 DEF Covered, Standing, Skipped, Lines

LEMMA FrontierKept ==
  ASSUME FeedInv, Survivable, [Next]_vars
  PROVE  Frontier'
<1>1. ASSUME NEW s \in Sources, Deliver(s) PROVE Frontier'
  <2>1. /\ spool' = spool \cup {s} /\ text' = text /\ recorded' = recorded
    BY <1>1 DEF Deliver, table
  <2>2. spool \subseteq 1..NumSources /\ s \in 1..NumSources /\ NumSources \in Nat
    BY FeedAssumption DEF FeedInv, TypeOK, Sources
  <2>3. Frontier /\ recorded.partial \in 0..NumSources
    BY DEF FeedInv, TypeOK, Position
  <2>4. \A t \in spool : t < s
    BY <1>1, DeliveredIsNew
  <2>5. recorded.partial # 0 => recorded.partial < s
    BY <2>3, <2>4 DEF Frontier
  <2>6. \A t \in spool' : recorded.partial # 0 /\ t < recorded.partial => t \in spool
    BY <2>1, <2>2, <2>3, <2>5
  <2> QED BY <2>1, <2>3, <2>6 DEF Frontier
<1>2. CASE Undisturbed \/ Quarantined
  BY <1>2 DEF Undisturbed, Quarantined, SetAside, table, FeedInv, Frontier
<1>3. CASE Committed
  BY <1>3, CommittedPosition, CommitKeepsFrontier DEF Committed
<1> QED BY <1>1, <1>2, <1>3, TableSteps

(* No step makes a line readable again that the position had covered.      *)
LEMMA CoverGrows ==
  ASSUME FeedInv, Survivable, [Next]_vars, NEW s \in spool, NEW k \in Lines,
         Covered(recorded, s, k)
  PROVE  Covered(recorded', s, k)
<1>1. CASE Committed
  BY <1>1, CommittedPosition, CommitCovers DEF Committed
<1>2. CASE ~Committed
  <2>1. recorded' = recorded
    BY <1>2, TableSteps DEF Deliver, Undisturbed, Quarantined, SetAside, table
  <2> QED BY <2>1
<1> QED BY <1>1, <1>2

LEMMA RowsKept ==
  ASSUME FeedInv, Survivable, [Next]_vars
  PROVE  RowsFollow'
<1> SUFFICES ASSUME NEW s \in Sources, NEW k \in Lines
             PROVE  landed'[<< s, k >>] =
                      IF s \in spool' /\ Good(s, k)' /\ Covered(recorded', s, k) THEN 1 ELSE 0
  BY DEF RowsFollow, Lines, Sources
<1>0. landed[<< s, k >>] = IF s \in spool /\ Good(s, k) /\ Covered(recorded, s, k) THEN 1 ELSE 0
  BY DEF FeedInv, RowsFollow
<1>1. ASSUME NEW t \in Sources, Deliver(t)
      PROVE  landed'[<< s, k >>] =
               IF s \in spool' /\ Good(s, k)' /\ Covered(recorded', s, k) THEN 1 ELSE 0
  <2>1. spool' = spool \cup {t} /\ text' = text /\ recorded' = recorded /\ landed' = landed
    BY <1>1 DEF Deliver, table
  <2> QED BY <1>0, <1>1, <2>1, DeliveredIsNew DEF Good
<1>2. CASE Undisturbed \/ Quarantined
  BY <1>0, <1>2 DEF Undisturbed, Quarantined, SetAside, table, Good
<1>3. CASE Committed
  <2>1. /\ spool' = spool /\ text' = text /\ Reading
        /\ Commits(recorded') /\ Publish(recorded')
    BY <1>3, CommittedPosition DEF Committed
  <2>2. << s, k >> \in Records /\ landed \in [Records -> Nat]
    BY DEF Records, Lines, FeedInv, TypeOK
  <2>3. landed'[<< s, k >>] = IF s = source /\ k \in fitted THEN landed[<< s, k >>] + 1
                                                         ELSE landed[<< s, k >>]
    BY <2>1, <2>2 DEF Publish
  <2>4. Good(s, k)' = Good(s, k)
    BY <2>1 DEF Good
  <2>5. source \in spool
    BY <2>1, WhileReading
  <2>6. k \in fitted <=> Skipped(recorded, source) < k /\ k <= through /\ Good(source, k)
    BY <2>1 DEF FeedInv, InHandIsUnread
  <2>7. s = source => (Covered(recorded, s, k) <=> k <= Skipped(recorded, source))
    BY <2>1 DEF FeedInv, InHandIsUnread, Covered
  <2>8. s \in spool /\ Good(s, k) =>
          (Covered(recorded', s, k) <=> Covered(recorded, s, k) \/ (s = source /\ k <= through))
    BY <2>1, CommitCovers
  <2>9. Skipped(recorded, source) \in Nat /\ k \in Nat
    BY FeedAssumption DEF FeedInv, TypeOK, Skipped, Position, Lines
  <2> QED BY <1>0, <2>1, <2>3, <2>4, <2>5, <2>6, <2>7, <2>8, <2>9
<1> QED BY <1>1, <1>2, <1>3, TableSteps

-----------------------------------------------------------------------------
(* Where the run is.                                                       *)

(* A run that is over has nothing in hand.                                 *)
LEMMA ForgetSettles ==
  Forget => Running' /\ InSource' /\ InHandIsUnread' /\ LeftBehind'
  BY DEF Forget, Running, InSource, InHandIsUnread, LeftBehind, Reading, Leaving

(* A commit that is made and reported so.                                  *)
Succeeds(p, to) ==
  /\ Publish(p) /\ held' = p /\ fitted' = {} /\ pc' = to
  /\ UNCHANGED << spool, text, halted, todo, source, next, through, refused, rate,
                  faults, cut >>

Closes ==
  /\ Reading /\ Commits(recorded')
  /\ recorded'.partial = source /\ recorded'.lines = through
  /\ Succeeds(recorded', IF stopped THEN "ending" ELSE "reading")

Finishes ==
  /\ Reading /\ Commits(recorded')
  /\ ~stopped => recorded'.through = source
  /\ Succeeds(recorded', "refusing")

LEMMA CloseSteps ==
  ASSUME FeedInv, Close
  PROVE  Closes \/ (Forget /\ CutShort)
<1>1. Reading /\ Commits(PartWay(held, source, through))
  BY CloseCommits
<1>2. /\ PartWay(held, source, through).partial = source
      /\ PartWay(held, source, through).lines = through
  BY <1>1, WhileReading, PartWayIs, FeedAssumption DEF FeedInv, TypeOK
<1> QED
  BY <1>1, <1>2 DEF Close, CommitBatch, CommitFails, Closes, Succeeds, Publish

LEMMA EndSourceSteps ==
  ASSUME FeedInv, EndSource
  PROVE  Finishes \/ (Forget /\ CutShort)
<1>1. Reading
  BY EndSourceCommits
<1>2. CASE stopped
  BY <1>1, <1>2, EndSourceCommits
     DEF CommitBatch, CommitFails, Finishes, Succeeds, Publish
<1>3. CASE ~stopped
  <2>1. Finished(held, source).through = source
    BY <1>1, WhileReading, FinishedIs, FeedAssumption DEF Position
  <2> QED
    BY <1>1, <1>3, <2>1, EndSourceCommits
       DEF CommitBatch, CommitFails, Finishes, Succeeds, Publish
<1> QED BY <1>2, <1>3

LEMMA MarkGrows ==
  ASSUME FeedInv, Reading, Commits(recorded')
  PROVE  recorded'.through >= recorded.through /\ recorded'.through \in Nat
<1>1. recorded.through \in Nat /\ source > recorded.through /\ source \in Nat
  BY WhileReading, FeedAssumption DEF Position
<1>2. recorded'.through = recorded.through \/ recorded'.through = source
  BY MarkMoves
<1> QED BY <1>1, <1>2

LEMMA RunningKept ==
  ASSUME FeedInv, Survivable, [Next]_vars
  PROVE  Running'
<1>0. /\ Running /\ recorded.through \in Nat
      /\ \A t \in spool : t \in Nat
  BY FeedAssumption DEF FeedInv, TypeOK, Sources, Position
<1>1. ASSUME NEW s \in Sources, Deliver(s) PROVE Running'
  <2>1. /\ spool' = spool \cup {s} /\ \A t \in spool : t < s
        /\ UNCHANGED << pc, held, todo, source, recorded >>
    BY <1>1, DeliveredIsNew DEF Deliver, run, table
  <2>2. s \in Nat
    BY FeedAssumption DEF Sources
  <2>3. pc # "idle" => \A t \in todo : t < s /\ ~(s < t)
    BY <1>0, <2>1, <2>2 DEF Running
  <2> QED BY <1>0, <2>1, <2>3 DEF Running
<1>2. CASE StartRun
  BY <1>0, <1>2 DEF StartRun, Survivable, Running, table
<1>3. CASE PassOver
  <2>1. First \in todo /\ First <= recorded.through
    <3>1. First \in todo /\ todo # {} /\ Standing(held, First) = "done" /\ pc = "listing"
      BY <1>3, FirstIsFirst DEF PassOver, FeedInv, TypeOK
    <3>2. ~(First > recorded.through) /\ First \in Nat
      BY <1>0, <3>1 DEF Running, Standing
    <3> QED BY <1>0, <3>1, <3>2
  <2> QED BY <1>0, <1>3, <2>1 DEF PassOver, Running, table
<1>4. CASE Open
  <2>1. First \in todo
    BY <1>0, <1>4, FirstIsFirst DEF Open, FeedInv, TypeOK
  <2> QED BY <1>0, <1>4, <2>1 DEF Open, Running, table
<1>5. CASE Read
  BY <1>0, <1>5 DEF Read, Running, table
<1>6. CASE Closes \/ Finishes
  <2>1. Reading /\ Commits(recorded') /\ held' = recorded'
        /\ pc' \in { "reading", "ending", "refusing" }
        /\ UNCHANGED << spool, todo, source >>
    BY <1>6 DEF Closes, Finishes, Succeeds
  <2>2. recorded'.through >= recorded.through /\ recorded'.through \in Nat
    BY <2>1, MarkGrows
  <2>3. \A t \in todo, s \in spool :
          s < t => s \in todo \/ s <= recorded.through \/ s = source
    BY <1>0, <2>1 DEF Running, Reading
  <2>4. todo \subseteq spool
    BY <1>0, <2>1 DEF Running, Reading
  <2> QED BY <1>0, <2>1, <2>2, <2>3, <2>4 DEF Running
<1>7. CASE QuarantineAll /\ ~Forget
  BY <1>0, <1>7 DEF QuarantineAll, CommitFails, SetAside, Running
<1>8. CASE Decide /\ ~Forget
  <2>1. ~stopped /\ pc = "deciding" /\ UNCHANGED << held, todo, source, recorded, spool >>
    BY <1>8 DEF Decide, table
  <2>2. source <= recorded.through
    BY <2>1 DEF FeedInv, LeftBehind, Leaving
  <2> QED BY <1>0, <2>1, <2>2 DEF Running
<1>9. CASE Resume \/ UNCHANGED vars
  BY <1>0, <1>9 DEF Resume, vars, run, table, Running
<1>10. CASE Forget
  BY <1>10, ForgetSettles
<1> QED
  BY <1>1, <1>2, <1>3, <1>4, <1>5, <1>6, <1>7, <1>8, <1>9, <1>10,
     CloseSteps, EndSourceSteps DEF Next, Task, EndRun, Crash

LEMMA InSourceKept ==
  ASSUME FeedInv, Survivable, [Next]_vars
  PROVE  InSource'
<1>0. /\ Running /\ InSource /\ recorded.through \in Nat
      /\ \A t \in spool : t \in Nat
  BY FeedAssumption DEF FeedInv, TypeOK, Sources, Position
<1>1. ASSUME NEW s \in Sources, Deliver(s) PROVE InSource'
  <2>1. /\ spool' = spool \cup {s} /\ \A t \in spool : t < s
        /\ UNCHANGED << pc, source, recorded >>
    BY <1>1, DeliveredIsNew DEF Deliver, run, table
  <2>2. s \in Nat
    BY FeedAssumption DEF Sources
  <2>3. source \in spool => source < s /\ ~(s < source)
    BY <1>0, <2>1, <2>2
  <2>4. (Reading <=> Reading') /\ (Leaving <=> Leaving')
    BY <2>1 DEF Reading, Leaving
  <2> QED BY <1>0, <2>1, <2>3, <2>4 DEF InSource
<1>2. CASE Open
  <2>1. First \in todo /\ \A t \in todo : First <= t
    BY <1>0, <1>2, FirstIsFirst DEF Open, FeedInv, TypeOK
  <2>2. pc = "listing" /\ source' = First /\ UNCHANGED << spool, recorded >>
    BY <1>2 DEF Open, table
  <2>3. todo \subseteq spool
    BY <1>0, <2>2 DEF Running
  <2>4. ASSUME NEW s \in spool, s < First PROVE s <= recorded.through
    <3>1. s \notin todo
      BY <1>0, <2>1, <2>3, <2>4
    <3> QED BY <1>0, <2>1, <2>2, <2>4, <3>1 DEF Running
  <2> QED BY <2>1, <2>2, <2>3, <2>4 DEF InSource
<1>3. CASE Read
  BY <1>0, <1>3 DEF Read, InSource, Reading, table
<1>4. CASE Closes \/ Finishes
  <2>1. Reading /\ Commits(recorded') /\ UNCHANGED << spool, source >>
    BY <1>4 DEF Closes, Finishes, Succeeds
  <2>2. recorded'.through >= recorded.through /\ recorded'.through \in Nat
    BY <2>1, MarkGrows
  <2> QED BY <1>0, <2>1, <2>2 DEF InSource
<1>5. CASE QuarantineAll /\ ~Forget
  BY <1>0, <1>5 DEF QuarantineAll, CommitFails, SetAside, InSource, Leaving
<1>6. CASE pc' = "idle" \/ pc' = "listing"
  BY <1>6 DEF InSource, Reading, Leaving
<1>7. CASE Resume \/ UNCHANGED vars
  <2>1. UNCHANGED << pc, source, spool, recorded >>
    BY <1>7 DEF Resume, vars, run, table
  <2>2. (Reading <=> Reading') /\ (Leaving <=> Leaving')
    BY <2>1 DEF Reading, Leaving
  <2> QED BY <1>0, <2>1, <2>2 DEF InSource
<1> QED
  BY <1>1, <1>2, <1>3, <1>4, <1>5, <1>6, <1>7, CloseSteps, EndSourceSteps
     DEF Next, Task, StartRun, PassOver, Decide, EndRun, Crash, Forget

(* The lines of a delivered source never change.                           *)
LEMMA TextKept ==
  ASSUME FeedInv, [Next]_vars
  PROVE  text' = text /\ TextFits'
<1>1. text' = text
  BY TableSteps DEF Deliver, Undisturbed, Committed, Quarantined
<1> QED BY <1>1 DEF FeedInv, TextFits

LEMMA NoneBetween ==
  ASSUME NEW n \in Nat
  PROVE  (n + 1)..n = {}
  OBVIOUS

(* A line is looked at: what it held is kept, and it joins it if it fits.  *)
LEMMA ReadKeepsInHand ==
  ASSUME FeedInv, Read
  PROVE  InHandIsUnread'
<1> DEFINE skipped == Skipped(recorded, source)
<1>1. /\ pc = "reading" /\ next < Len(text[source]) /\ next' = next + 1
      /\ UNCHANGED << text, recorded, source >>
  BY DEF Read, table
<1>2. Reading
  BY <1>1 DEF Reading
<1>3. /\ next \in Nat /\ through \in Nat /\ through <= next /\ Len(text[source]) \in Nat
      /\ source \in Sources /\ \A k \in fitted : k \in Nat /\ k <= through
  BY <1>2, WhileReading, FeedAssumption DEF FeedInv, TypeOK, Sources
<1>4. skipped \in Nat /\ skipped <= through
  BY <1>2, FeedAssumption DEF FeedInv, TypeOK, InHandIsUnread, Skipped, Position
<1>5. /\ Standing(recorded, source) # "done" /\ ~stopped
      /\ \A k \in Lines : k \in fitted <=> skipped < k /\ k <= through /\ Good(source, k)
      /\ \A k \in Lines : skipped < k /\ k <= through /\ Bad(source, k) => k \in refused
      /\ \A k \in (through + 1)..next : text[source][k] = "blank"
  BY <1>1, <1>2 DEF FeedInv, InHandIsUnread
<1>6. \A k \in Lines : (Good(source, k)' <=> Good(source, k)) /\ (Bad(source, k)' <=> Bad(source, k))
  BY <1>1 DEF Good, Bad
<1>7. skipped' = skipped /\ Standing(recorded, source)' # "done"
  BY <1>1, <1>5 DEF Skipped, Standing
<1>8. next' \in 1..Len(text[source]) /\ next' <= Len(text[source])' /\ next' \in Nat
  BY <1>1, <1>3
<1> HIDE DEF skipped
<1>9. CASE text[source][next'] = "blank"
  <2>1. UNCHANGED << pc, through, fitted, refused, rate >>
    BY <1>9 DEF Read
  <2>2. \A k \in (through + 1)..next' : text[source][k] = "blank"
    BY <1>1, <1>3, <1>5, <1>9
  <2> QED
    BY <1>1, <1>4, <1>5, <1>6, <1>7, <1>8, <2>1, <2>2 DEF InHandIsUnread, rate, skipped
<1>10. CASE text[source][next'] # "blank"
  <2>1. /\ fitted' = IF text[source][next'] = "good" THEN fitted \cup {next'} ELSE fitted
        /\ refused' = IF text[source][next'] = "good" THEN refused ELSE refused \cup {next'}
        /\ through' = next'
        /\ pc' = "reading" \/ pc' = "closing"
        /\ pc' = "reading" => ~stopped'
    BY <1>10 DEF Read
  <2>2. DOMAIN text[source] = 1..Len(text[source])
    BY <1>3 DEF FeedInv, TypeOK
  <2>3. ASSUME NEW k \in Lines, k \in Nat
        PROVE  /\ k \in fitted' <=> skipped < k /\ k <= next' /\ Good(source, k)
               /\ skipped < k /\ k <= next' /\ Bad(source, k) => k \in refused'
    <3>1. CASE k <= through
      BY <1>1, <1>3, <1>5, <2>1, <3>1
    <3>2. CASE through < k /\ k <= next
      <4>1. text[source][k] = "blank" /\ k \notin fitted /\ k # next'
        BY <1>1, <1>3, <1>5, <2>3, <3>2
      <4> QED BY <2>1, <4>1 DEF Good, Bad
    <3>3. CASE k = next'
      <4>1. k \in DOMAIN text[source] /\ k \notin fitted /\ skipped < k
        BY <1>1, <1>3, <1>4, <1>8, <2>2, <3>3
      <4> QED BY <1>8, <1>10, <2>1, <3>3, <4>1 DEF Good, Bad
    <3>4. CASE next' < k
      BY <1>1, <1>3, <1>8, <2>1, <2>3, <3>4
    <3> QED BY <1>1, <1>3, <1>8, <2>3, <3>1, <3>2, <3>3, <3>4
  <2>4. \A k \in Lines : k \in Nat
    BY DEF Lines
  <2>5. skipped <= through'
    BY <1>1, <1>3, <1>4, <2>1
  <2>6. \A k \in (through' + 1)..next' : text[source][k] = "blank"
    BY <1>8, <2>1, NoneBetween, Zenon
  <2>7. /\ \A k \in Lines : k \in fitted' <=> skipped < k /\ k <= through' /\ Good(source, k)
        /\ \A k \in Lines : skipped < k /\ k <= through' /\ Bad(source, k) => k \in refused'
    BY <2>1, <2>3, <2>4
  <2> QED
    BY <1>1, <1>6, <1>7, <1>8, <2>1, <2>5, <2>6, <2>7 DEF InHandIsUnread, skipped
<1> QED BY <1>9, <1>10

(* A commit that is made covers what was read: the run holds nothing more. *)
LEMMA CloseKeepsInHand ==
  ASSUME FeedInv, Closes
  PROVE  InHandIsUnread'
<1>1. /\ Reading /\ source \in Nat /\ source # 0 /\ through \in Nat /\ through \in 0..MaxLines
      /\ next \in 0..MaxLines /\ source > recorded.through
  BY WhileReading, FeedAssumption DEF Closes, FeedInv, TypeOK
<1>2. /\ recorded'.partial = source /\ recorded'.lines = through
      /\ fitted' = {} /\ pc' = IF stopped THEN "ending" ELSE "reading"
      /\ UNCHANGED << text, source, next, through, refused, rate >>
  BY DEF Closes, Succeeds
<1>3. Standing(recorded, source)' # "done" /\ Skipped(recorded, source)' = through
  BY <1>2 DEF Standing, Skipped
<1>4. \A k \in Lines : k \in Nat
  BY DEF Lines
<1>5. /\ next <= Len(text[source])
      /\ \A k \in (through + 1)..next : text[source][k] = "blank"
  BY <1>1 DEF FeedInv, InHandIsUnread
<1>6. \A k \in Lines : ~(through < k /\ k <= through)
  BY <1>1, <1>4
<1> QED BY <1>1, <1>2, <1>3, <1>5, <1>6 DEF InHandIsUnread, rate

LEMMA InHandIsUnreadKept ==
  ASSUME FeedInv, Survivable, [Next]_vars
  PROVE  InHandIsUnread'
<1>1. ASSUME \/ \E s \in Sources : Deliver(s)
             \/ Resume \/ UNCHANGED vars
      PROVE  InHandIsUnread'
  <2>1. UNCHANGED << pc, text, recorded, source, next, through, fitted, refused, stopped >>
    BY <1>1 DEF Deliver, Resume, vars, run, table, batch, rate
  <2>2. \A k \in Lines : (Good(source, k)' <=> Good(source, k)) /\ (Bad(source, k)' <=> Bad(source, k))
    BY <2>1 DEF Good, Bad
  <2>3. /\ Standing(recorded, source)' = Standing(recorded, source)
        /\ Skipped(recorded, source)' = Skipped(recorded, source)
        /\ Reading' <=> Reading
    BY <2>1 DEF Standing, Skipped, Reading
  <2> QED BY <2>1, <2>2, <2>3 DEF FeedInv, InHandIsUnread
<1>2. CASE Open
  <2>1. /\ First \in todo /\ source' = First /\ held = recorded /\ recorded' = recorded
        /\ todo \subseteq Sources /\ text' = text /\ recorded \in Position
    BY <1>2, FirstIsFirst DEF Open, FeedInv, TypeOK, Running, table
  <2>2. /\ next' = Skipped(recorded, First) /\ through' = next' /\ fitted' = {} /\ refused' = {}
        /\ stopped' = FALSE /\ pc' = "reading" /\ Standing(recorded, First) # "done"
    BY <1>2, <2>1 DEF Open
  <2>3. First \in Nat /\ First # 0 /\ Len(text[First]) \in Nat
    BY <2>1, FeedAssumption DEF FeedInv, TypeOK, Sources
  <2>4. next' \in Nat /\ next' <= Len(text[First])
    BY <2>1, <2>2, <2>3, FeedAssumption DEF Skipped, FeedInv, Frontier, Position
  <2>5. Skipped(recorded, source)' = next' /\ Standing(recorded, source)' # "done"
    BY <2>1, <2>2 DEF Skipped, Standing
  <2>6. \A k \in Lines : ~(next' < k /\ k <= next')
    BY <2>4 DEF Lines
  <2>7. \A k \in (next' + 1)..next' : text[First][k] = "blank"
    BY <2>4, NoneBetween, Zenon
  <2> QED BY <2>1, <2>2, <2>4, <2>5, <2>6, <2>7 DEF InHandIsUnread
<1>3. CASE pc' \in { "idle", "listing", "refusing", "deciding" }
  BY <1>3 DEF InHandIsUnread, Reading
<1> QED
  BY <1>1, <1>2, <1>3, ReadKeepsInHand, CloseSteps, CloseKeepsInHand, EndSourceSteps
     DEF Next, Task, StartRun, PassOver, QuarantineAll, CommitFails, Decide, EndRun, Crash,
         Forget, Finishes, Succeeds

LEMMA LeftBehindKept ==
  ASSUME FeedInv, Survivable, [Next]_vars
  PROVE  LeftBehind'
<1>1. ASSUME \/ \E s \in Sources : Deliver(s)
             \/ Resume \/ UNCHANGED vars
      PROVE  LeftBehind'
  <2>1. UNCHANGED << pc, recorded, source, refused, stopped >>
    BY <1>1 DEF Deliver, Resume, vars, run, table, batch, rate
  <2>2. /\ \A k : Covered(recorded, source, k)' <=> Covered(recorded, source, k)
        /\ Leaving' <=> Leaving
    BY <2>1 DEF Covered, Standing, Skipped, Leaving
  <2> QED BY <2>1, <2>2 DEF FeedInv, LeftBehind
<1>2. CASE Finishes
  <2>1. /\ Reading /\ Commits(recorded')
        /\ ~stopped => recorded'.through = source
        /\ pc' = "refusing" /\ UNCHANGED << source, refused, stopped >>
    BY <1>2 DEF Finishes, Succeeds, rate
  <2>2. source \in spool /\ source \in Nat
    BY <2>1, WhileReading
  <2>3. ASSUME NEW k \in refused PROVE Covered(recorded', source, k)
    <3>1. Bad(source, k)
      BY <2>1 DEF FeedInv, RefusalsFollow
    <3>2. k \in Lines /\ k <= through
      BY <2>1, WhileReading, FeedAssumption DEF FeedInv, TypeOK, Lines
    <3> QED BY <2>1, <2>2, <3>1, <3>2, CommitCovers
  <2> QED BY <2>1, <2>2, <2>3 DEF LeftBehind
<1>3. CASE QuarantineAll /\ ~Forget
  <2>1. /\ pc = "refusing" /\ pc' = "deciding" /\ refused' = {}
        /\ UNCHANGED << source, recorded, stopped >>
    BY <1>3 DEF QuarantineAll, CommitFails, SetAside, rate
  <2> QED BY <2>1 DEF FeedInv, LeftBehind, Leaving
<1>4. CASE (StartRun \/ PassOver \/ Decide) /\ ~Forget
  <2>1. refused' = refused /\ pc' = "listing" /\ pc \in { "idle", "listing", "deciding" }
    BY <1>4 DEF StartRun, PassOver, Decide, batch
  <2> QED BY <2>1 DEF FeedInv, LeftBehind, Leaving
<1>5. CASE pc' \in { "reading", "closing", "ending" }
  BY <1>5 DEF LeftBehind, Leaving
<1>6. CASE Forget
  BY <1>6, ForgetSettles
<1>7. ASSUME Read PROVE LeftBehind'
  <2>1. pc' \in { "reading", "closing" }
    BY <1>7 DEF Read
  <2> QED BY <1>5, <2>1
<1> QED
  BY <1>1, <1>2, <1>3, <1>4, <1>5, <1>6, <1>7, CloseSteps, EndSourceSteps
     DEF Next, Task, Open, EndRun, Crash, Closes, Succeeds

-----------------------------------------------------------------------------
(* What became of the records that were refused.                           *)

LEMMA KeptIsCovered ==
  ASSUME FeedInv, Survivable, [Next]_vars, NEW s \in Sources, NEW k \in Lines,
         kept'[<< s, k >>] # 0
  PROVE  s \in spool' /\ Covered(recorded', s, k)
<1>1. spool \subseteq spool'
  BY TableSteps DEF Deliver, Undisturbed, Committed, Quarantined
<1>2. CASE kept[<< s, k >>] # 0
  BY <1>1, <1>2, CoverGrows DEF FeedInv, RefusalsFollow
<1>3. CASE kept[<< s, k >>] = 0
  <2>1. Quarantined
    BY <1>3, TableSteps DEF Deliver, Undisturbed, Committed, Publish, table
  <2>2. << s, k >> \in Records
    BY DEF Records, Lines
  <2>3. s = source /\ k \in refused
    BY <1>3, <2>1, <2>2 DEF Quarantined, SetAside
  <2>4. Leaving
    BY <2>1 DEF Quarantined, Leaving
  <2> QED BY <1>1, <2>3, <2>4, CoverGrows DEF FeedInv, LeftBehind, InSource
<1> QED BY <1>2, <1>3

(* What the run holds is unfit, and is not in the quarantine yet.          *)
HeldBack ==
  Reading \/ Leaving => \A k \in refused : Bad(source, k) /\ kept[<< source, k >>] = 0

LEMMA ReadHoldsBack ==
  ASSUME FeedInv, Read
  PROVE  HeldBack'
<1>1. /\ pc = "reading" /\ next < Len(text[source]) /\ next' = next + 1
      /\ UNCHANGED << text, recorded, source, kept >>
  BY DEF Read, table
<1>2. Reading
  BY <1>1 DEF Reading
<1>3. /\ next \in Nat /\ through \in Nat /\ through <= next /\ Len(text[source]) \in Nat
      /\ source \in Sources
  BY <1>2, WhileReading, FeedAssumption DEF FeedInv, TypeOK, Sources
<1>4. next' \in 1..Len(text[source]) /\ next' \in Lines
  BY <1>1, <1>3, FeedAssumption DEF FeedInv, TextFits, Lines
<1>5. \A k \in refused : Bad(source, k) /\ kept[<< source, k >>] = 0
  BY <1>2 DEF FeedInv, RefusalsFollow
<1>6. kept[<< source, next' >>] = 0
  <2>1. /\ Standing(recorded, source) # "done" /\ Skipped(recorded, source) <= through
        /\ Skipped(recorded, source) \in Nat
    BY <1>2, FeedAssumption DEF FeedInv, TypeOK, InHandIsUnread, Skipped, Position
  <2>2. ~(next' <= Skipped(recorded, source))
    BY <1>1, <1>3, <2>1
  <2>3. ~Covered(recorded, source, next')
    BY <2>1, <2>2 DEF Covered
  <2> QED BY <1>3, <1>4, <2>3 DEF FeedInv, RefusalsFollow
<1>7. next' \in DOMAIN text[source] /\ text[source][next'] \in Kinds
  <2>1. text[source] \in Seq(Kinds)
    BY <1>3 DEF FeedInv, TypeOK
  <2> QED BY <1>4, <2>1
<1>8. ASSUME NEW k \in refused' PROVE k \in refused \/ (k = next' /\ Bad(source, k))
  <2>1. CASE text[source][next'] \in { "blank", "good" }
    BY <1>8, <2>1 DEF Read
  <2>2. CASE text[source][next'] = "bad"
    BY <1>7, <1>8, <2>2 DEF Read, Bad
  <2> QED BY <1>7, <2>1, <2>2 DEF Kinds
<1>9. \A k : Bad(source, k)' <=> Bad(source, k)
  BY <1>1 DEF Bad
<1> QED BY <1>1, <1>5, <1>6, <1>8, <1>9 DEF HeldBack

LEMMA HeldBackKept ==
  ASSUME FeedInv, Survivable, [Next]_vars
  PROVE  HeldBack'
<1>1. ASSUME \/ \E s \in Sources : Deliver(s)
             \/ Resume \/ UNCHANGED vars
      PROVE  HeldBack'
  <2>1. UNCHANGED << pc, text, source, refused, kept >>
    BY <1>1 DEF Deliver, Resume, vars, run, table, batch
  <2>2. (\A k : Bad(source, k)' <=> Bad(source, k)) /\ (Reading' <=> Reading) /\ (Leaving' <=> Leaving)
    BY <2>1 DEF Bad, Reading, Leaving
  <2> QED BY <2>1, <2>2 DEF FeedInv, RefusalsFollow, HeldBack
<1>2. CASE Closes \/ Finishes
  <2>1. Reading /\ UNCHANGED << text, source, refused, kept >>
    BY <1>2 DEF Closes, Finishes, Succeeds, Publish
  <2>2. \A k : Bad(source, k)' <=> Bad(source, k)
    BY <2>1 DEF Bad
  <2> QED BY <2>1, <2>2 DEF FeedInv, RefusalsFollow, HeldBack
<1>3. CASE refused' = {}
  BY <1>3 DEF HeldBack
<1>4. CASE pc' \in { "idle", "listing" }
  BY <1>4 DEF HeldBack, Reading, Leaving
<1> QED
  BY <1>1, <1>2, <1>3, <1>4, ReadHoldsBack, CloseSteps, EndSourceSteps
     DEF Next, Task, StartRun, PassOver, Open, QuarantineAll, CommitFails, Decide, EndRun,
         Crash, Forget

LEMMA AccountedKept ==
  ASSUME FeedInv, Survivable, [Next]_vars
  PROVE  RefusalsAccountedFor'
<1> SUFFICES ASSUME NEW s \in spool', s \notin cut', NEW k \in Lines,
                    Bad(s, k)', Covered(recorded', s, k)
             PROVE  kept'[<< s, k >>] = 1 \/ (kept'[<< s, k >>] = 0 /\ InHand(s, k)')
  BY DEF RefusalsAccountedFor, Lines, Covered, Standing, Skipped
<1> DEFINE Wanted == s \in spool \ cut /\ Covered(recorded, s, k)
<1>1. Bad(s, k)
  BY TextKept DEF Bad
<1>2. Wanted => kept[<< s, k >>] = 1 \/ (kept[<< s, k >>] = 0 /\ InHand(s, k))
  BY <1>1 DEF FeedInv, RefusalsFollow, RefusalsAccountedFor, Lines
<1>3. cut \subseteq cut'
  BY DEF Next, Task, Deliver, StartRun, PassOver, Open, Read, Close, EndSource, CommitBatch,
         QuarantineAll, CommitFails, Decide, EndRun, Resume, Crash, CutShort, vars
<1>4. ASSUME NEW t \in Sources, Deliver(t)
      PROVE  kept'[<< s, k >>] = 1 \/ (kept'[<< s, k >>] = 0 /\ InHand(s, k)')
  <2>1. spool' = spool \cup {t} /\ UNCHANGED << text, recorded, kept, pc, source, refused, cut >>
    BY <1>4 DEF Deliver, run, batch, table
  <2>2. s # t
    BY <1>4, <2>1, DeliveredIsNew
  <2> QED BY <1>2, <2>1, <2>2 DEF InHand
<1>5. CASE \A t \in Sources : ~Deliver(t)
  <2>1. spool' = spool /\ s \in spool \ cut
    BY <1>3, <1>5, TableSteps DEF Undisturbed, Committed, Quarantined
  <2>2. << s, k >> \in Records
    BY <2>1 DEF FeedInv, TypeOK, Records, Lines
  (* Of what a commit newly covers, what is unfit is in hand.              *)
  <2>3. Committed => /\ kept'[<< s, k >>] = kept[<< s, k >>]
                     /\ Reading
                     /\ Covered(recorded, s, k) \/ (s = source /\ k \in refused)
    <3> SUFFICES ASSUME Committed, ~Covered(recorded, s, k)
                 PROVE  s = source /\ k \in refused
      BY DEF Committed, Publish
    <3>1. s = source /\ k <= through
      BY <1>1, <2>1, CommittedPosition, CommitCovers DEF Committed
    <3>2. Skipped(recorded, source) < k
      <4>1. Skipped(recorded, source) \in Nat /\ k \in Nat
        BY FeedAssumption DEF FeedInv, TypeOK, Skipped, Position, Lines
      <4> QED BY <3>1, <4>1 DEF Covered
    <3> QED BY <1>1, <3>1, <3>2 DEF Committed, FeedInv, InHandIsUnread
  <2>4. CASE CutShort
    <3>1. ~(s = source /\ k \in refused)
      BY <2>4 DEF CutShort
    <3>2. kept'[<< s, k >>] = kept[<< s, k >>] /\ Covered(recorded, s, k)
      BY <1>5, <2>2, <2>3, <3>1, TableSteps DEF Undisturbed, Quarantined, SetAside, table
    <3> QED BY <1>2, <2>1, <3>1, <3>2 DEF InHand
  <2>5. CASE Undisturbed /\ (refused = {} \/ (InHand(s, k) => InHand(s, k)'))
    BY <1>2, <2>1, <2>5 DEF Undisturbed, table, InHand
  <2>6. CASE Closes \/ Finishes
    <3>1. Reading /\ Commits(recorded') /\ Publish(recorded')
          /\ UNCHANGED << source, refused >> /\ pc' \in { "reading", "ending", "refusing" }
      BY <2>6 DEF Closes, Finishes, Succeeds
    <3>2. Covered(recorded, s, k) => kept'[<< s, k >>] = 1
                                       \/ (kept'[<< s, k >>] = 0 /\ InHand(s, k)')
      BY <1>2, <2>1, <3>1 DEF Publish, InHand
    <3>3. Committed
      <4>1. UNCHANGED << spool, text >>
        BY <2>6 DEF Closes, Finishes, Succeeds
      <4>2. CASE recorded' = PartWay(held, source, through)
        BY <3>1, <4>1, <4>2 DEF Committed
      <4>3. CASE recorded' = Finished(held, source)
        BY <3>1, <4>1, <4>3 DEF Committed
      <4> QED BY <3>1, <4>2, <4>3 DEF Commits
    <3>4. s = source /\ k \in refused => kept[<< s, k >>] = 0
      BY <3>1 DEF FeedInv, RefusalsFollow
    <3> QED BY <2>3, <3>1, <3>2, <3>3, <3>4 DEF InHand
  <2>7. CASE QuarantineAll /\ ~CutShort
    <3>1. pc = "refusing" /\ SetAside
      BY <2>7 DEF QuarantineAll, CommitFails
    <3>2. kept'[<< s, k >>] = IF s = source /\ k \in refused THEN kept[<< s, k >>] + 1
                                                           ELSE kept[<< s, k >>]
      BY <2>2, <3>1 DEF SetAside
    <3>3. Wanted
      BY <2>1, <3>1 DEF SetAside
    <3>4. s = source /\ k \in refused => kept[<< s, k >>] = 0
      BY <3>1 DEF FeedInv, RefusalsFollow, Leaving
    <3> QED BY <1>2, <3>2, <3>3, <3>4 DEF InHand
  <2>8. CASE \/ StartRun \/ PassOver \/ Open \/ Read \/ Decide \/ EndRun
             \/ Resume \/ UNCHANGED vars
    <3>1. Undisturbed
      BY <2>8 DEF StartRun, PassOver, Open, Read, Decide, EndRun, Resume, vars, Undisturbed
    <3>2. CASE pc \in { "idle", "listing", "deciding" }
      BY <2>5, <3>1, <3>2 DEF FeedInv, LeftBehind
    <3>3. CASE Read
      BY <2>5, <3>1, <3>3 DEF Read, InHand
    <3>4. CASE Resume \/ UNCHANGED vars
      BY <2>5, <3>1, <3>4 DEF Resume, vars, run, batch, InHand
    <3> QED
      BY <2>8, <3>2, <3>3, <3>4 DEF StartRun, PassOver, Open, Decide, EndRun
  <2> QED
    BY <1>5, <2>4, <2>6, <2>7, <2>8, CloseSteps, EndSourceSteps DEF Next, Task, Crash
<1> QED BY <1>4, <1>5

-----------------------------------------------------------------------------
(* The invariant, and what follows from it.                                *)

LEMMA InvariantKept ==
  Survivable => (FeedInv /\ [Next]_vars => FeedInv')
<1> SUFFICES ASSUME Survivable, FeedInv, [Next]_vars PROVE FeedInv'
  OBVIOUS
<1>1. /\ TypeOK' /\ TextFits' /\ Frontier' /\ Running' /\ InSource'
      /\ InHandIsUnread' /\ LeftBehind' /\ RowsFollow'
  BY TypesKept, TextKept, FrontierKept, RunningKept, InSourceKept, InHandIsUnreadKept,
     LeftBehindKept, RowsKept
<1>2. RefusalsFollow'
  <2>1. \A s \in Sources, k \in Lines :
          kept'[<< s, k >>] # 0 => s \in spool' /\ Covered(recorded', s, k)
    BY KeptIsCovered
  <2>2. HeldBack' /\ RefusalsAccountedFor'
    BY HeldBackKept, AccountedKept
  <2>3. \A s, k : Covered(recorded', s, k) <=> Covered(recorded, s, k)'
    BY DEF Covered, Standing, Skipped
  <2> QED BY <2>1, <2>2, <2>3 DEF RefusalsFollow, HeldBack, Lines, Sources
<1> QED BY <1>1, <1>2 DEF FeedInv

(* The feed's state stays within its types, the numbers within the bounds  *)
(* the code relies on: lines published or refused are lines read through.  *)
THEOREM Typed == Survivable => (Spec => []TypeOK)
<1> SUFFICES ASSUME Survivable PROVE Spec => []TypeOK
  OBVIOUS
<1>0. FeedInv /\ [Next]_vars => FeedInv'
  BY InvariantKept
<1>1. FeedInv => TypeOK
  BY DEF FeedInv
<1> QED BY <1>0, <1>1, Initially, PTL DEF Spec

(* A record that fits is in the table once if the position covers it and   *)
(* not at all if it does not, for any number of sources, lines, crashes    *)
(* and failed commits (commit_batch: rows and position in one commit).     *)
THEOREM RowsMatchPosition == Survivable => (Spec => []ExactlyOnce)
<1> SUFFICES ASSUME Survivable PROVE Spec => []ExactlyOnce
  OBVIOUS
<1>0. FeedInv /\ [Next]_vars => FeedInv'
  BY InvariantKept
<1>1. FeedInv => ExactlyOnce
  <2> SUFFICES ASSUME FeedInv, NEW s \in spool, NEW k \in Lines, Good(s, k)
               PROVE  landed[<< s, k >>] = IF Covered(recorded, s, k) THEN 1 ELSE 0
    BY DEF ExactlyOnce, Lines
  <2> QED BY DEF FeedInv, TypeOK, RowsFollow
<1> QED BY <1>0, <1>1, Initially, PTL DEF Spec

(* A record refused and read past is in the quarantine once, or in hand,   *)
(* unless a run was cut short in its source (quarantine_all).              *)
THEOREM RefusalsAreAccountedFor == Survivable => (Spec => []RefusalsAccountedFor)
<1> SUFFICES ASSUME Survivable PROVE Spec => []RefusalsAccountedFor
  OBVIOUS
<1>0. FeedInv /\ [Next]_vars => FeedInv'
  BY InvariantKept
<1>1. FeedInv => RefusalsAccountedFor
  BY DEF FeedInv, RefusalsFollow
<1> QED BY <1>0, <1>1, Initially, PTL DEF Spec

(* What the position covers it covers for ever: no step of a run, a crash  *)
(* or a delivery makes a line that was read eligible to be read again.     *)
THEOREM PositionNeverForgets == Survivable => (Spec => NeverForgets)
<1> SUFFICES ASSUME Survivable PROVE Spec => NeverForgets
  OBVIOUS
<1>0. FeedInv /\ [Next]_vars => FeedInv'
  BY InvariantKept
<1>1. FeedInv /\ [Next]_vars =>
        [ \A s \in spool, k \in Lines :
            Covered(recorded, s, k) => Covered(recorded', s, k) ]_vars
  BY CoverGrows
<1>2. FeedInv /\ [Next]_vars =>
        [ \A s \in spool, k \in 1..MaxLines :
            Covered(recorded, s, k) => Covered(recorded', s, k) ]_vars
  BY <1>1 DEF Lines
<1> QED BY <1>0, <1>2, Initially, PTL DEF Spec, NeverForgets

-----------------------------------------------------------------------------
(* The capture.                                                            *)

-----------------------------------------------------------------------------
(* The source.  A transaction's first message is at the position that      *)
(* names it, its last ends it, and what is sent of it between lies in its  *)
(* blocks.                                                                 *)

MessageKinds == Openings \cup Endings \cup RowKinds \cup { "truncate" }
Messages == [kind : MessageKinds, xid : Nat, table : Tables \cup { NoTable }, columns : Nat]
InBlock == RowKinds \cup { "truncate", "commit" }

Begun(x) == x \in DOMAIN stream /\ stream[x].xid = x
EndedBefore(x, n) == \E e \in DOMAIN stream : e < n /\ stream[e].xid = x /\ stream[e].kind \in Endings

\* A transaction is named by its first message, nothing of it follows its last,
\* and a row follows a message of its own transaction.
StreamTyped == stream \in Seq(Messages)

NamedByFirst == \A i \in DOMAIN stream :
  /\ stream[i].xid \in 1..i /\ Begun(stream[i].xid)
  /\ stream[i].xid = i => stream[i].kind \in Openings

NothingAfterEnd == \A i, j \in DOMAIN stream :
  i < j /\ stream[i].kind \in Endings => stream[j].xid # stream[i].xid

BlocksWhole == \A i \in DOMAIN stream :
  stream[i].kind \in InBlock =>
    i > 1 /\ stream[i - 1].xid = stream[i].xid /\ stream[i - 1].kind \notin Endings

\* The transactions the source holds open began and have not ended.
OpenOnes ==
  /\ block \in Nat /\ streaming \subseteq Nat \ { NoTransaction } /\ shape \in [Tables -> Nat]
  /\ \A x \in (streaming \cup { block }) \ { NoTransaction } :
       Begun(x) /\ ~EndedBefore(x, Len(stream) + 1)
  /\ block # NoTransaction =>
       stream[Len(stream)].xid = block /\ stream[Len(stream)].kind \notin Endings

SourceInv == StreamTyped /\ NamedByFirst /\ NothingAfterEnd /\ BlocksWhole /\ OpenOnes

-----------------------------------------------------------------------------
(* The process.                                                            *)

Changes == [row : Nat, lsn : Nat]
Rows == UNION { [D -> SUBSET Nat] : D \in SUBSET Nat }
BatcherStates == [sealed : SUBSET Changes, open : Rows, current : Nat, seals : Nat, covers : Nat]
Onboarded == [onboarded : {TRUE}, columns : Nat, batcher : BatcherStates, quarantined : BOOLEAN,
              pending : Nat \cup { Undescribed }, version : Nat, through : Nat]

\* A process that does not run remembers nothing, and one that does publishes
\* tables it knows.
ProcessTyped ==
  /\ arriving \in 1..(Len(stream) + 1)
  /\ opening \in Nat
  /\ tables \in [Tables -> Onboarded \cup { NotOnboarded }]
  /\ described \in [Tables -> Int]
  /\ running \in BOOLEAN
  /\ ~running => tables = [t \in Tables |-> NotOnboarded] /\ opening = NoTransaction
  /\ work \in [kind : { "idle", "publish", "evolve" }, todo : SUBSET Tables,
               table : Tables \cup { NoTable }, columns : Nat]
  /\ \A t \in work.todo : tables[t].onboarded
  /\ work.kind = "evolve" => work.table \in Tables /\ tables[work.table].onboarded

\* A row of a table the pipeline was not told of is never delivered.
DescribedIsOnboarded == running =>
  \A t \in Tables : described[t] # Undescribed => tables[t].onboarded

(* What arrives inside a block belongs to the transaction that is open.    *)
KnowsItsBlock == running =>
  /\ arriving \in DOMAIN stream /\ stream[arriving].kind \in InBlock =>
       opening = stream[arriving].xid
  /\ arriving = Len(stream) + 1 /\ block # NoTransaction => opening = block
  /\ \A t \in Tables : tables[t].onboarded /\ opening # NoTransaction =>
       tables[t].batcher.current = opening

RowOf(t, r) == r \in DOMAIN stream /\ stream[r].table = t /\ stream[r].kind \in RowKinds

(* What a batcher holds is what the source sent, and seals what it         *)
(* committed; and a position that is in the log and unknown to the process *)
(* is that of an append that was made and reported as failed.              *)
BatcherTrue(t) ==
  LET b == tables[t].batcher
  IN  /\ b.covers < arriving
      /\ b.sealed \subseteq CommittedChanges(t)
      /\ \A m \in b.sealed : m.lsn <= b.covers
      /\ \A x \in DOMAIN b.open : \A r \in b.open[x] :
           RowOf(t, r) /\ r < arriving /\ stream[r].xid = x
      /\ tables[t].through <= LogPosition(t)
      /\ LogPosition(t) <= tables[t].through \/ LogPosition(t) <= b.covers
      /\ \A m \in b.sealed : m.lsn > tables[t].through => m.lsn > LogPosition(t)

BatchersTrue == \A t \in Tables : tables[t].onboarded => BatcherTrue(t)

(* No row that was delivered is forgotten before its transaction ends ...  *)
Waits(t, r) ==
  /\ tables[t].onboarded
  /\ stream[r].xid \in DOMAIN tables[t].batcher.open
  /\ r \in tables[t].batcher.open[stream[r].xid]

RowsWait == running =>
  \A t \in Tables, r \in DOMAIN stream :
    RowOf(t, r) /\ r < arriving /\ ~EndedBefore(stream[r].xid, arriving) =>
      r \in givenUp \/ Waits(t, r)

(* ... nor after it commits.                                               *)
ChangesKept == running =>
  \A t \in Tables : \A c \in CommittedChanges(t) :
    c.lsn < arriving =>
      \/ c.lsn <= LogPosition(t) \/ c.row \in givenUp
      \/ tables[t].onboarded /\ c \in tables[t].batcher.sealed

-----------------------------------------------------------------------------
(* The log.                                                                *)

Commitments == [kind : { "append", "metadata", "other" }, rows : SUBSET Changes, covers : Nat, columns : Nat]

LogTyped == log \in [Tables -> Seq(Commitments)]

(* Each append covers its rows, which the source committed, and goes from  *)
(* where the one before it ended.                                          *)
AppendsTrue ==
  \A t \in Tables :
    /\ \A i \in DOMAIN log[t] : log[t][i].kind # "append" => log[t][i].rows = {}
    /\ \A i \in AppendsAt(t) :
         /\ log[t][i].rows \subseteq CommittedChanges(t)
         /\ log[t][i].covers <= Len(stream)
         /\ \A m \in log[t][i].rows : m.lsn <= log[t][i].covers
    /\ \A i, j \in AppendsAt(t) : i < j =>
         /\ log[t][i].covers < log[t][j].covers
         /\ \A m \in log[t][j].rows : m.lsn > log[t][i].covers

CaptureInv ==
  /\ SourceInv
  /\ ProcessTyped /\ DescribedIsOnboarded /\ KnowsItsBlock
  /\ BatchersTrue /\ RowsWait /\ ChangesKept
  /\ LogTyped /\ AppendsTrue

-----------------------------------------------------------------------------
(* What the source may send.                                               *)

\* A message names itself if it begins a transaction, and otherwise one that
\* is open; what lies in a block is of the transaction the block belongs to.
MaySend(m) ==
  /\ m \in Messages
  /\ \/ m.xid = Len(stream) + 1 /\ m.kind \in Openings
     \/ Begun(m.xid) /\ ~EndedBefore(m.xid, Len(stream) + 1)
  /\ m.kind \in InBlock => block # NoTransaction /\ m.xid = block

\* What sending a message does to the stream.
LEMMA StreamGrows ==
  ASSUME StreamTyped, NEW m \in Messages, Produce(m)
  PROVE  /\ Len(stream) \in Nat /\ DOMAIN stream = 1..Len(stream)
         /\ DOMAIN stream' = 1..(Len(stream) + 1) /\ Len(stream') = Len(stream) + 1
         /\ \A i \in 1..Len(stream) : stream'[i] = stream[i]
         /\ stream'[Len(stream) + 1] = m
         /\ StreamTyped'
<1>1. stream \in Seq(Messages) /\ stream' = Append(stream, m)
  BY DEF StreamTyped, Produce
<1>2. /\ Append(stream, m) \in Seq(Messages)
      /\ Len(Append(stream, m)) = Len(stream) + 1
      /\ \A i \in 1..Len(stream) : Append(stream, m)[i] = stream[i]
      /\ Append(stream, m)[Len(stream) + 1] = m
  BY <1>1, AppendProperties
<1>3. Len(stream) \in Nat /\ DOMAIN stream = 1..Len(stream)
  BY <1>1
<1>4. DOMAIN stream' = 1..Len(stream')
  BY <1>1, <1>2
<1> QED
  BY <1>1, <1>2, <1>3, <1>4 DEF StreamTyped

\* Such a message leaves the stream as the source makes it.
LEMMA SendKeeps ==
  ASSUME SourceInv, NEW m, MaySend(m), Produce(m)
  PROVE  StreamTyped' /\ NamedByFirst' /\ NothingAfterEnd' /\ BlocksWhole'
<1> PICK n : n = Len(stream) + 1
  OBVIOUS
<1>1. /\ n \in Nat \ {0} /\ Len(stream) = n - 1
      /\ DOMAIN stream = 1..(n - 1) /\ DOMAIN stream' = 1..n
      /\ \A i \in 1..(n - 1) : stream'[i] = stream[i]
      /\ stream'[n] = m /\ StreamTyped'
  <2>1. StreamTyped /\ m \in Messages
    BY DEF SourceInv, MaySend
  <2> QED
    BY <2>1, StreamGrows
<1>2. /\ (m.xid = n /\ m.kind \in Openings) \/ (Begun(m.xid) /\ ~EndedBefore(m.xid, n))
      /\ m.kind \in InBlock => block # NoTransaction /\ m.xid = block
  BY DEF MaySend
<1>3. NamedByFirst'
  <2> SUFFICES ASSUME NEW i \in 1..n
               PROVE  /\ stream'[i].xid \in 1..i
                      /\ stream'[i].xid \in DOMAIN stream' /\ stream'[stream'[i].xid].xid = stream'[i].xid
                      /\ stream'[i].xid = i => stream'[i].kind \in Openings
    BY <1>1 DEF NamedByFirst, Begun
  <2>1. CASE i \in 1..(n - 1)
    <3> PICK x : x = stream[i].xid
      OBVIOUS
    <3>1. x \in 1..i /\ x \in DOMAIN stream /\ stream[x].xid = x /\ (x = i => stream[i].kind \in Openings)
      BY <1>1, <2>1 DEF SourceInv, NamedByFirst, Begun
    <3>2. stream'[i] = stream[i] /\ stream'[x] = stream[x] /\ x \in DOMAIN stream'
      BY <1>1, <2>1, <3>1
    <3> QED
      BY <3>1, <3>2
  <2>2. CASE i = n /\ m.xid = n /\ m.kind \in Openings
    BY <1>1, <2>2
  <2>3. CASE i = n /\ Begun(m.xid)
    <3>1. m.xid \in 1..(n - 1) /\ stream[m.xid].xid = m.xid
      BY <1>1, <2>3 DEF Begun
    <3> QED
      BY <1>1, <2>3, <3>1
  <2> QED
    BY <1>1, <1>2, <2>1, <2>2, <2>3
<1>4. NothingAfterEnd'
  <2> SUFFICES ASSUME NEW i \in 1..n, NEW j \in 1..n, i < j, stream'[i].kind \in Endings
               PROVE  stream'[j].xid # stream'[i].xid
    BY <1>1 DEF NothingAfterEnd
  <2>1. i \in 1..(n - 1) /\ stream'[i] = stream[i]
    BY <1>1
  <2>2. CASE j \in 1..(n - 1)
    BY <1>1, <2>1, <2>2 DEF SourceInv, NothingAfterEnd
  <2>3. CASE j = n
    <3>1. stream[i].xid \in 1..i
      BY <1>1, <2>1 DEF SourceInv, NamedByFirst
    <3>2. stream[i].xid # n
      BY <1>1, <2>1, <3>1
    <3>3. Begun(m.xid) => EndedBefore(stream[i].xid, n)
      BY <1>1, <2>1 DEF EndedBefore
    <3> QED
      BY <1>1, <1>2, <2>1, <2>3, <3>2, <3>3
  <2> QED
    BY <1>1, <2>2, <2>3
<1>5. BlocksWhole'
  <2> SUFFICES ASSUME NEW i \in 1..n, stream'[i].kind \in InBlock
               PROVE  i > 1 /\ stream'[i - 1].xid = stream'[i].xid /\ stream'[i - 1].kind \notin Endings
    BY <1>1 DEF BlocksWhole
  <2>1. CASE i \in 1..(n - 1)
    <3>1. i > 1 /\ stream[i - 1].xid = stream[i].xid /\ stream[i - 1].kind \notin Endings
      BY <1>1, <2>1 DEF SourceInv, BlocksWhole
    <3>2. i - 1 \in 1..(n - 1)
      BY <1>1, <2>1, <3>1
    <3> QED
      BY <1>1, <2>1, <3>1, <3>2
  <2>2. CASE i = n
    <3>1. block # NoTransaction /\ m.xid = block
      BY <1>1, <1>2, <2>2
    <3>2. block \in DOMAIN stream /\ stream[n - 1].xid = block /\ stream[n - 1].kind \notin Endings
      BY <1>1, <3>1 DEF SourceInv, OpenOnes, Begun
    <3>3. n > 1 /\ n - 1 \in 1..(n - 1)
      BY <1>1, <3>2
    <3> QED
      BY <1>1, <2>2, <3>1, <3>2, <3>3
  <2> QED
    BY <1>1, <2>1, <2>2
<1> QED
  BY <1>1, <1>3, <1>4, <1>5

\* A transaction that begins is none that was.
LEMMA BeginsNew ==
  ASSUME SourceInv
  PROVE  /\ Len(stream) + 1 \in Nat \ { NoTransaction }
         /\ ~Begun(Len(stream) + 1) /\ ~EndedBefore(Len(stream) + 1, Len(stream) + 1)
<1> PICK n : n = Len(stream) + 1
  OBVIOUS
<1>1. n \in Nat \ {0} /\ DOMAIN stream = 1..(n - 1)
  BY DEF SourceInv, StreamTyped
<1>2. \A i \in 1..(n - 1) : stream[i].xid \in 1..i
  BY <1>1 DEF SourceInv, NamedByFirst
<1>3. \A i \in 1..(n - 1) : stream[i].xid # n
  BY <1>1, <1>2
<1>4. n \notin 1..(n - 1)
  BY <1>1
<1> QED
  BY <1>1, <1>3, <1>4 DEF Begun, EndedBefore, NoTransaction

\* What is open stays so until a message ends it.
LEMMA StillOpen ==
  ASSUME SourceInv, NEW m, MaySend(m), Produce(m), NEW x \in Nat,
         \/ Begun(x) /\ ~EndedBefore(x, Len(stream) + 1)
         \/ x = Len(stream) + 1 /\ m.xid = x,
         m.xid = x => m.kind \notin Endings
  PROVE  Begun(x)' /\ ~EndedBefore(x, Len(stream) + 1)'
<1> PICK n : n = Len(stream) + 1
  OBVIOUS
<1>1. /\ n \in Nat \ {0} /\ Len(stream') = n
      /\ DOMAIN stream = 1..(n - 1) /\ DOMAIN stream' = 1..n
      /\ \A i \in 1..(n - 1) : stream'[i] = stream[i]
      /\ stream'[n] = m
  <2>1. StreamTyped /\ m \in Messages
    BY DEF SourceInv, MaySend
  <2> QED
    BY <2>1, StreamGrows
<1>2. ~EndedBefore(x, n)
  BY BeginsNew
<1>3. Begun(x)'
  BY <1>1 DEF Begun
<1>4. ASSUME NEW e \in 1..n, e < n + 1, stream'[e].xid = x, stream'[e].kind \in Endings PROVE FALSE
  <2>1. e # n
    BY <1>1, <1>4
  <2>2. e \in 1..(n - 1) /\ e < n
    BY <1>1, <2>1
  <2> QED
    BY <1>1, <1>2, <1>4, <2>2 DEF EndedBefore
<1> QED
  BY <1>1, <1>3, <1>4 DEF EndedBefore

\* What the source holds open after a message was open, or is what the message
\* names, and is not what it ends.
LEMMA OpenAfter ==
  ASSUME SourceInv, NEW m, MaySend(m), Produce(m),
         block' \in Nat, streaming' \subseteq Nat \ { NoTransaction }, shape' \in [Tables -> Nat],
         streaming' \cup { block' } \subseteq streaming \cup { block, NoTransaction, m.xid },
         m.kind \in Endings => m.xid \notin (streaming' \cup { block' }) \ { NoTransaction },
         block' # NoTransaction => m.xid = block' /\ m.kind \notin Endings
  PROVE  SourceInv'
<1>1. StreamTyped' /\ NamedByFirst' /\ NothingAfterEnd' /\ BlocksWhole'
  BY SendKeeps
<1>2. stream'[Len(stream')] = m
  <2>1. StreamTyped /\ m \in Messages
    BY DEF SourceInv, MaySend
  <2> QED
    BY <2>1, StreamGrows
<1>3. ASSUME NEW x \in (streaming' \cup { block' }) \ { NoTransaction }
      PROVE  Begun(x)' /\ ~EndedBefore(x, Len(stream) + 1)'
  <2>1. \/ Begun(x) /\ ~EndedBefore(x, Len(stream) + 1)
        \/ x = Len(stream) + 1 /\ m.xid = x
    BY DEF SourceInv, OpenOnes, MaySend
  <2>2. x \in Nat /\ (m.xid = x => m.kind \notin Endings)
    OBVIOUS
  <2> QED
    BY <2>1, <2>2, StillOpen
<1> QED
  BY <1>1, <1>2, <1>3 DEF SourceInv, OpenOnes

\* A message of a transaction that is open, and of the block if it lies in one.
LEMMA OpenMaySend ==
  ASSUME SourceInv, NEW x \in (streaming \cup { block }) \ { NoTransaction }, NEW kind \in MessageKinds,
         NEW t \in Tables \cup { NoTable }, NEW columns \in Nat,
         kind \in InBlock => x = block
  PROVE  MaySend(Message(kind, x, t, columns))
<1>1. Begun(x) /\ ~EndedBefore(x, Len(stream) + 1) /\ x \in Nat
  BY DEF SourceInv, OpenOnes
<1> QED
  BY <1>1 DEF MaySend, Message, Messages

LEMMA NewMaySend ==
  ASSUME SourceInv, NEW kind \in Openings
  PROVE  MaySend(Message(kind, Len(stream) + 1, NoTable, 0))
<1>1. Len(stream) + 1 \in Nat
  BY BeginsNew
<1>2. kind \in MessageKinds /\ kind \notin InBlock
  BY DEF MessageKinds, Openings, InBlock, RowKinds
<1> QED
  BY <1>1, <1>2 DEF MaySend, Message, Messages

\* The source sends only such messages, and keeps its invariant.
LEMMA SourceSends ==
  ASSUME SourceInv, Source
  PROVE  SourceInv' /\ \E m : MaySend(m) /\ Produce(m)
<1>1. /\ block \in Nat /\ streaming \subseteq Nat \ { NoTransaction } /\ shape \in [Tables -> Nat]
      /\ \A y \in Shapes : y \in Nat
  BY CaptureAssumption DEF CaptureAssumption, SourceInv, OpenOnes
<1>2. ASSUME Begin PROVE SourceInv' /\ \E m : MaySend(m) /\ Produce(m)
  <2>1. PICK m : m = Message("begin", Len(stream) + 1, NoTable, 0)
    OBVIOUS
  <2>2. MaySend(m) /\ Produce(m) /\ block' = m.xid /\ UNCHANGED << streaming, shape >>
    BY <1>2, <2>1, NewMaySend DEF Begin, Openings, Message
  <2>3. m.xid \in Nat /\ m.kind \notin Endings
    BY <2>1, BeginsNew DEF Message, Endings
  <2>4. SourceInv'
    BY <1>1, <2>2, <2>3, OpenAfter
  <2> QED
    BY <2>2, <2>4
<1>3. ASSUME End PROVE SourceInv' /\ \E m : MaySend(m) /\ Produce(m)
  <2>1. PICK m : m = Message("commit", block, NoTable, 0)
    OBVIOUS
  <2>2. /\ Produce(m) /\ block' = NoTransaction /\ UNCHANGED << streaming, shape >>
        /\ block # NoTransaction /\ block \notin streaming
    BY <1>3, <2>1 DEF End, Streamed
  <2>3. MaySend(m) /\ m.xid = block
    BY <1>1, <2>1, <2>2, OpenMaySend DEF MessageKinds, Endings, Message
  <2>4. SourceInv'
    BY <1>1, <2>2, <2>3, OpenAfter DEF NoTransaction
  <2> QED
    BY <2>2, <2>3, <2>4
<1>4. ASSUME StreamChunk PROVE SourceInv' /\ \E m : MaySend(m) /\ Produce(m)
  <2>1. PICK x : /\ x \in (streaming \ { block }) \cup { Len(stream) + 1 }
                 /\ Produce(Message("start", x, NoTable, 0))
                 /\ block' = x /\ streaming' = streaming \cup { x }
    BY <1>4 DEF StreamChunk
  <2>2. PICK m : m = Message("start", x, NoTable, 0)
    OBVIOUS
  <2>3. MaySend(m)
    <3>1. CASE x = Len(stream) + 1
      BY <2>2, <3>1, NewMaySend DEF Openings
    <3>2. CASE x \in streaming
      <4>1. "start" \in MessageKinds /\ "start" \notin InBlock
        BY DEF MessageKinds, Openings, InBlock, RowKinds
      <4> QED
        BY <1>1, <2>2, <3>2, <4>1, OpenMaySend
    <3> QED
      BY <2>1, <3>1, <3>2
  <2>4. m.xid = x /\ m.kind \notin Endings
    BY <2>2 DEF Message, Endings
  <2>5. x \in Nat \ { NoTransaction }
    BY <1>1, <2>1, BeginsNew
  <2>6. UNCHANGED shape
    BY <1>4 DEF StreamChunk
  <2>7. SourceInv'
    BY <1>1, <2>1, <2>2, <2>3, <2>4, <2>5, <2>6, OpenAfter
  <2> QED
    BY <2>1, <2>2, <2>3, <2>7
<1>5. ASSUME NEW kind \in { "stream_commit", "stream_abort" }, StreamEnd(kind)
      PROVE  SourceInv' /\ \E m : MaySend(m) /\ Produce(m)
  <2>1. PICK x \in streaming : Produce(Message(kind, x, NoTable, 0)) /\ streaming' = streaming \ { x }
    BY <1>5 DEF StreamEnd
  <2>2. PICK m : m = Message(kind, x, NoTable, 0)
    OBVIOUS
  <2>3. kind \in MessageKinds /\ kind \notin InBlock
    BY DEF MessageKinds, Endings, InBlock, RowKinds
  <2>4. MaySend(m) /\ m.xid = x
    BY <1>1, <2>2, <2>3, OpenMaySend DEF Message
  <2>5. block' = NoTransaction /\ UNCHANGED shape
    BY <1>5 DEF StreamEnd
  <2>6. SourceInv'
    BY <1>1, <2>1, <2>2, <2>4, <2>5, OpenAfter DEF NoTransaction
  <2> QED
    BY <2>1, <2>2, <2>4, <2>6
<1>6. ASSUME NEW kind \in RowKinds \cup { "truncate" }, NEW t \in Tables, NEW columns \in Nat,
             Produce(Message(kind, block, t, columns)),
             block # NoTransaction, UNCHANGED << block, streaming >>, shape' \in [Tables -> Nat]
      PROVE  SourceInv' /\ \E m : MaySend(m) /\ Produce(m)
  <2>1. PICK m : m = Message(kind, block, t, columns)
    OBVIOUS
  <2>2. kind \in MessageKinds /\ kind \notin Endings
    BY DEF MessageKinds, Endings, RowKinds
  <2>3. MaySend(m) /\ m.xid = block /\ m.kind \notin Endings
    BY <1>1, <1>6, <2>1, <2>2, OpenMaySend DEF Message
  <2>4. SourceInv'
    BY <1>1, <1>6, <2>1, <2>3, OpenAfter
  <2> QED
    BY <1>6, <2>1, <2>3, <2>4
<1>7. ASSUME Change PROVE SourceInv' /\ \E m : MaySend(m) /\ Produce(m)
  <2>1. PICK t \in Tables, columns \in Shapes :
          Produce(Message("row", block, t, columns)) /\ shape' = [shape EXCEPT ![t] = columns]
    BY <1>7 DEF Change
  <2>2. block # NoTransaction /\ UNCHANGED << block, streaming >>
    BY <1>7 DEF Change
  <2>3. shape' \in [Tables -> Nat]
    BY <1>1, <2>1
  <2>4. "row" \in RowKinds \cup { "truncate" }
    BY DEF RowKinds
  <2> QED
    BY <1>1, <1>6, <2>1, <2>2, <2>3, <2>4
<1>8. ASSUME Withhold PROVE SourceInv' /\ \E m : MaySend(m) /\ Produce(m)
  <2>1. PICK t \in Tables : Produce(Message("withheld", block, t, shape[t]))
    BY <1>8 DEF Withhold
  <2>2. block # NoTransaction /\ UNCHANGED << block, streaming, shape >>
    BY <1>8 DEF Withhold
  <2>3. "withheld" \in RowKinds \cup { "truncate" }
    BY DEF RowKinds
  <2> QED
    BY <1>1, <1>6, <2>1, <2>2, <2>3
<1>9. ASSUME Truncate PROVE SourceInv' /\ \E m : MaySend(m) /\ Produce(m)
  <2>1. PICK t \in Tables : Produce(Message("truncate", block, t, 0))
    BY <1>9 DEF Truncate
  <2>2. block # NoTransaction /\ UNCHANGED << block, streaming, shape >>
    BY <1>9 DEF Truncate
  <2> QED
    BY <1>1, <1>6, <2>1, <2>2
<1> QED
  BY <1>2, <1>3, <1>4, <1>5, <1>7, <1>8, <1>9 DEF Source

\* Whatever else moves leaves it as it is.
LEMMA SourceStays ==
  ASSUME SourceInv, UNCHANGED << stream, block, streaming, shape >>
  PROVE  SourceInv'
<1>1. UNCHANGED stream /\ UNCHANGED block /\ UNCHANGED streaming /\ UNCHANGED shape
  OBVIOUS
<1> QED
  BY <1>1 DEF SourceInv, StreamTyped, NamedByFirst, NothingAfterEnd, BlocksWhole, OpenOnes, Begun, EndedBefore

-----------------------------------------------------------------------------
(* What is committed.                                                      *)

CommitsAt(i) == stream[i].kind \in Endings \ { "stream_abort" }

\* A transaction commits where the message that commits it is.
CommitsKnown == \A x :
  /\ \A i \in DOMAIN stream : stream[i].xid = x /\ CommitsAt(i) => CommitOf(x) = i
  /\ CommitOf(x) # 0 =>
       CommitOf(x) \in DOMAIN stream /\ stream[CommitOf(x)].xid = x /\ CommitsAt(CommitOf(x))

\* No transaction commits twice.
LEMMA CommitsAreKnown == SourceInv => CommitsKnown
<1> SUFFICES ASSUME SourceInv, NEW x
             PROVE  /\ \A i \in DOMAIN stream : stream[i].xid = x /\ CommitsAt(i) => CommitOf(x) = i
                    /\ CommitOf(x) # 0 =>
                         CommitOf(x) \in DOMAIN stream /\ stream[CommitOf(x)].xid = x /\ CommitsAt(CommitOf(x))
  BY DEF CommitsKnown
<1> DEFINE A == { i \in DOMAIN stream : stream[i].xid = x /\ stream[i].kind \in Endings \ { "stream_abort" } }
<1>1. CommitOf(x) = IF A = {} THEN 0 ELSE CHOOSE i \in A : TRUE
  BY DEF CommitOf
<1>2. A # {} => CommitOf(x) \in A
  BY <1>1
<1>3. ASSUME NEW i \in A, NEW j \in A PROVE i = j
  <2>1. i \in Nat /\ j \in Nat
    BY DEF SourceInv, StreamTyped
  <2>2. ~(i < j) /\ ~(j < i)
    BY DEF SourceInv, NothingAfterEnd
  <2> QED
    BY <2>1, <2>2
<1>4. ASSUME NEW i \in DOMAIN stream, stream[i].xid = x, CommitsAt(i) PROVE CommitOf(x) = i
  <2>1. i \in A
    BY <1>4 DEF CommitsAt
  <2> QED
    BY <1>2, <1>3, <2>1
<1>5. CommitOf(x) # 0 => CommitOf(x) \in A
  BY <1>1, <1>2
<1>6. CommitOf(x) \in A => CommitOf(x) \in DOMAIN stream /\ stream[CommitOf(x)].xid = x /\ CommitsAt(CommitOf(x))
  BY DEF CommitsAt
<1> QED
  BY <1>4, <1>5, <1>6

\* What a change that is committed is.
ChangesKnown == \A t \in Tables :
  /\ \A c \in CommittedChanges(t) :
       /\ c \in Changes /\ RowOf(t, c.row)
       /\ c.lsn \in DOMAIN stream /\ c.lsn = CommitOf(stream[c.row].xid)
  /\ \A r \in DOMAIN stream :
       RowOf(t, r) /\ CommitOf(stream[r].xid) # 0 =>
         [row |-> r, lsn |-> CommitOf(stream[r].xid)] \in CommittedChanges(t)

LEMMA ChangesAreKnown == SourceInv => CommitsKnown /\ ChangesKnown
<1> SUFFICES ASSUME SourceInv, NEW t \in Tables
             PROVE  /\ \A c \in CommittedChanges(t) :
                         /\ c \in Changes /\ RowOf(t, c.row)
                         /\ c.lsn \in DOMAIN stream /\ c.lsn = CommitOf(stream[c.row].xid)
                    /\ \A r \in DOMAIN stream :
                         RowOf(t, r) /\ CommitOf(stream[r].xid) # 0 =>
                           [row |-> r, lsn |-> CommitOf(stream[r].xid)] \in CommittedChanges(t)
  BY CommitsAreKnown DEF ChangesKnown
<1>1. CommitsKnown /\ DOMAIN stream \subseteq Nat
  BY CommitsAreKnown DEF SourceInv, StreamTyped
<1> DEFINE R == { j \in DOMAIN stream : stream[j].table = t /\ stream[j].kind \in RowKinds }
           M == { [row |-> i, lsn |-> CommitOf(stream[i].xid)] : i \in R }
<1>2. CommittedChanges(t) = { m \in M : m.lsn # 0 }
  BY DEF CommittedChanges
<1>3. ASSUME NEW c \in CommittedChanges(t)
      PROVE  /\ c \in Changes /\ RowOf(t, c.row)
             /\ c.lsn \in DOMAIN stream /\ c.lsn = CommitOf(stream[c.row].xid)
  <2>1. PICK i \in R : c = [row |-> i, lsn |-> CommitOf(stream[i].xid)] /\ c.lsn # 0
    BY <1>2
  <2>2. CommitOf(stream[i].xid) \in DOMAIN stream
    BY <1>1, <2>1 DEF CommitsKnown
  <2> QED
    BY <1>1, <2>1, <2>2 DEF Changes, RowOf
<1>4. ASSUME NEW r \in DOMAIN stream, RowOf(t, r), CommitOf(stream[r].xid) # 0
      PROVE  [row |-> r, lsn |-> CommitOf(stream[r].xid)] \in CommittedChanges(t)
  <2>1. r \in R
    BY <1>4 DEF RowOf
  <2> QED
    BY <1>2, <1>4, <2>1
<1> QED
  BY <1>3, <1>4

\* What is committed stays so, and what a message commits is committed there.
LEMMA ChangesGrow ==
  ASSUME SourceInv, SourceInv', NEW m, MaySend(m), Produce(m), NEW t \in Tables
  PROVE  /\ CommittedChanges(t) \subseteq CommittedChanges(t)'
         /\ \A c \in CommittedChanges(t)' : c \in CommittedChanges(t) \/ c.lsn = Len(stream) + 1
         /\ \A r \in DOMAIN stream : /\ RowOf(t, r)' <=> RowOf(t, r)
                                     /\ stream'[r] = stream[r]
<1>1. /\ Len(stream) \in Nat /\ DOMAIN stream = 1..Len(stream) /\ DOMAIN stream' = 1..(Len(stream) + 1)
      /\ \A i \in 1..Len(stream) : stream'[i] = stream[i]
      /\ stream'[Len(stream) + 1] = m
  BY StreamGrows DEF SourceInv, MaySend
<1>2. CommitsKnown /\ ChangesKnown
  BY ChangesAreKnown
<1>3. CommitsKnown' /\ ChangesKnown'
  BY ChangesAreKnown, PTL
<1>4. \A r \in DOMAIN stream : (RowOf(t, r)' <=> RowOf(t, r)) /\ stream'[r] = stream[r]
  BY <1>1 DEF RowOf
<1>5. ASSUME NEW x, CommitOf(x) # 0 PROVE CommitOf(x)' = CommitOf(x)
  <2>1. PICK i \in DOMAIN stream : i = CommitOf(x) /\ stream[i].xid = x /\ CommitsAt(i)
    BY <1>2, <1>5 DEF CommitsKnown
  <2>2. i \in DOMAIN stream' /\ stream'[i].xid = x /\ CommitsAt(i)'
    BY <1>1, <2>1 DEF CommitsAt
  <2> QED
    BY <1>3, <2>1, <2>2 DEF CommitsKnown
<1>6. ASSUME NEW x, CommitOf(x)' \notin { 0, Len(stream) + 1 } PROVE CommitOf(x)' = CommitOf(x)
  <2>1. PICK i \in DOMAIN stream' : i = CommitOf(x)' /\ stream'[i].xid = x /\ CommitsAt(i)'
    BY <1>3, <1>6 DEF CommitsKnown
  <2>2. i \in DOMAIN stream /\ stream[i].xid = x /\ CommitsAt(i)
    BY <1>1, <1>6, <2>1 DEF CommitsAt
  <2> QED
    BY <1>2, <2>1, <2>2 DEF CommitsKnown
<1>7. ASSUME NEW c \in CommittedChanges(t) PROVE c \in CommittedChanges(t)'
  <2>1. /\ c \in Changes /\ RowOf(t, c.row)
        /\ c.lsn \in DOMAIN stream /\ c.lsn = CommitOf(stream[c.row].xid)
    BY <1>2 DEF ChangesKnown
  <2>2. c.row \in DOMAIN stream /\ c.lsn # 0
    BY <1>1, <2>1 DEF RowOf
  <2>3. c.row \in DOMAIN stream' /\ RowOf(t, c.row)' /\ stream'[c.row].xid = stream[c.row].xid
    BY <1>1, <1>4, <2>1, <2>2
  <2>4. CommitOf(stream[c.row].xid)' = c.lsn
    <3> PICK x : x = stream[c.row].xid
      OBVIOUS
    <3>1. CommitOf(x)' = c.lsn
      BY <1>5, <2>1, <2>2
    <3> QED
      BY <2>3, <3>1
  <2>5. c = [row |-> c.row, lsn |-> c.lsn]
    BY <2>1 DEF Changes
  <2> QED
    BY <1>3, <2>2, <2>3, <2>4, <2>5 DEF ChangesKnown
<1>8. ASSUME NEW c \in CommittedChanges(t)', c.lsn # Len(stream) + 1 PROVE c \in CommittedChanges(t)
  <2>1. /\ c \in Changes /\ RowOf(t, c.row)'
        /\ c.lsn \in DOMAIN stream' /\ c.lsn = CommitOf(stream[c.row].xid)'
    BY <1>3 DEF ChangesKnown
  <2> PICK x : x = stream'[c.row].xid
    OBVIOUS
  <2>2. CommitOf(x)' = c.lsn /\ c.lsn # 0
    BY <1>1, <2>1
  <2>3. CommitOf(x) = c.lsn /\ c.lsn \in DOMAIN stream
    BY <1>1, <1>6, <1>8, <2>1, <2>2
  <2>4. c.row \in DOMAIN stream
    <3>1. c.row \in DOMAIN stream' /\ stream'[c.row].kind \in RowKinds
      BY <2>1 DEF RowOf
    <3>2. stream[c.lsn].xid = x /\ CommitsAt(c.lsn)
      BY <1>2, <2>2, <2>3 DEF CommitsKnown
    <3>3. stream'[c.lsn] = stream[c.lsn] /\ c.lsn \in 1..Len(stream)
      BY <1>1, <2>3
    <3>4. stream'[c.lsn].kind \in Endings
      BY <3>2, <3>3 DEF CommitsAt
    <3>5. ~(c.lsn < c.row)
      BY <1>1, <2>1, <3>1, <3>2, <3>3, <3>4 DEF SourceInv, NothingAfterEnd
    <3> QED
      BY <1>1, <2>1, <3>1, <3>3, <3>5
  <2>5. RowOf(t, c.row) /\ stream[c.row].xid = x
    BY <1>4, <2>1, <2>4
  <2>6. c = [row |-> c.row, lsn |-> c.lsn]
    BY <2>1 DEF Changes
  <2> QED
    BY <1>2, <2>2, <2>3, <2>4, <2>5, <2>6 DEF ChangesKnown
<1> QED
  BY <1>4, <1>7, <1>8

-----------------------------------------------------------------------------
(* What messages do to a batcher.                                          *)

\* The rows a batcher keeps open, but for those of some transactions.
KeepsOpen(b, c, gone) ==
  \A x \in DOMAIN b.open \ gone : x \in DOMAIN c.open /\ b.open[x] \subseteq c.open[x]

LEMMA RowsTyped ==
  ASSUME NEW f \in Rows
  PROVE  f \in [DOMAIN f -> SUBSET Nat] /\ DOMAIN f \subseteq Nat
  BY DEF Rows

LEMMA RestrictIsRows ==
  ASSUME NEW f \in Rows, NEW S
  PROVE  LET g == Restrict(f, DOMAIN f \ S)
         IN  g \in Rows /\ DOMAIN g = DOMAIN f \ S /\ \A x \in DOMAIN g : g[x] = f[x]
<1> DEFINE D == DOMAIN f \ S
<1>1. Restrict(f, D) = [x \in D |-> f[x]]
  BY DEF Restrict
<1>2. \A x \in D : f[x] \in SUBSET Nat
  BY RowsTyped
<1>3. D \in SUBSET Nat
  BY RowsTyped
<1>4. [x \in D |-> f[x]] \in [D -> SUBSET Nat]
  BY <1>2
<1>5. [x \in D |-> f[x]] \in Rows
  BY <1>3, <1>4 DEF Rows
<1> QED
  BY <1>1, <1>5

\* Rows are put with those of their transaction.
LEMMA PutIsRows ==
  ASSUME NEW b \in BatcherStates, NEW x \in Nat, NEW rows \in SUBSET Nat
  PROVE  /\ Put(b, x, rows) \in Rows
         /\ DOMAIN Put(b, x, rows) = DOMAIN b.open \cup { x }
         /\ Put(b, x, rows)[x] = rows
         /\ \A y \in DOMAIN b.open \ { x } : Put(b, x, rows)[y] = b.open[y]
<1>1. b.open \in Rows
  BY DEF BatcherStates
<1>2. b.open \in [DOMAIN b.open -> SUBSET Nat] /\ DOMAIN b.open \subseteq Nat
  BY <1>1, RowsTyped
<1> DEFINE D == DOMAIN b.open \cup { x }
           f == [y \in D |-> IF y = x THEN rows ELSE b.open[y]]
<1>3. f \in [D -> SUBSET Nat] /\ D \in SUBSET Nat
  BY <1>2
<1>4. f \in Rows
  BY <1>3 DEF Rows
<1> QED
  BY <1>4 DEF Put

LEMMA WaitingIsRows ==
  ASSUME NEW b \in BatcherStates, NEW x
  PROVE  Waiting(b, x) \in SUBSET Nat
<1>1. b.open \in Rows
  BY DEF BatcherStates
<1> QED
  BY <1>1, RowsTyped DEF Waiting

\* A batcher that is told of a transaction holds what it held.
LEMMA OpenedDoes ==
  ASSUME NEW b \in BatcherStates, NEW x \in Nat
  PROVE  LET c == Opened(b, x)
         IN  /\ c \in BatcherStates /\ c.current = x
             /\ c.sealed = b.sealed /\ c.covers = b.covers
             /\ KeepsOpen(b, c, {})
             /\ \A y \in DOMAIN c.open : \A r \in c.open[y] : y \in DOMAIN b.open /\ r \in b.open[y]
<1>w. PICK w \in SUBSET Nat : w = Waiting(b, x)
  BY WaitingIsRows
<1>f. PICK f : f = Put(b, x, w)
  OBVIOUS
<1>1. f \in Rows
  BY <1>f, PutIsRows
<1>a. DOMAIN f = DOMAIN b.open \cup { x }
  BY <1>f DEF Put
<1>b. f[x] = w
  BY <1>f DEF Put
<1>c. \A y \in DOMAIN b.open \ { x } : f[y] = b.open[y]
  BY <1>f DEF Put
<1>2. Opened(b, x) = [[b EXCEPT !.current = x] EXCEPT !.open = f]
  BY <1>w, <1>f DEF Opened, BatcherStates
<1>3. Opened(b, x) \in BatcherStates
  BY <1>1, <1>2 DEF BatcherStates
<1>4. /\ Opened(b, x).current = x /\ Opened(b, x).sealed = b.sealed
      /\ Opened(b, x).covers = b.covers /\ Opened(b, x).open = f
  BY <1>2 DEF BatcherStates
<1> QED
  BY <1>w, <1>a, <1>b, <1>c, <1>3, <1>4 DEF KeepsOpen, Waiting

\* A row that is pushed waits with those of the transaction being read.
LEMMA PushedDoes ==
  ASSUME NEW b \in BatcherStates, NEW r \in Nat
  PROVE  LET c == Pushed(b, r)
         IN  /\ c \in BatcherStates /\ c.current = b.current
             /\ c.sealed = b.sealed /\ c.covers = b.covers
             /\ KeepsOpen(b, c, {})
             /\ b.current \in DOMAIN c.open /\ r \in c.open[b.current]
             /\ \A y \in DOMAIN c.open : \A q \in c.open[y] :
                  (y = b.current /\ q = r) \/ (y \in DOMAIN b.open /\ q \in b.open[y])
<1>0. b.current \in Nat /\ Waiting(b, b.current) \in SUBSET Nat
  BY WaitingIsRows DEF BatcherStates
<1>1. PICK rows \in SUBSET Nat : rows = Waiting(b, b.current) \cup { r }
  BY <1>0
<1>f. PICK f : f = Put(b, b.current, rows)
  OBVIOUS
<1>2. f \in Rows
  BY <1>0, <1>f, PutIsRows
<1>a. DOMAIN f = DOMAIN b.open \cup { b.current }
  BY <1>f DEF Put
<1>b. f[b.current] = rows
  BY <1>f DEF Put
<1>c. \A y \in DOMAIN b.open \ { b.current } : f[y] = b.open[y]
  BY <1>f DEF Put
<1>3. Pushed(b, r) = [b EXCEPT !.open = f]
  BY <1>1, <1>f DEF Pushed
<1>4. Pushed(b, r) \in BatcherStates
  BY <1>2, <1>3 DEF BatcherStates
<1>5. /\ Pushed(b, r).current = b.current /\ Pushed(b, r).sealed = b.sealed
      /\ Pushed(b, r).covers = b.covers /\ Pushed(b, r).open = f
  BY <1>3 DEF BatcherStates
<1> QED
  BY <1>1, <1>a, <1>b, <1>c, <1>4, <1>5 DEF KeepsOpen, Waiting

\* The rows of a transaction, and no others, are sealed by its commit.
LEMMA SealDoes ==
  ASSUME NEW b \in BatcherStates, NEW x, NEW lsn \in Nat
  PROVE  LET c == Seal(b, x, lsn)
         IN  /\ c \in BatcherStates /\ c.current = b.current
             /\ c.covers \in { b.covers, lsn } /\ b.covers <= c.covers
             /\ x \in DOMAIN b.open => lsn <= c.covers
             /\ c.sealed = b.sealed \cup { [row |-> r, lsn |-> lsn] : r \in Waiting(b, x) }
             /\ DOMAIN c.open = DOMAIN b.open \ { x }
             /\ \A y \in DOMAIN c.open : c.open[y] = b.open[y]
<1>1. CASE x \notin DOMAIN b.open
  BY <1>1 DEF Seal, Waiting, BatcherStates
<1>2. CASE x \in DOMAIN b.open
  <2> DEFINE new == { [row |-> r, lsn |-> lsn] : r \in b.open[x] }
             g == Restrict(b.open, DOMAIN b.open \ { x })
             v == IF lsn > b.covers THEN lsn ELSE b.covers
             c == Seal(b, x, lsn)
  <2>1. b.open \in Rows /\ b.sealed \in SUBSET Changes /\ b.seals \in Nat /\ b.covers \in Nat
    BY DEF BatcherStates
  <2>2. g \in Rows /\ DOMAIN g = DOMAIN b.open \ { x } /\ \A y \in DOMAIN g : g[y] = b.open[y]
    BY <2>1, RestrictIsRows
  <2>3. b.sealed \cup new \in SUBSET Changes
    <3>1. b.open[x] \in SUBSET Nat
      BY <1>2, <2>1, RowsTyped
    <3> QED
      BY <2>1, <3>1 DEF Changes
  <2>4. v \in { b.covers, lsn } /\ v \in Nat /\ b.covers <= v /\ lsn <= v
    BY <2>1
  <2>5. Waiting(b, x) = b.open[x]
    BY <1>2 DEF Waiting
  <2>6. c = [b EXCEPT !.open = g, !.sealed = b.sealed \cup new,
                       !.seals = b.seals + 1, !.covers = v]
    BY <1>2 DEF Seal
  <2> HIDE DEF new, g, v, c
  <2>a. c = [sealed |-> b.sealed \cup new, open |-> g, current |-> b.current,
             seals |-> b.seals + 1, covers |-> v]
    BY <2>6 DEF BatcherStates
  <2>b. b.seals + 1 \in Nat /\ b.current \in Nat
    BY <2>1 DEF BatcherStates
  <2>7. c \in BatcherStates
    BY <2>2, <2>3, <2>4, <2>a, <2>b DEF BatcherStates
  <2>8. c.current = b.current /\ c.covers = v /\ c.sealed = b.sealed \cup new /\ c.open = g
    BY <2>6 DEF BatcherStates
  <2> QED
    BY <2>2, <2>4, <2>5, <2>7, <2>8 DEF new, c
<1> QED
  BY <1>1, <1>2

LEMMA LeftDoes ==
  ASSUME NEW b \in BatcherStates, NEW x
  PROVE  LET c == Left(b, x)
         IN  /\ c \in BatcherStates /\ c.sealed = b.sealed /\ c.covers = b.covers /\ c.open = b.open
<1>1. b.current \in Nat
  BY DEF BatcherStates
<1> DEFINE v == IF b.current = x THEN NoTransaction ELSE b.current
<1>2. Left(b, x) = [b EXCEPT !.current = v] /\ v \in Nat
  BY <1>1 DEF Left, NoTransaction
<1> HIDE DEF v
<1> QED
  BY <1>2 DEF BatcherStates

\* A boundary opens a transaction or ends one: what it ends is sealed with the
\* position of a commit, or dropped, and nothing else is touched.
Ends(m) == IF m.kind \in Endings THEN { m.xid } ELSE {}
SealedBy(b, m, lsn) ==
  IF m.kind \in Endings \ { "stream_abort" }
  THEN { [row |-> r, lsn |-> lsn] : r \in Waiting(b, m.xid) } ELSE {}

LEMMA BoundaryDoes ==
  ASSUME NEW b \in BatcherStates, NEW m \in Messages, NEW lsn \in Nat,
         m.kind \in Openings \cup Endings, m.xid # NoTransaction,
         m.kind = "commit" => b.current = m.xid
  PROVE  LET c == Boundary(b, m, lsn)
         IN  /\ c \in BatcherStates
             /\ m.kind \in Openings => c.current = m.xid
             /\ c.covers \in { b.covers, lsn } /\ b.covers <= c.covers
             /\ c.sealed = b.sealed \cup SealedBy(b, m, lsn)
             /\ SealedBy(b, m, lsn) # {} => lsn <= c.covers
             /\ KeepsOpen(b, c, Ends(m))
             /\ \A y \in DOMAIN c.open : \A r \in c.open[y] : y \in DOMAIN b.open /\ r \in b.open[y]
<1>1. m.xid \in Nat /\ b.covers \in Nat
  BY DEF Messages, BatcherStates
<1>2. CASE m.kind \in Openings
  <2>1. Boundary(b, m, lsn) = Opened(b, m.xid)
    BY <1>2 DEF Boundary, Openings
  <2>2. m.kind \notin Endings
    BY <1>2 DEF Openings, Endings
  <2>3. SealedBy(b, m, lsn) = {} /\ Ends(m) = {}
    BY <2>2 DEF SealedBy, Ends
  <2>4. b.covers <= b.covers
    BY <1>1
  <2> QED
    BY <1>1, <1>2, <2>1, <2>3, <2>4, OpenedDoes
<1> DEFINE d == Seal(b, m.xid, lsn)
<1>3. /\ d \in BatcherStates /\ d.covers \in { b.covers, lsn } /\ b.covers <= d.covers
      /\ m.xid \in DOMAIN b.open => lsn <= d.covers
      /\ d.sealed = b.sealed \cup { [row |-> r, lsn |-> lsn] : r \in Waiting(b, m.xid) }
      /\ DOMAIN d.open = DOMAIN b.open \ { m.xid }
      /\ \A y \in DOMAIN d.open : d.open[y] = b.open[y]
  BY SealDoes
<1>4. ASSUME m.kind \in { "commit", "stream_commit" }, NEW c \in BatcherStates,
             Boundary(b, m, lsn) = c,
             c.covers = d.covers, c.sealed = d.sealed, c.open = d.open
      PROVE  LET k == Boundary(b, m, lsn)
             IN  /\ k \in BatcherStates
                 /\ m.kind \in Openings => k.current = m.xid
                 /\ k.covers \in { b.covers, lsn } /\ b.covers <= k.covers
                 /\ k.sealed = b.sealed \cup SealedBy(b, m, lsn)
                 /\ SealedBy(b, m, lsn) # {} => lsn <= k.covers
                 /\ KeepsOpen(b, k, Ends(m))
                 /\ \A y \in DOMAIN k.open : \A r \in k.open[y] : y \in DOMAIN b.open /\ r \in b.open[y]
  <2>1. m.kind \in Endings \ { "stream_abort" } /\ m.kind \notin Openings
    BY <1>4 DEF Openings, Endings
  <2>2. /\ SealedBy(b, m, lsn) = { [row |-> r, lsn |-> lsn] : r \in Waiting(b, m.xid) }
        /\ Ends(m) = { m.xid }
    BY <2>1 DEF SealedBy, Ends
  <2>3. SealedBy(b, m, lsn) # {} => m.xid \in DOMAIN b.open
    BY <2>2 DEF Waiting
  <2> HIDE DEF d
  <2>4. KeepsOpen(b, c, { m.xid })
    BY <1>3, <1>4 DEF KeepsOpen
  <2> QED
    BY <1>3, <1>4, <2>1, <2>2, <2>3, <2>4
<1>5. CASE m.kind = "commit"
  <2>1. Boundary(b, m, lsn) = CurrentCommitted(b, lsn)
    BY <1>5 DEF Boundary, Openings
  <2>2. Boundary(b, m, lsn) = [d EXCEPT !.current = NoTransaction]
    BY <1>5, <2>1 DEF CurrentCommitted
  <2> HIDE DEF d
  <2>3. PICK c : c = [d EXCEPT !.current = NoTransaction]
    OBVIOUS
  <2>4. c \in BatcherStates /\ c.covers = d.covers /\ c.sealed = d.sealed /\ c.open = d.open
    BY <1>3, <2>3 DEF BatcherStates, NoTransaction
  <2> QED
    BY <1>4, <1>5, <2>2, <2>3, <2>4
<1>6. CASE m.kind = "stream_commit"
  <2>1. Boundary(b, m, lsn) = Left(d, m.xid)
    BY <1>6 DEF Boundary, Openings, StreamCommitted
  <2> HIDE DEF d
  <2>2. PICK c : c = Left(d, m.xid)
    OBVIOUS
  <2>3. c \in BatcherStates /\ c.covers = d.covers /\ c.sealed = d.sealed /\ c.open = d.open
    BY <1>3, <2>2, LeftDoes
  <2> QED
    BY <1>4, <1>6, <2>1, <2>2, <2>3
<1>7. CASE m.kind = "stream_abort"
  <2> DEFINE g == Restrict(b.open, DOMAIN b.open \ { m.xid })
             e == [b EXCEPT !.open = g]
  <2>1. b.open \in Rows
    BY DEF BatcherStates
  <2>2. g \in Rows /\ DOMAIN g = DOMAIN b.open \ { m.xid } /\ \A y \in DOMAIN g : g[y] = b.open[y]
    BY <2>1, RestrictIsRows
  <2>3. Boundary(b, m, lsn) = Left(e, m.xid)
    BY <1>7 DEF Boundary, Openings, StreamAborted
  <2> HIDE DEF g
  <2>4. e \in BatcherStates /\ e.covers = b.covers /\ e.sealed = b.sealed /\ e.open = g
    BY <2>2 DEF BatcherStates
  <2> HIDE DEF e
  <2>5. PICK c : c = Left(e, m.xid)
    OBVIOUS
  <2>6. c \in BatcherStates /\ c.covers = b.covers /\ c.sealed = b.sealed /\ c.open = g
    BY <2>4, <2>5, LeftDoes
  <2>7. m.kind \in Endings /\ m.kind \notin Openings
    BY <1>7 DEF Openings, Endings
  <2>8. SealedBy(b, m, lsn) = {} /\ Ends(m) = { m.xid }
    BY <1>7, <2>7 DEF SealedBy, Ends
  <2>9. KeepsOpen(b, c, { m.xid })
    BY <2>2, <2>6 DEF KeepsOpen
  <2>10. b.covers <= b.covers
    BY <1>1
  <2> QED
    BY <2>2, <2>3, <2>5, <2>6, <2>7, <2>8, <2>9, <2>10
<1> QED
  BY <1>2, <1>5, <1>6, <1>7 DEF Endings

\* What is flushed is what was sealed.
LEMMA FlushedDoes ==
  ASSUME NEW b \in BatcherStates
  PROVE  LET c == Flushed(b)
         IN  /\ c \in BatcherStates /\ c.sealed = {}
             /\ c.open = b.open /\ c.covers = b.covers /\ c.current = b.current
<1>1. b.open \in Rows /\ b.current \in Nat /\ b.covers \in Nat
  BY DEF BatcherStates
<1>f. PICK c : c = Flushed(b)
  OBVIOUS
<1>c. c = [b EXCEPT !.sealed = {}, !.seals = 0]
  BY <1>f DEF Flushed
<1>2. c = [sealed |-> {}, open |-> b.open, current |-> b.current, seals |-> 0, covers |-> b.covers]
  BY <1>c DEF BatcherStates
<1>3. c \in BatcherStates
  BY <1>1, <1>2 DEF BatcherStates
<1> QED
  BY <1>2, <1>3, <1>f

-----------------------------------------------------------------------------
(* A table's log and the position it declares.                             *)

\* The last of some places of a sequence.
LEMMA LastPlace ==
  ASSUME NEW n \in Nat, NEW S, S \subseteq 1..n, S # {}
  PROVE  Newest(S) \in S /\ \A k \in S : k <= Newest(S)
<1> DEFINE U == { k \in 0..n : n - k \in S }
           R == OpToRel(<, Nat)
<1>1. IsWellFoundedOn(R, Nat)
  BY NatLessThanWellFounded, Zenon
<1>2. \A x, y \in Nat : x < y => << x, y >> \in R
  BY DEF OpToRel
<1>3. PICK s \in S : TRUE
  OBVIOUS
<1>4. n - s \in U /\ U \subseteq Nat
  BY <1>3
<1> HIDE DEF R
<1>5. PICK u \in U : \A k \in U : ~(<< k, u >> \in R)
  BY <1>1, <1>4, WFMin
<1>6. ASSUME NEW k \in S PROVE k <= n - u
  <2>1. n - k \in U /\ n - k \in Nat /\ u \in Nat
    BY <1>4
  <2>2. ~(n - k < u)
    BY <1>2, <1>5, <2>1
  <2> QED
    BY <2>1, <2>2
<1>7. n - u \in S
  BY <1>5
<1>8. \E i \in S : \A j \in S : j <= i
  BY <1>6, <1>7
<1> QED
  BY <1>8 DEF Newest

\* What is known of the position a log declares: it is that of an append, no
\* append goes past it, and what is published was committed before it.
PositionKnown == \A t \in Tables :
  /\ LogPosition(t) \in Nat /\ LogPosition(t) <= Len(stream)
  /\ AppendsAt(t) = {} => LogPosition(t) = 0
  /\ AppendsAt(t) # {} =>
       /\ Newest(AppendsAt(t)) \in AppendsAt(t)
       /\ LogPosition(t) = log[t][Newest(AppendsAt(t))].covers
  /\ \A i \in AppendsAt(t) :
       /\ log[t][i] \in Commitments /\ log[t][i].covers <= LogPosition(t)
       /\ i < Newest(AppendsAt(t)) => log[t][i].covers < LogPosition(t)
  /\ \A c \in Published(t) : c \in CommittedChanges(t) /\ c.lsn <= LogPosition(t)

LEMMA PositionIsKnown == SourceInv /\ LogTyped /\ AppendsTrue => PositionKnown
<1> SUFFICES ASSUME SourceInv, LogTyped, AppendsTrue, NEW t \in Tables
             PROVE  /\ LogPosition(t) \in Nat /\ LogPosition(t) <= Len(stream)
                    /\ AppendsAt(t) = {} => LogPosition(t) = 0
                    /\ AppendsAt(t) # {} =>
                         /\ Newest(AppendsAt(t)) \in AppendsAt(t)
                         /\ LogPosition(t) = log[t][Newest(AppendsAt(t))].covers
                    /\ \A i \in AppendsAt(t) :
                         /\ log[t][i] \in Commitments /\ log[t][i].covers <= LogPosition(t)
                         /\ i < Newest(AppendsAt(t)) => log[t][i].covers < LogPosition(t)
                    /\ \A c \in Published(t) : c \in CommittedChanges(t) /\ c.lsn <= LogPosition(t)
  BY DEF PositionKnown
<1> DEFINE A == AppendsAt(t)
           last == Newest(A)
<1>1. /\ log[t] \in Seq(Commitments) /\ Len(log[t]) \in Nat /\ DOMAIN log[t] = 1..Len(log[t])
      /\ A \subseteq 1..Len(log[t]) /\ \A i \in DOMAIN log[t] : log[t][i] \in Commitments
  BY DEF LogTyped, AppendsAt
<1>2. Len(stream) \in Nat
  BY DEF SourceInv, StreamTyped
<1>3. A # {} => last \in A /\ \A k \in A : k <= last
  BY <1>1, LastPlace
<1>4. \A i \in A : log[t][i] \in Commitments /\ log[t][i].covers \in Nat /\ i \in Nat
  BY <1>1 DEF Commitments
<1>5. A # {} => LogPosition(t) = log[t][last].covers
  BY DEF LogPosition
<1>6. A = {} => LogPosition(t) = 0
  BY DEF LogPosition
<1> HIDE DEF last
<1>7. LogPosition(t) \in Nat /\ LogPosition(t) <= Len(stream)
  BY <1>2, <1>3, <1>4, <1>5, <1>6 DEF AppendsTrue
<1>8. ASSUME NEW i \in A
      PROVE  log[t][i].covers <= LogPosition(t) /\ (i < last => log[t][i].covers < LogPosition(t))
  <2>1. last \in A /\ i <= last /\ LogPosition(t) = log[t][last].covers
    BY <1>3, <1>5
  <2>2. i < last \/ i = last
    BY <1>4, <2>1
  <2>3. i < last => log[t][i].covers < log[t][last].covers
    BY <2>1 DEF AppendsTrue
  <2> QED
    BY <1>4, <2>1, <2>2, <2>3
<1>9. ASSUME NEW c \in Published(t) PROVE c \in CommittedChanges(t) /\ c.lsn <= LogPosition(t)
  <2>1. PICK i \in DOMAIN log[t] : c \in log[t][i].rows
    BY DEF Published
  <2>2. i \in A
    BY <2>1 DEF AppendsTrue, AppendsAt
  <2>3. c \in CommittedChanges(t) /\ c.lsn <= log[t][i].covers /\ c \in Changes
    BY <1>4, <2>1, <2>2 DEF AppendsTrue, Commitments
  <2>4. c.lsn \in Nat
    BY <2>3 DEF Changes
  <2> QED
    BY <1>4, <1>7, <1>8, <2>2, <2>3, <2>4
<1> QED
  BY <1>3, <1>4, <1>5, <1>6, <1>7, <1>8, <1>9 DEF last

\* Commits come at the end of a log ...
Extends ==
  /\ LogTyped'
  /\ \A t \in Tables : /\ DOMAIN log[t] \subseteq DOMAIN log'[t]
                       /\ \A i \in DOMAIN log[t] : log'[t][i] = log[t][i]

\* ... and some move no rows.
Quietly == Extends /\ \A t \in Tables : \A i \in DOMAIN log'[t] \ DOMAIN log[t] :
  log'[t][i].kind # "append" /\ log'[t][i].rows = {}

AppendsStay == \A t \in Tables :
  /\ AppendsAt(t)' = AppendsAt(t) /\ Appends(t)' = Appends(t)
  /\ LogPosition(t)' = LogPosition(t) /\ Published(t)' = Published(t)

\* A commit that moves no rows moves no position.
LEMMA QuietStays ==
  ASSUME SourceInv, LogTyped, AppendsTrue, Quietly
  PROVE  AppendsStay
<1> SUFFICES ASSUME NEW t \in Tables
             PROVE  /\ AppendsAt(t)' = AppendsAt(t) /\ Appends(t)' = Appends(t)
                    /\ LogPosition(t)' = LogPosition(t) /\ Published(t)' = Published(t)
  BY DEF AppendsStay
<1>1. PICK A : A = AppendsAt(t)
  OBVIOUS
<1>2. /\ DOMAIN log[t] \subseteq DOMAIN log'[t] /\ \A i \in DOMAIN log[t] : log'[t][i] = log[t][i]
      /\ \A i \in DOMAIN log'[t] \ DOMAIN log[t] : log'[t][i].kind # "append" /\ log'[t][i].rows = {}
  BY DEF Quietly, Extends
<1>3. AppendsAt(t)' = A /\ A \subseteq DOMAIN log[t]
  BY <1>1, <1>2 DEF AppendsAt
<1>4. \A i \in A : log'[t][i] = log[t][i]
  BY <1>2, <1>3
<1>5. Appends(t)' = Appends(t)
  BY <1>1, <1>3, <1>4 DEF Appends
<1>6. A # {} => Newest(A) \in A
  BY <1>1, PositionIsKnown DEF PositionKnown
<1>7. LogPosition(t)' = IF A = {} THEN 0 ELSE log'[t][Newest(A)].covers
  BY <1>3 DEF LogPosition
<1>8. LogPosition(t) = IF A = {} THEN 0 ELSE log[t][Newest(A)].covers
  BY <1>1 DEF LogPosition
<1>9. LogPosition(t)' = LogPosition(t)
  BY <1>4, <1>6, <1>7, <1>8
<1>10. Published(t)' = Published(t)
  BY <1>2 DEF Published
<1> QED
  BY <1>1, <1>3, <1>5, <1>9, <1>10

LEMMA QuietKeeps ==
  ASSUME SourceInv, LogTyped, AppendsTrue, Quietly, UNCHANGED stream
  PROVE  LogTyped' /\ AppendsTrue'
<1>1. \A t \in Tables : CommittedChanges(t)' = CommittedChanges(t)
  BY DEF CommittedChanges, CommitOf
<1>2. LogTyped' /\ \A t \in Tables : AppendsAt(t)' = AppendsAt(t) /\ AppendsAt(t) \subseteq DOMAIN log[t]
  BY QuietStays DEF AppendsStay, AppendsAt, Quietly, Extends
<1>3. \A t \in Tables :
        /\ DOMAIN log[t] \subseteq DOMAIN log'[t] /\ \A i \in DOMAIN log[t] : log'[t][i] = log[t][i]
        /\ \A i \in DOMAIN log'[t] \ DOMAIN log[t] : log'[t][i].kind # "append" /\ log'[t][i].rows = {}
  BY DEF Quietly, Extends
<1> QED
  BY <1>1, <1>2, <1>3 DEF AppendsTrue

\* Rows come with the position they reach, at the end.
AppendsRows(t, rows, covers) ==
  /\ Extends
  /\ Len(log'[t]) \in DOMAIN log'[t] \ DOMAIN log[t]
  /\ log'[t][Len(log'[t])].kind = "append"
  /\ log'[t][Len(log'[t])].rows = rows /\ log'[t][Len(log'[t])].covers = covers
  /\ \A u \in Tables : \A i \in DOMAIN log'[u] \ DOMAIN log[u] :
       \/ u = t /\ i = Len(log'[t])
       \/ log'[u][i].kind # "append" /\ log'[u][i].rows = {}

\* A table goes to the position its rows come with.
LEMMA RowsAppended ==
  ASSUME SourceInv, LogTyped, AppendsTrue, UNCHANGED stream,
         NEW t \in Tables, NEW rows \in SUBSET Changes, NEW covers \in Nat,
         AppendsRows(t, rows, covers),
         rows \subseteq CommittedChanges(t), covers <= Len(stream), LogPosition(t) < covers,
         \A m \in rows : m.lsn <= covers /\ m.lsn > LogPosition(t)
  PROVE  /\ LogTyped' /\ AppendsTrue' /\ LogPosition(t)' = covers
         /\ Appends(t)' = Appends(t) \cup { log'[t][Len(log'[t])] }
         /\ Published(t)' = Published(t) \cup rows
         /\ \A u \in Tables \ { t } : /\ Appends(u)' = Appends(u) /\ LogPosition(u)' = LogPosition(u)
                                      /\ Published(u)' = Published(u)
<1>1. PICK n : n = Len(log'[t])
  OBVIOUS
<1>2. PICK P : P = LogPosition(t)
  OBVIOUS
<1>3. LogTyped' /\ \A u \in Tables :
        /\ DOMAIN log[u] \subseteq DOMAIN log'[u] /\ \A i \in DOMAIN log[u] : log'[u][i] = log[u][i]
        /\ \A i \in DOMAIN log'[u] \ DOMAIN log[u] :
             (u = t /\ i = n) \/ (log'[u][i].kind # "append" /\ log'[u][i].rows = {})
  BY <1>1 DEF AppendsRows, Extends
<1>4. /\ n \in DOMAIN log'[t] \ DOMAIN log[t] /\ log'[t][n].kind = "append"
      /\ log'[t][n].rows = rows /\ log'[t][n].covers = covers
  BY <1>1 DEF AppendsRows
<1>5. /\ n \in Nat /\ DOMAIN log'[t] = 1..n /\ Len(log[t]) \in Nat /\ DOMAIN log[t] = 1..Len(log[t])
      /\ log[t] \in Seq(Commitments)
  BY <1>1, <1>3 DEF LogTyped
<1>6. \A i \in DOMAIN log[t] : i < n
  BY <1>3, <1>4, <1>5
<1>7. \A u \in Tables : CommittedChanges(u)' = CommittedChanges(u)
  BY DEF CommittedChanges, CommitOf
<1>8. AppendsAt(t)' = AppendsAt(t) \cup { n } /\ AppendsAt(t) \subseteq DOMAIN log[t]
  BY <1>3, <1>4 DEF AppendsAt
<1>9. \A u \in Tables \ { t } : AppendsAt(u)' = AppendsAt(u) /\ AppendsAt(u) \subseteq DOMAIN log[u]
  BY <1>3 DEF AppendsAt
<1>10. \A i \in AppendsAt(t) : /\ log[t][i].covers < covers /\ i < n /\ log[t][i].covers \in Nat
                               /\ log[t][i].covers <= P /\ P \in Nat
  <2> SUFFICES ASSUME NEW i \in AppendsAt(t)
               PROVE  /\ log[t][i].covers < covers /\ i < n /\ log[t][i].covers \in Nat
                      /\ log[t][i].covers <= P /\ P \in Nat
    OBVIOUS
  <2>1. /\ log[t][i].covers <= P /\ P \in Nat /\ log[t][i] \in Commitments
    BY <1>2, PositionIsKnown DEF PositionKnown
  <2>2. log[t][i].covers \in Nat
    BY <2>1 DEF Commitments
  <2> QED
    BY <1>2, <1>6, <1>8, <2>1, <2>2
<1>11. AppendsTrue'
  <2> SUFFICES ASSUME NEW u \in Tables
               PROVE  /\ \A i \in DOMAIN log'[u] : log'[u][i].kind # "append" => log'[u][i].rows = {}
                      /\ \A i \in AppendsAt(u)' :
                           /\ log'[u][i].rows \subseteq CommittedChanges(u)
                           /\ log'[u][i].covers <= Len(stream)
                           /\ \A m \in log'[u][i].rows : m.lsn <= log'[u][i].covers
                      /\ \A i, j \in AppendsAt(u)' : i < j =>
                           /\ log'[u][i].covers < log'[u][j].covers
                           /\ \A m \in log'[u][j].rows : m.lsn > log'[u][i].covers
    BY <1>7 DEF AppendsTrue
  <2>1. CASE u # t
    BY <1>3, <1>9, <2>1 DEF AppendsTrue
  <2>2. CASE u = t
    <3>1. \A i \in DOMAIN log'[u] : log'[u][i].kind # "append" => log'[u][i].rows = {}
      BY <1>3, <1>4, <2>2 DEF AppendsTrue
    <3>2. ASSUME NEW i \in AppendsAt(t) \cup { n }
          PROVE  /\ log'[t][i].rows \subseteq CommittedChanges(t)
                 /\ log'[t][i].covers <= Len(stream)
                 /\ \A m \in log'[t][i].rows : m.lsn <= log'[t][i].covers
      BY <1>3, <1>4, <1>8 DEF AppendsTrue
    <3>3. ASSUME NEW i \in AppendsAt(t) \cup { n }, NEW j \in AppendsAt(t) \cup { n }, i < j
          PROVE  /\ log'[t][i].covers < log'[t][j].covers
                 /\ \A m \in log'[t][j].rows : m.lsn > log'[t][i].covers
      <4>1. i \in AppendsAt(t) /\ log'[t][i] = log[t][i]
        BY <1>3, <1>5, <1>6, <1>8, <3>3
      <4>2. CASE j = n
        <5>1. \A m \in rows : m.lsn > P /\ m.lsn \in Nat
          BY <1>2 DEF Changes
        <5> QED
          BY <1>4, <1>10, <4>1, <4>2, <5>1
      <4>3. CASE j # n
        BY <1>3, <1>8, <3>3, <4>1, <4>3 DEF AppendsTrue
      <4> QED
        BY <4>2, <4>3
    <3> QED
      BY <1>8, <2>2, <3>1, <3>2, <3>3
  <2> QED
    BY <2>1, <2>2
<1>12. LogPosition(t)' = covers
  <2>1. PICK A : A = AppendsAt(t) \cup { n }
    OBVIOUS
  <2>2. A \subseteq 1..n /\ n \in A /\ AppendsAt(t)' = A
    BY <1>3, <1>4, <1>5, <1>8, <2>1
  <2>3. Newest(A) \in A /\ n <= Newest(A)
    BY <1>5, <2>2, LastPlace
  <2>4. Newest(A) = n
    <3> PICK k : k = Newest(A)
      OBVIOUS
    <3>1. k \in 1..n /\ n <= k
      BY <2>2, <2>3
    <3> QED
      BY <1>5, <3>1
  <2>5. LogPosition(t)' = log'[t][Newest(A)].covers
    BY <2>2 DEF LogPosition
  <2> QED
    BY <1>4, <2>4, <2>5
<1>13. Appends(t)' = Appends(t) \cup { log'[t][n] }
  BY <1>3, <1>8 DEF Appends
<1>14. Published(t)' = Published(t) \cup rows
  BY <1>3, <1>4 DEF Published
<1>15. ASSUME NEW u \in Tables, u # t
       PROVE  /\ Appends(u)' = Appends(u) /\ LogPosition(u)' = LogPosition(u)
              /\ Published(u)' = Published(u)
  <2>1. PICK A : A = AppendsAt(u)
    OBVIOUS
  <2>2. AppendsAt(u)' = A /\ A \subseteq DOMAIN log[u] /\ \A i \in A : log'[u][i] = log[u][i]
    BY <1>3, <1>9, <1>15, <2>1
  <2>3. A # {} => Newest(A) \in A
    BY <2>1, PositionIsKnown DEF PositionKnown
  <2>4. LogPosition(u)' = IF A = {} THEN 0 ELSE log'[u][Newest(A)].covers
    BY <2>2 DEF LogPosition
  <2>5. LogPosition(u) = IF A = {} THEN 0 ELSE log[u][Newest(A)].covers
    BY <2>1 DEF LogPosition
  <2>6. Published(u)' = Published(u)
    BY <1>3, <1>15 DEF Published
  <2>7. Appends(u)' = Appends(u)
    BY <2>1, <2>2 DEF Appends
  <2> QED
    BY <2>2, <2>3, <2>4, <2>5, <2>6, <2>7
<1> QED
  BY <1>1, <1>3, <1>11, <1>12, <1>13, <1>14, <1>15

-----------------------------------------------------------------------------
(* The steps keep the invariant: the source's, and what the process does   *)
(* to its batchers.                                                        *)

\* The source sends one more message.
LEMMA SourceKeeps ==
  ASSUME CaptureInv, Source
  PROVE  CaptureInv'
<1>1. /\ SourceInv /\ ProcessTyped /\ DescribedIsOnboarded /\ KnowsItsBlock
      /\ BatchersTrue /\ RowsWait /\ ChangesKept /\ LogTyped /\ AppendsTrue
  BY DEF CaptureInv
<1>2. SourceInv'
  BY <1>1, SourceSends
<1>3. PICK m : MaySend(m) /\ Produce(m)
  BY <1>1, SourceSends
<1>4. UNCHANGED << arriving, described, running, tables, opening, work, applied, log, restarts, givenUp >>
  BY DEF Source, connection, process
<1>a. PICK n : n = Len(stream) + 1
  OBVIOUS
<1>5. /\ n \in Nat \ {0} /\ Len(stream') = n /\ Len(stream) = n - 1
      /\ DOMAIN stream = 1..(n - 1) /\ DOMAIN stream' = 1..n
      /\ \A i \in 1..(n - 1) : stream'[i] = stream[i]
      /\ stream'[n] = m
  BY <1>1, <1>3, <1>a, StreamGrows DEF SourceInv, MaySend
<1>6. arriving = n /\ arriving' = n
  BY <1>1, <1>4, <1>5, <1>a DEF Source, ProcessTyped
<1>7. \A t \in Tables :
        /\ CommittedChanges(t) \subseteq CommittedChanges(t)'
        /\ \A c \in CommittedChanges(t)' : c \in CommittedChanges(t) \/ c.lsn = n
        /\ \A r \in DOMAIN stream : (RowOf(t, r)' <=> RowOf(t, r)) /\ stream'[r] = stream[r]
  BY <1>1, <1>2, <1>3, <1>a, ChangesGrow
<1>8. \A t \in Tables : AppendsAt(t)' = AppendsAt(t) /\ LogPosition(t)' = LogPosition(t)
  BY <1>4 DEF AppendsAt, LogPosition
<1>9. ProcessTyped' /\ DescribedIsOnboarded' /\ LogTyped'
  BY <1>1, <1>4, <1>5, <1>6 DEF ProcessTyped, DescribedIsOnboarded, LogTyped
<1>10. KnowsItsBlock'
  <2>1. m.kind \in InBlock => block # NoTransaction /\ m.xid = block
    BY <1>3 DEF MaySend
  <2> QED
    BY <1>1, <1>4, <1>5, <1>6, <2>1 DEF KnowsItsBlock
<1>11. BatchersTrue'
  <2> SUFFICES ASSUME NEW t \in Tables, tables[t].onboarded
               PROVE  BatcherTrue(t)'
    BY <1>4 DEF BatchersTrue
  <2> PICK b : b = tables[t].batcher
    OBVIOUS
  <2>1. BatcherTrue(t) /\ tables'[t].batcher = b /\ tables' = tables
    BY <1>1, <1>4 DEF BatchersTrue
  <2>2. \A x \in DOMAIN b.open : \A r \in b.open[x] :
          RowOf(t, r)' /\ r < arriving /\ stream'[r].xid = x
    BY <1>7, <2>1 DEF BatcherTrue, RowOf
  <2> QED
    BY <1>4, <1>7, <1>8, <2>1, <2>2 DEF BatcherTrue
<1>12. RowsWait'
  <2> SUFFICES ASSUME running, NEW t \in Tables, NEW r \in DOMAIN stream', RowOf(t, r)', r < arriving,
                      ~EndedBefore(stream[r].xid, arriving)'
               PROVE  r \in givenUp \/ Waits(t, r)'
    BY <1>4 DEF RowsWait
  <2>1. r \in DOMAIN stream /\ RowOf(t, r) /\ stream'[r] = stream[r]
    BY <1>5, <1>6, <1>7
  <2>2. ~EndedBefore(stream[r].xid, arriving)
    BY <1>4, <1>5, <2>1 DEF EndedBefore
  <2>3. r \in givenUp \/ Waits(t, r)
    BY <1>1, <2>1, <2>2 DEF RowsWait
  <2> QED
    BY <1>4, <2>1, <2>3 DEF Waits
<1>13. ChangesKept'
  <2> SUFFICES ASSUME running, NEW t \in Tables, NEW c \in CommittedChanges(t)', c.lsn < n
               PROVE  \/ c.lsn <= LogPosition(t) \/ c.row \in givenUp
                      \/ tables[t].onboarded /\ c \in tables[t].batcher.sealed
    BY <1>4, <1>6, <1>8 DEF ChangesKept
  <2>1. c \in CommittedChanges(t)
    BY <1>5, <1>7
  <2> QED
    BY <1>1, <1>6, <2>1 DEF ChangesKept
<1>14. AppendsTrue'
  <2>1. \A k : k <= Len(stream) /\ k \in Nat => k <= Len(stream')
    BY <1>5
  <2>2. \A t \in Tables : \A i \in AppendsAt(t) : log[t][i].covers \in Nat
    BY <1>1, PositionIsKnown DEF PositionKnown, Commitments
  <2> QED
    BY <1>1, <1>4, <1>7, <1>8, <2>1, <2>2 DEF AppendsTrue
<1> QED
  BY <1>2, <1>9, <1>10, <1>11, <1>12, <1>13, <1>14 DEF CaptureInv

\* What the process may do to a table while nothing is delivered to it: the
\* rows its batcher gives away are in the log, or known to be lost.
TableKept(t) ==
  /\ tables'[t].onboarded = tables[t].onboarded
  /\ LogPosition(t) <= LogPosition(t)'
  /\ tables[t].onboarded =>
       LET b == tables[t].batcher
           c == tables'[t].batcher
       IN  /\ c.open = b.open /\ c.current = b.current /\ c.covers = b.covers
           /\ c.sealed \subseteq b.sealed
           /\ \A m \in b.sealed : m \in c.sealed \/ m.lsn <= LogPosition(t)' \/ m.row \in givenUp'
           /\ tables'[t].through <= LogPosition(t)'
           /\ (LogPosition(t)' <= tables'[t].through) \/ (LogPosition(t)' <= b.covers)
           /\ \A m \in c.sealed : m.lsn > tables'[t].through => m.lsn > LogPosition(t)'

\* Then the invariant holds, whatever else it did.
LEMMA ProcessKeeps ==
  ASSUME CaptureInv,
         UNCHANGED << stream, block, streaming, shape, arriving, opening, running >>,
         givenUp \subseteq givenUp', ProcessTyped', DescribedIsOnboarded', LogTyped', AppendsTrue',
         \A t \in Tables : TableKept(t)
  PROVE  CaptureInv'
<1>1. /\ SourceInv /\ ProcessTyped /\ KnowsItsBlock
      /\ BatchersTrue /\ RowsWait /\ ChangesKept /\ LogTyped /\ AppendsTrue
  BY DEF CaptureInv
<1>2. SourceInv'
  BY <1>1, SourceStays
<1>3. /\ PositionKnown /\ PositionKnown'
      /\ ChangesKnown
  BY <1>1, <1>2, PositionIsKnown, PTL, ChangesAreKnown
<1>4. \A t \in Tables : CommittedChanges(t)' = CommittedChanges(t)
  BY DEF CommittedChanges, CommitOf
<1>5. \A t, r : RowOf(t, r)' <=> RowOf(t, r)
  BY DEF RowOf
<1>6. KnowsItsBlock'
  BY <1>1 DEF KnowsItsBlock, TableKept
<1>7. BatchersTrue'
  <2> SUFFICES ASSUME NEW t \in Tables, tables'[t].onboarded
               PROVE  BatcherTrue(t)'
    BY DEF BatchersTrue
  <2> PICK b : b = tables[t].batcher
    OBVIOUS
  <2> PICK c : c = tables'[t].batcher
    OBVIOUS
  <2>1. BatcherTrue(t) /\ TableKept(t) /\ tables[t].onboarded
    BY <1>1 DEF BatchersTrue, TableKept
  <2>2. /\ c.open = b.open /\ c.covers = b.covers /\ c.sealed \subseteq b.sealed
        /\ tables'[t].through <= LogPosition(t)'
        /\ LogPosition(t)' <= tables'[t].through \/ LogPosition(t)' <= b.covers
        /\ \A m \in c.sealed : m.lsn > tables'[t].through => m.lsn > LogPosition(t)'
    BY <2>1 DEF TableKept
  <2>3. /\ b.covers < arriving /\ b.sealed \subseteq CommittedChanges(t)
        /\ \A m \in b.sealed : m.lsn <= b.covers
        /\ \A x \in DOMAIN b.open : \A r \in b.open[x] :
             RowOf(t, r) /\ r < arriving /\ stream[r].xid = x
    BY <2>1 DEF BatcherTrue
  <2> QED
    BY <1>4, <1>5, <2>2, <2>3 DEF BatcherTrue
<1>8. RowsWait'
  BY <1>1, <1>5 DEF RowsWait, EndedBefore, Waits, TableKept
<1>9. ChangesKept'
  <2> SUFFICES ASSUME running, NEW t \in Tables, NEW c \in CommittedChanges(t), c.lsn < arriving
               PROVE  \/ c.lsn <= LogPosition(t)' \/ c.row \in givenUp'
                      \/ tables'[t].onboarded /\ c \in tables'[t].batcher.sealed
    BY <1>4 DEF ChangesKept
  <2>1. TableKept(t)
    OBVIOUS
  <2>2. c.lsn \in Nat /\ LogPosition(t) \in Nat /\ LogPosition(t)' \in Nat
    BY <1>3 DEF PositionKnown, ChangesKnown, Changes
  <2>3. c.lsn <= LogPosition(t) => c.lsn <= LogPosition(t)'
    BY <2>1, <2>2 DEF TableKept
  <2> QED
    BY <1>1, <2>1, <2>3 DEF ChangesKept, TableKept
<1> QED
  BY <1>1, <1>2, <1>6, <1>7, <1>8, <1>9 DEF CaptureInv

\* A step that touches no batcher and moves no rows.
BatchersStay == \A t \in Tables :
  /\ tables'[t].onboarded = tables[t].onboarded
  /\ tables[t].onboarded =>
       tables'[t].batcher = tables[t].batcher /\ tables'[t].through = tables[t].through

LEMMA QuietStepKeeps ==
  ASSUME CaptureInv,
         UNCHANGED << stream, block, streaming, shape, arriving, opening, running >>,
         givenUp \subseteq givenUp', ProcessTyped', DescribedIsOnboarded', Quietly, BatchersStay
  PROVE  CaptureInv'
<1>1. SourceInv /\ LogTyped /\ AppendsTrue /\ BatchersTrue
  BY DEF CaptureInv
<1>2. LogTyped' /\ AppendsTrue' /\ AppendsStay /\ PositionKnown
  BY <1>1, QuietKeeps, QuietStays, PositionIsKnown
<1>3. ASSUME NEW t \in Tables PROVE TableKept(t)
  <2>1. LogPosition(t)' = LogPosition(t) /\ LogPosition(t) \in Nat
    BY <1>2 DEF AppendsStay, PositionKnown
  <2>2. tables[t].onboarded => BatcherTrue(t)
    BY <1>1 DEF BatchersTrue
  <2> QED
    BY <2>1, <2>2 DEF BatchersStay, TableKept, BatcherTrue
<1> QED
  BY <1>2, <1>3, ProcessKeeps

\* A process that stops takes everything that is said of it along.
LEMMA DownKeeps ==
  ASSUME CaptureInv, UNCHANGED << stream, block, streaming, shape, arriving >>,
         described' \in [Tables -> Int], LogTyped', AppendsTrue', Down
  PROVE  CaptureInv'
<1>1. SourceInv /\ ProcessTyped
  BY DEF CaptureInv
<1>2. SourceInv'
  BY <1>1, SourceStays
<1>3. \A t \in Tables : tables'[t] = NotOnboarded
  BY DEF Down
<1>4. ProcessTyped'
  BY <1>1 DEF ProcessTyped, Down, Idle, NoTransaction
<1> QED
  BY <1>2, <1>3, <1>4 DEF CaptureInv, Down, NotOnboarded, DescribedIsOnboarded, KnowsItsBlock,
       BatchersTrue, RowsWait, ChangesKept

\* The process starts again where no transaction is open, and nothing that was
\* committed before is missing.
LEMMA RestartKeeps ==
  ASSUME CaptureInv, Restart
  PROVE  CaptureInv'
<1>1. SourceInv /\ ProcessTyped /\ LogTyped /\ AppendsTrue
  BY DEF CaptureInv
<1>2. PICK p : p \in 0..Len(stream) /\ MayResumeAt(p) /\ arriving' = p + 1
  BY DEF Restart
<1>3. /\ ~running /\ running' = TRUE /\ described' = [t \in Tables |-> Undescribed]
      /\ UNCHANGED << stream, block, streaming, shape, oddities >>
      /\ UNCHANGED << tables, opening, work, applied, log, givenUp >>
  BY DEF Restart, upstream
<1>4. SourceInv'
  BY <1>1, <1>3, SourceStays
<1>a. Len(stream) \in Nat /\ p \in 0..Len(stream)
  BY <1>1, <1>2 DEF SourceInv, StreamTyped
<1>5. Len(stream) \in Nat /\ DOMAIN stream = 1..Len(stream) /\ p \in 0..Len(stream)
  BY <1>1, <1>2 DEF SourceInv, StreamTyped
<1>6. /\ \A t \in Tables : tables[t] = NotOnboarded
      /\ opening = NoTransaction
  BY <1>1, <1>3 DEF ProcessTyped
<1>7. ASSUME NEW i \in 1..p
      PROVE  \E e \in 1..p : stream[e].xid = stream[i].xid /\ stream[e].kind \in Endings
  <2>1. stream[i].xid \in 1..i /\ stream[stream[i].xid].xid = stream[i].xid
    BY <1>1, <1>5 DEF SourceInv, NamedByFirst, Begun
  <2>2. stream[i].xid \in 1..p
    BY <1>5, <2>1
  <2> QED
    BY <1>2, <2>1, <2>2 DEF MayResumeAt
<1>8. ASSUME p > 0 PROVE stream[p].kind \in Endings
  <2>1. PICK e \in 1..p : stream[e].xid = stream[p].xid /\ stream[e].kind \in Endings
    BY <1>5, <1>7, <1>8
  <2>2. ~(e < p)
    BY <1>1, <1>5, <1>8, <2>1 DEF SourceInv, NothingAfterEnd
  <2>3. e = p
    BY <1>5, <2>2
  <2> QED
    BY <2>1, <2>3
<1>9. ProcessTyped'
  <2>1. arriving' \in 1..(Len(stream) + 1) /\ described' \in [Tables -> Int]
    BY <1>2, <1>3, <1>5 DEF Undescribed
  <2> QED
    BY <1>1, <1>3, <2>1 DEF ProcessTyped
<1>10. KnowsItsBlock'
  <2>1. ASSUME p + 1 \in DOMAIN stream, stream[p + 1].kind \in InBlock PROVE FALSE
    <3>1. p + 1 > 1 /\ stream[(p + 1) - 1].kind \notin Endings /\ (p + 1) - 1 = p
      BY <1>1, <1>5, <2>1 DEF SourceInv, BlocksWhole
    <3> QED
      BY <1>5, <1>8, <3>1
  <2>2. ASSUME p + 1 = Len(stream) + 1, block # NoTransaction PROVE FALSE
    <3>1. p = Len(stream)
      BY <1>a, <2>2
    <3>2. stream[p].kind \notin Endings
      BY <1>1, <2>2, <3>1 DEF SourceInv, OpenOnes
    <3>3. block \in DOMAIN stream
      BY <1>1, <2>2 DEF SourceInv, OpenOnes, Begun
    <3> QED
      BY <1>5, <1>8, <3>1, <3>2, <3>3
  <2> QED
    BY <1>2, <1>3, <1>6, <2>1, <2>2 DEF KnowsItsBlock, NotOnboarded
<1>11. RowsWait'
  <2> SUFFICES ASSUME NEW r \in DOMAIN stream, r < p + 1, ~EndedBefore(stream[r].xid, p + 1)
               PROVE  FALSE
    BY <1>2, <1>3 DEF RowsWait, EndedBefore
  <2>1. PICK e \in 1..p : stream[e].xid = stream[r].xid /\ stream[e].kind \in Endings
    BY <1>5, <1>7
  <2> QED
    BY <1>5, <2>1 DEF EndedBefore
<1>12. ChangesKept'
  <2>a. \A t : CommittedChanges(t)' = CommittedChanges(t)
    BY <1>3 DEF CommittedChanges, CommitOf
  <2>b. \A t : AppendsAt(t)' = AppendsAt(t)
    BY <1>3 DEF AppendsAt
  <2>c. \A t : LogPosition(t)' = LogPosition(t)
    BY <1>3, <2>b DEF LogPosition
  <2> SUFFICES ASSUME NEW t \in Tables, NEW c \in CommittedChanges(t), c.lsn < p + 1
               PROVE  c.lsn <= LogPosition(t) \/ c.row \in givenUp
    BY <1>2, <1>3, <2>a, <2>c DEF ChangesKept
  <2>1. c.lsn \in Nat /\ PositionKnown
    BY <1>1, ChangesAreKnown, PositionIsKnown DEF ChangesKnown, Changes
  <2>2. c.row \in givenUp \/ c \in Published(t)
    BY <1>2, <1>5, <2>1 DEF MayResumeAt
  <2> QED
    BY <2>1, <2>2 DEF PositionKnown
<1>13. DescribedIsOnboarded' /\ BatchersTrue' /\ LogTyped'
  BY <1>1, <1>3, <1>6 DEF DescribedIsOnboarded, BatchersTrue, NotOnboarded, LogTyped
<1>14. AppendsTrue'
  BY <1>1, <1>3 DEF AppendsTrue, AppendsAt, CommittedChanges, CommitOf
<1> QED
  BY <1>4, <1>9, <1>10, <1>11, <1>12, <1>13, <1>14 DEF CaptureInv

-----------------------------------------------------------------------------
(* A message is delivered.                                                 *)

\* One table changes.
LEMMA OneTable ==
  ASSUME tables \in [Tables -> Onboarded \cup { NotOnboarded }], NEW u \in Tables, NEW s \in Onboarded,
         tables' = [tables EXCEPT ![u] = s]
  PROVE  /\ tables' \in [Tables -> Onboarded \cup { NotOnboarded }]
         /\ tables'[u] = s /\ tables'[u].onboarded = TRUE
         /\ \A t \in Tables \ { u } : tables'[t] = tables[t]
<1>1. s.onboarded = TRUE
  BY DEF Onboarded
<1> QED
  BY <1>1

\* What is onboarded is a record of the pipeline's.
LEMMA OnboardedIs ==
  ASSUME ProcessTyped, NEW t \in Tables
  PROVE  /\ tables[t].onboarded <=> tables[t] \in Onboarded
         /\ tables[t].onboarded \in BOOLEAN
<1>1. tables[t] \in Onboarded \cup { NotOnboarded }
  BY DEF ProcessTyped
<1>2. \A s \in Onboarded : s.onboarded = TRUE
  BY DEF Onboarded
<1>3. NotOnboarded.onboarded = FALSE
  BY DEF NotOnboarded
<1>4. CASE tables[t] \in Onboarded
  BY <1>2, <1>4
<1>5. CASE tables[t] = NotOnboarded
  BY <1>2, <1>3, <1>5
<1> QED
  BY <1>1, <1>4, <1>5

\* What is known of the message that arrives.
LEMMA Delivering ==
  ASSUME CaptureInv, AcceptMessage, NEW n, n = arriving
  PROVE  /\ n \in DOMAIN stream /\ n \in Nat \ {0}
         /\ Len(stream) \in Nat /\ DOMAIN stream = 1..Len(stream)
         /\ stream[n] \in Messages /\ stream[n].xid \in Nat /\ stream[n].xid # NoTransaction
         /\ running /\ (stream[n].kind \in InBlock => opening = stream[n].xid)
         /\ arriving' = n + 1
         /\ UNCHANGED << stream, block, streaming, shape, running, work, log, described >>
<1>1. SourceInv /\ ProcessTyped /\ KnowsItsBlock
  BY DEF CaptureInv
<1>2. /\ running /\ n <= Len(stream) /\ arriving' = n + 1
      /\ UNCHANGED << stream, block, streaming, shape, running, work, log, described >>
  BY DEF AcceptMessage, AcceptBoundary, AcceptTruncate, AcceptRow, upstream
<1>3. Len(stream) \in Nat /\ DOMAIN stream = 1..Len(stream) /\ n \in DOMAIN stream /\ n \in Nat \ {0}
  BY <1>1, <1>2 DEF SourceInv, StreamTyped, ProcessTyped
<1>4. stream[n] \in Messages
  BY <1>1, <1>3 DEF SourceInv, StreamTyped
<1>5. stream[n].xid \in 1..n
  BY <1>1, <1>3 DEF SourceInv, NamedByFirst
<1>6. stream[n].kind \in InBlock => opening = stream[n].xid
  BY <1>1, <1>2, <1>3 DEF KnowsItsBlock
<1> QED
  BY <1>2, <1>3, <1>4, <1>5, <1>6 DEF NoTransaction

\* The message after it is of the same transaction if it lies in a block.
LEMMA KnowsTheNext ==
  ASSUME SourceInv, NEW n \in DOMAIN stream
  PROVE  /\ n + 1 \in DOMAIN stream /\ stream[n + 1].kind \in InBlock =>
              stream[n + 1].xid = stream[n].xid /\ stream[n].kind \notin Endings
         /\ n = Len(stream) /\ block # NoTransaction =>
              block = stream[n].xid /\ stream[n].kind \notin Endings
<1>1. n \in Nat
  BY DEF SourceInv, StreamTyped
<1>2. ASSUME n + 1 \in DOMAIN stream, stream[n + 1].kind \in InBlock
      PROVE  stream[n + 1].xid = stream[n].xid /\ stream[n].kind \notin Endings
  <2>1. stream[(n + 1) - 1].xid = stream[n + 1].xid /\ stream[(n + 1) - 1].kind \notin Endings
    BY <1>2 DEF SourceInv, BlocksWhole
  <2>2. (n + 1) - 1 = n
    BY <1>1
  <2> QED
    BY <2>1, <2>2
<1> QED
  BY <1>2 DEF SourceInv, OpenOnes

\* A transaction has ended once its last message was delivered.
LEMMA EndsAt ==
  ASSUME SourceInv, NEW n \in DOMAIN stream, NEW x
  PROVE  /\ EndedBefore(x, n + 1) <=> EndedBefore(x, n) \/ x \in Ends(stream[n])
         /\ stream[n].xid = x => ~EndedBefore(x, n)
<1>1. DOMAIN stream \subseteq Nat
  BY DEF SourceInv, StreamTyped
<1>2. \A e \in DOMAIN stream : e < n + 1 <=> e < n \/ e = n
  BY <1>1
<1>3. EndedBefore(x, n + 1) <=> EndedBefore(x, n) \/ x \in Ends(stream[n])
  BY <1>2 DEF EndedBefore, Ends
<1>4. stream[n].xid = x => ~EndedBefore(x, n)
  BY DEF SourceInv, NothingAfterEnd, EndedBefore
<1> QED
  BY <1>3, <1>4

\* What a message may do to a table: rows of its transaction are sealed if it
\* commits, and it is itself the only row that can come.
TableTold(t, n) ==
  LET m == stream[n]
      b == tables[t].batcher
      c == tables'[t].batcher
  IN  /\ tables'[t].onboarded = tables[t].onboarded
      /\ RowOf(t, n) => n \in givenUp' \/ Waits(t, n)'
      /\ tables[t].onboarded =>
           /\ tables'[t].through = tables[t].through
           /\ opening' # NoTransaction => c.current = opening'
           /\ c.covers \in { b.covers, n } /\ b.covers <= c.covers
           /\ b.sealed \subseteq c.sealed
           /\ \A q \in c.sealed \ b.sealed : q \in CommittedChanges(t) /\ q.lsn = n /\ n <= c.covers
           /\ CommitsAt(n) => \A r \in Waiting(b, m.xid) : [row |-> r, lsn |-> n] \in c.sealed
           /\ KeepsOpen(b, c, Ends(m))
           /\ \A y \in DOMAIN c.open : \A r \in c.open[y] :
                \/ y \in DOMAIN b.open /\ r \in b.open[y]
                \/ y = m.xid /\ r = n /\ RowOf(t, n)

\* Then the invariant holds after it.
LEMMA DeliveryKeeps ==
  ASSUME CaptureInv, AcceptMessage, ProcessTyped', NEW n, n = arriving,
         givenUp \subseteq givenUp',
         opening' = IF stream[n].kind \in Endings THEN NoTransaction ELSE stream[n].xid,
         \A t \in Tables : TableTold(t, n)
  PROVE  CaptureInv'
<1>1. /\ SourceInv /\ ProcessTyped /\ DescribedIsOnboarded /\ BatchersTrue /\ RowsWait /\ ChangesKept
      /\ LogTyped /\ AppendsTrue
  BY DEF CaptureInv
<1>2. /\ n \in DOMAIN stream /\ n \in Nat \ {0}
      /\ Len(stream) \in Nat /\ DOMAIN stream = 1..Len(stream)
      /\ stream[n] \in Messages /\ stream[n].xid \in Nat /\ stream[n].xid # NoTransaction
      /\ running /\ (stream[n].kind \in InBlock => opening = stream[n].xid)
      /\ arriving' = n + 1
      /\ UNCHANGED << stream, block, streaming, shape, running, work, log, described >>
  BY Delivering
<1>3. SourceInv'
  BY <1>1, <1>2, SourceStays
<1>4. /\ \A t : CommittedChanges(t)' = CommittedChanges(t)
      /\ \A t : AppendsAt(t)' = AppendsAt(t)
      /\ \A t, r : RowOf(t, r)' <=> RowOf(t, r)
  BY <1>2 DEF CommittedChanges, CommitOf, AppendsAt, RowOf
<1>5. \A t : LogPosition(t)' = LogPosition(t)
  BY <1>2, <1>4 DEF LogPosition
<1>6. CommitsKnown /\ ChangesKnown /\ PositionKnown
  BY <1>1, ChangesAreKnown, PositionIsKnown
<1>7. LogTyped' /\ AppendsTrue'
  BY <1>1, <1>2, <1>4 DEF LogTyped, AppendsTrue
<1>8. DescribedIsOnboarded'
  BY <1>1, <1>2 DEF DescribedIsOnboarded, TableTold
<1>9. KnowsItsBlock'
  <2>1. /\ n + 1 \in DOMAIN stream /\ stream[n + 1].kind \in InBlock => opening' = stream[n + 1].xid
        /\ n = Len(stream) /\ block # NoTransaction => opening' = block
    BY <1>1, <1>2, KnowsTheNext
  <2>2. n + 1 = Len(stream) + 1 => n = Len(stream)
    BY <1>2
  <2>3. \A t \in Tables : tables'[t].onboarded /\ opening' # NoTransaction =>
          tables'[t].batcher.current = opening'
    BY DEF TableTold
  <2> QED
    BY <1>2, <2>1, <2>2, <2>3 DEF KnowsItsBlock
<1>10. BatchersTrue'
  <2> SUFFICES ASSUME NEW t \in Tables, tables'[t].onboarded
               PROVE  BatcherTrue(t)'
    BY DEF BatchersTrue
  <2>b. PICK b : b = tables[t].batcher
    OBVIOUS
  <2>c. PICK c : c = tables'[t].batcher
    OBVIOUS
  <2>p. PICK p : p = LogPosition(t) /\ p \in Nat
    BY <1>6 DEF PositionKnown
  <2>u. PICK u : u = tables[t].through
    OBVIOUS
  <2>1. BatcherTrue(t) /\ tables[t].onboarded
    BY <1>1 DEF BatchersTrue, TableTold
  <2>2. /\ b.covers < n /\ b.sealed \subseteq CommittedChanges(t)
        /\ \A q \in b.sealed : q.lsn <= b.covers
        /\ \A x \in DOMAIN b.open : \A r \in b.open[x] : RowOf(t, r) /\ r < n /\ stream[r].xid = x
        /\ u <= p /\ (p <= u \/ p <= b.covers)
        /\ \A q \in b.sealed : q.lsn > u => q.lsn > p
    BY <2>1, <2>b, <2>p, <2>u DEF BatcherTrue
  <2>3. /\ tables'[t].through = u
        /\ c.covers \in { b.covers, n } /\ b.covers <= c.covers
        /\ \A q \in c.sealed \ b.sealed : q \in CommittedChanges(t) /\ q.lsn = n /\ n <= c.covers
        /\ \A y \in DOMAIN c.open : \A r \in c.open[y] :
             \/ y \in DOMAIN b.open /\ r \in b.open[y]
             \/ y = stream[n].xid /\ r = n /\ RowOf(t, n)
    BY <2>1, <2>b, <2>c, <2>u DEF TableTold
  <2>4. b.covers \in Nat /\ u \in Nat
    BY <1>1, <2>1, <2>b, <2>u, OnboardedIs DEF Onboarded, BatcherStates
  <2>5. \A q \in b.sealed : q.lsn \in Nat
    BY <1>6, <2>2 DEF ChangesKnown, Changes
  <2>6. c.covers < n + 1 /\ (p <= u \/ p <= c.covers)
    BY <1>2, <2>2, <2>3, <2>4, <2>p
  <2>7. ASSUME NEW q \in c.sealed
        PROVE  q \in CommittedChanges(t) /\ q.lsn <= c.covers /\ (q.lsn > u => q.lsn > p)
    <3>1. CASE q \in b.sealed
      BY <1>2, <2>2, <2>3, <2>4, <2>5, <3>1
    <3>2. CASE q \notin b.sealed
      <4>1. q.lsn = n /\ n <= c.covers /\ q \in CommittedChanges(t)
        BY <2>3, <3>2
      <4>2. n > u => n > p
        BY <1>2, <2>2, <2>4, <2>p
      <4> QED
        BY <4>1, <4>2
    <3> QED
      BY <3>1, <3>2
  <2>8. ASSUME NEW y \in DOMAIN c.open, NEW r \in c.open[y]
        PROVE  RowOf(t, r) /\ r < n + 1 /\ stream[r].xid = y
    <3>1. CASE y \in DOMAIN b.open /\ r \in b.open[y]
      <4>1. RowOf(t, r) /\ r < n /\ stream[r].xid = y
        BY <2>2, <3>1
      <4>2. r \in Nat
        BY <1>2, <4>1 DEF RowOf
      <4> QED
        BY <1>2, <4>1, <4>2
    <3>2. CASE y = stream[n].xid /\ r = n /\ RowOf(t, n)
      BY <1>2, <3>2
    <3> QED
      BY <2>3, <3>1, <3>2
  <2>9. tables'[t].through = u /\ arriving' = n + 1 /\ stream' = stream /\ LogPosition(t)' = p
    BY <1>2, <1>5, <2>3, <2>p
  <2> QED
    BY <1>4, <2>2, <2>6, <2>7, <2>8, <2>9, <2>c DEF BatcherTrue
<1>11. RowsWait'
  <2> SUFFICES ASSUME NEW t \in Tables, NEW r \in DOMAIN stream, RowOf(t, r), r < n + 1,
                      ~EndedBefore(stream[r].xid, n + 1)
               PROVE  r \in givenUp' \/ Waits(t, r)'
    BY <1>2, <1>4 DEF RowsWait, EndedBefore
  <2>x. PICK x : x = stream[r].xid
    OBVIOUS
  <2>1. CASE r = n
    BY <2>1 DEF TableTold
  <2>2. CASE r # n
    <3>1. r < n
      BY <1>2, <2>2
    <3>2. ~EndedBefore(x, n) /\ x \notin Ends(stream[n])
      BY <1>1, <1>2, <2>x, EndsAt
    <3>3. r \in givenUp \/ Waits(t, r)
      BY <1>1, <1>2, <2>x, <3>1, <3>2 DEF RowsWait
    <3>4. tables[t].onboarded => KeepsOpen(tables[t].batcher, tables'[t].batcher, Ends(stream[n]))
      BY DEF TableTold
    <3>5. Waits(t, r) => Waits(t, r)'
      BY <1>2, <2>x, <3>2, <3>4 DEF Waits, KeepsOpen, TableTold
    <3> QED
      BY <3>3, <3>5
  <2> QED
    BY <2>1, <2>2
<1>12. ChangesKept'
  <2> SUFFICES ASSUME NEW t \in Tables, NEW q \in CommittedChanges(t), q.lsn < n + 1
               PROVE  \/ q.lsn <= LogPosition(t) \/ q.row \in givenUp'
                      \/ tables'[t].onboarded /\ q \in tables'[t].batcher.sealed
    BY <1>2, <1>4, <1>5 DEF ChangesKept
  <2>1. /\ q \in Changes /\ RowOf(t, q.row)
        /\ q.lsn \in DOMAIN stream /\ q.lsn = CommitOf(stream[q.row].xid)
    BY <1>6 DEF ChangesKnown
  <2>2. TableTold(t, n)
    OBVIOUS
  <2>3. CASE q.lsn < n
    BY <1>1, <1>2, <2>2, <2>3 DEF ChangesKept, TableTold
  <2>4. CASE q.lsn = n
    <3>r. PICK r : r = q.row
      OBVIOUS
    <3>x. PICK x : x = stream[r].xid
      OBVIOUS
    <3>1. r \in DOMAIN stream /\ RowOf(t, r) /\ CommitOf(x) = n /\ n # 0
      BY <1>2, <2>1, <2>4, <3>r, <3>x DEF RowOf
    <3>2. stream[n].xid = x /\ CommitsAt(n)
      BY <1>6, <3>1 DEF CommitsKnown
    <3>3. stream[n].kind \in Endings /\ stream[r].kind \in RowKinds
      BY <3>1, <3>2 DEF CommitsAt, RowOf
    <3>4. ~(n < r) /\ r # n
      BY <1>1, <1>2, <3>1, <3>2, <3>3, <3>x DEF SourceInv, NothingAfterEnd, Endings, RowKinds
    <3>5. r < n
      BY <1>2, <3>1, <3>4
    <3>6. ~EndedBefore(x, n)
      BY <1>1, <1>2, <3>2, EndsAt
    <3>7. r \in givenUp \/ Waits(t, r)
      BY <1>1, <1>2, <3>1, <3>5, <3>6, <3>x DEF RowsWait
    <3>8. Waits(t, r) => tables[t].onboarded /\ r \in Waiting(tables[t].batcher, x)
      BY <3>x DEF Waits, Waiting
    <3>9. q = [row |-> r, lsn |-> n]
      BY <2>1, <2>4, <3>r DEF Changes
    <3> QED
      BY <2>2, <3>2, <3>7, <3>8, <3>9, <3>r DEF TableTold
  <2> QED
    BY <1>2, <2>1, <2>3, <2>4
<1> QED
  BY <1>3, <1>7, <1>8, <1>9, <1>10, <1>11, <1>12 DEF CaptureInv

\* A boundary reaches every batcher.
LEMMA BoundaryKeeps ==
  ASSUME CaptureInv, AcceptMessage, AcceptBoundary(stream[arriving])
  PROVE  CaptureInv'
<1>n. PICK n : n = arriving
  OBVIOUS
<1>m. PICK m : m = stream[n]
  OBVIOUS
<1>1. /\ SourceInv /\ ProcessTyped /\ KnowsItsBlock /\ BatchersTrue
      /\ CommitsKnown /\ ChangesKnown
  BY ChangesAreKnown DEF CaptureInv
<1>2. /\ n \in DOMAIN stream /\ n \in Nat \ {0}
      /\ Len(stream) \in Nat /\ DOMAIN stream = 1..Len(stream)
      /\ m \in Messages /\ m.xid \in Nat /\ m.xid # NoTransaction
      /\ running /\ (m.kind \in InBlock => opening = m.xid)
      /\ arriving' = n + 1
      /\ UNCHANGED << stream, running, work, described >>
  BY <1>n, <1>m, Delivering
<1>3. /\ m.kind \in Openings \cup Endings
      /\ opening' = IF m.kind \in Openings THEN m.xid ELSE NoTransaction
      /\ tables' = [t \in Tables |->
                      IF tables[t].onboarded
                      THEN [tables[t] EXCEPT !.batcher = Boundary(@, m, n)] ELSE tables[t]]
      /\ givenUp' = givenUp
  BY <1>n, <1>m DEF AcceptBoundary
<1>4. opening' = IF m.kind \in Endings THEN NoTransaction ELSE m.xid
  BY <1>3 DEF Openings, Endings
<1>5. m.kind \notin RowKinds /\ (m.kind = "commit" => m.kind \in InBlock)
  BY <1>3 DEF Openings, Endings, RowKinds, InBlock
<1>6. ASSUME NEW t \in Tables, tables[t].onboarded
      PROVE  LET b == tables[t].batcher
                 c == tables'[t].batcher
             IN  /\ b \in BatcherStates /\ c \in BatcherStates
                 /\ tables'[t] \in Onboarded /\ tables'[t].through = tables[t].through
                 /\ m.kind \in Openings => c.current = m.xid
                 /\ c.covers \in { b.covers, n } /\ b.covers <= c.covers
                 /\ c.sealed = b.sealed \cup SealedBy(b, m, n)
                 /\ SealedBy(b, m, n) # {} => n <= c.covers
                 /\ KeepsOpen(b, c, Ends(m))
                 /\ \A y \in DOMAIN c.open : \A r \in c.open[y] : y \in DOMAIN b.open /\ r \in b.open[y]
  <2>b. PICK b : b = tables[t].batcher
    OBVIOUS
  <2>1. tables[t] \in Onboarded
    BY <1>1, <1>6, OnboardedIs
  <2>2. b \in BatcherStates
    BY <2>1, <2>b DEF Onboarded
  <2>3. m.kind = "commit" => b.current = m.xid
    BY <1>1, <1>2, <1>5, <1>6, <2>b DEF KnowsItsBlock
  <2>c. PICK c : c = Boundary(b, m, n)
    OBVIOUS
  <2>4. /\ c \in BatcherStates
        /\ m.kind \in Openings => c.current = m.xid
        /\ c.covers \in { b.covers, n } /\ b.covers <= c.covers
        /\ c.sealed = b.sealed \cup SealedBy(b, m, n)
        /\ SealedBy(b, m, n) # {} => n <= c.covers
        /\ KeepsOpen(b, c, Ends(m))
        /\ \A y \in DOMAIN c.open : \A r \in c.open[y] : y \in DOMAIN b.open /\ r \in b.open[y]
    BY <1>2, <1>3, <2>2, <2>3, <2>c, BoundaryDoes
  <2>5. tables'[t] = [tables[t] EXCEPT !.batcher = c]
    BY <1>3, <1>6, <2>b, <2>c
  <2>6. tables'[t] \in Onboarded /\ tables'[t].through = tables[t].through /\ tables'[t].batcher = c
    BY <2>1, <2>4, <2>5 DEF Onboarded
  <2> QED
    BY <2>2, <2>4, <2>6, <2>b
<1>7. \A t \in Tables : /\ tables'[t] \in Onboarded \cup { NotOnboarded }
                        /\ tables'[t].onboarded = tables[t].onboarded
  <2> TAKE t \in Tables
  <2>1. CASE tables[t].onboarded
    <3>1. tables'[t] \in Onboarded /\ tables[t] \in Onboarded
      BY <1>1, <1>6, <2>1, OnboardedIs
    <3> QED
      BY <3>1 DEF Onboarded
  <2>2. CASE ~tables[t].onboarded
    BY <1>1, <1>3, <2>2 DEF ProcessTyped
  <2> QED
    BY <2>1, <2>2
<1>8. ProcessTyped'
  <2>1. tables' \in [Tables -> Onboarded \cup { NotOnboarded }]
    BY <1>3, <1>7
  <2>2. arriving' \in 1..(Len(stream) + 1) /\ opening' \in Nat
    BY <1>2, <1>3 DEF NoTransaction
  <2> QED
    BY <1>1, <1>2, <1>7, <2>1, <2>2 DEF ProcessTyped
<1>9. ASSUME NEW t \in Tables PROVE TableTold(t, n)
  <2>1. ~RowOf(t, n)
    BY <1>5, <1>m DEF RowOf
  <2>2. CASE ~tables[t].onboarded
    BY <1>7, <2>1, <2>2 DEF TableTold
  <2>3. CASE tables[t].onboarded
    <3>b. PICK b : b = tables[t].batcher
      OBVIOUS
    <3>c. PICK c : c = tables'[t].batcher
      OBVIOUS
    <3>1. /\ tables'[t].through = tables[t].through
          /\ m.kind \in Openings => c.current = m.xid
          /\ c.covers \in { b.covers, n } /\ b.covers <= c.covers
          /\ c.sealed = b.sealed \cup SealedBy(b, m, n)
          /\ SealedBy(b, m, n) # {} => n <= c.covers
          /\ KeepsOpen(b, c, Ends(m))
          /\ \A y \in DOMAIN c.open : \A r \in c.open[y] : y \in DOMAIN b.open /\ r \in b.open[y]
      BY <1>6, <2>3, <3>b, <3>c
    <3>2. opening' # NoTransaction => c.current = opening'
      BY <1>3, <3>1
    <3>3. ASSUME NEW q \in SealedBy(b, m, n) PROVE q \in CommittedChanges(t) /\ q.lsn = n
      <4>1. m.kind \in Endings \ { "stream_abort" }
        BY <3>3 DEF SealedBy
      <4>2. PICK r \in Waiting(b, m.xid) : q = [row |-> r, lsn |-> n]
        BY <3>3, <4>1 DEF SealedBy
      <4>3. RowOf(t, r) /\ stream[r].xid = m.xid
        <5>1. BatcherTrue(t)
          BY <1>1, <2>3 DEF BatchersTrue
        <5>2. m.xid \in DOMAIN b.open /\ r \in b.open[m.xid]
          BY <4>2 DEF Waiting
        <5> QED
          BY <3>b, <5>1, <5>2 DEF BatcherTrue
      <4>4. CommitOf(m.xid) = n
        BY <1>1, <1>2, <1>m, <4>1 DEF CommitsKnown, CommitsAt
      <4>5. r \in DOMAIN stream /\ CommitOf(stream[r].xid) = n /\ n # 0
        BY <1>2, <4>3, <4>4 DEF RowOf
      <4>6. [row |-> r, lsn |-> CommitOf(stream[r].xid)] \in CommittedChanges(t)
        BY <1>1, <4>3, <4>5 DEF ChangesKnown
      <4> QED
        BY <4>2, <4>5, <4>6
    <3>4. CommitsAt(n) => \A r \in Waiting(b, m.xid) : [row |-> r, lsn |-> n] \in c.sealed
      BY <1>m, <3>1 DEF CommitsAt, SealedBy
    <3>5. \A q \in c.sealed \ b.sealed : q \in CommittedChanges(t) /\ q.lsn = n /\ n <= c.covers
      BY <3>1, <3>3
    <3>6. b.sealed \subseteq c.sealed
      BY <3>1
    <3> QED
      BY <1>7, <1>m, <2>1, <3>b, <3>c, <3>1, <3>2, <3>4, <3>5, <3>6 DEF TableTold
  <2> QED
    BY <2>2, <2>3
<1> QED
  BY <1>3, <1>4, <1>8, <1>9, <1>m, <1>n, DeliveryKeeps

\* What lies inside a block reaches one table's batcher at most, as a row put
\* with the transaction being read.
InsideDoes(t, n) ==
  /\ tables'[t].onboarded = tables[t].onboarded
  /\ RowOf(t, n) => n \in givenUp' \/ Waits(t, n)'
  /\ tables[t].onboarded =>
       /\ tables'[t].through = tables[t].through
       /\ \/ tables'[t].batcher = tables[t].batcher
          \/ RowOf(t, n) /\ tables'[t].batcher = Pushed(tables[t].batcher, n)

LEMMA InsideKeeps ==
  ASSUME CaptureInv, AcceptMessage, NEW n, n = arriving,
         stream[n].kind \in InBlock \ { "commit" },
         tables' \in [Tables -> Onboarded \cup { NotOnboarded }],
         opening' = opening, givenUp \subseteq givenUp',
         \A t \in Tables : InsideDoes(t, n)
  PROVE  CaptureInv'
<1>m. PICK m : m = stream[n]
  OBVIOUS
<1>1. SourceInv /\ ProcessTyped /\ KnowsItsBlock /\ BatchersTrue
  BY DEF CaptureInv
<1>2. /\ n \in DOMAIN stream /\ n \in Nat \ {0}
      /\ Len(stream) \in Nat /\ DOMAIN stream = 1..Len(stream)
      /\ m.xid \in Nat /\ m.xid # NoTransaction
      /\ running /\ opening = m.xid
      /\ arriving' = n + 1
      /\ UNCHANGED << stream, running, work, described >>
  BY <1>m, Delivering
<1>3. m.kind \notin Endings /\ Ends(m) = {} /\ ~CommitsAt(n)
  BY <1>m DEF InBlock, RowKinds, Endings, Ends, CommitsAt
<1>4. ProcessTyped'
  <2>1. arriving' \in 1..(Len(stream) + 1)
    BY <1>2
  <2>2. \A t \in Tables : tables'[t].onboarded = tables[t].onboarded
    BY DEF InsideDoes
  <2> QED
    BY <1>1, <1>2, <2>1, <2>2 DEF ProcessTyped
<1>5. ASSUME NEW t \in Tables PROVE TableTold(t, n)
  <2>1. CASE ~tables[t].onboarded
    BY <2>1 DEF InsideDoes, TableTold
  <2>2. CASE tables[t].onboarded
    <3>b. PICK b : b = tables[t].batcher
      OBVIOUS
    <3>c. PICK c : c = tables'[t].batcher
      OBVIOUS
    <3>1. b \in BatcherStates /\ b.covers \in Nat /\ b.current = m.xid
      <4>1. b \in BatcherStates
        BY <1>1, <2>2, <3>b, OnboardedIs DEF Onboarded
      <4>2. b.current = m.xid
        BY <1>1, <1>2, <2>2, <3>b DEF KnowsItsBlock
      <4> QED
        BY <4>1, <4>2 DEF BatcherStates
    <3>2. /\ c.current = b.current /\ c.sealed = b.sealed /\ c.covers = b.covers
          /\ KeepsOpen(b, c, {})
          /\ \A y \in DOMAIN c.open : \A r \in c.open[y] :
               \/ y \in DOMAIN b.open /\ r \in b.open[y]
               \/ y = m.xid /\ r = n /\ RowOf(t, n)
      <4>1. CASE c = b
        BY <4>1 DEF KeepsOpen
      <4>2. CASE RowOf(t, n) /\ c = Pushed(b, n)
        BY <1>2, <3>1, <4>2, PushedDoes
      <4> QED
        BY <2>2, <3>b, <3>c, <4>1, <4>2 DEF InsideDoes
    <3>3. b.covers <= b.covers
      BY <3>1
    <3>4. /\ tables'[t].onboarded = tables[t].onboarded /\ tables'[t].through = tables[t].through
          /\ RowOf(t, n) => n \in givenUp' \/ Waits(t, n)'
      BY <2>2 DEF InsideDoes
    <3> QED
      BY <1>2, <1>3, <1>m, <3>b, <3>c, <3>1, <3>2, <3>3, <3>4 DEF TableTold
  <2> QED
    BY <2>1, <2>2
<1>6. opening' = IF m.kind \in Endings THEN NoTransaction ELSE m.xid
  BY <1>2, <1>3
<1> QED
  BY <1>4, <1>5, <1>6, <1>m, DeliveryKeeps

\* A truncation quarantines its table.
LEMMA TruncateKeeps ==
  ASSUME CaptureInv, AcceptMessage, AcceptTruncate(stream[arriving])
  PROVE  CaptureInv'
<1>n. PICK n : n = arriving
  OBVIOUS
<1>m. PICK m : m = stream[n]
  OBVIOUS
<1>1. ProcessTyped
  BY DEF CaptureInv
<1>2. /\ m.kind = "truncate" /\ opening' = opening /\ givenUp' = givenUp
      /\ tables' = [tables EXCEPT ![m.table] =
                      IF @.onboarded THEN [@ EXCEPT !.quarantined = TRUE] ELSE @]
  BY <1>n, <1>m DEF AcceptTruncate
<1>3. ASSUME NEW t \in Tables
      PROVE  /\ tables'[t] \in Onboarded \cup { NotOnboarded }
             /\ InsideDoes(t, n)
  <2>1. ~RowOf(t, n)
    BY <1>2, <1>m DEF RowOf, RowKinds
  <2>2. CASE t = m.table /\ tables[t].onboarded
    <3>s. PICK s : s = tables[t]
      OBVIOUS
    <3>1. s \in Onboarded
      BY <1>1, <2>2, <3>s, OnboardedIs
    <3>2. tables'[t] = [s EXCEPT !.quarantined = TRUE]
      BY <1>1, <1>2, <2>2, <3>s DEF ProcessTyped
    <3>3. /\ tables'[t] \in Onboarded /\ tables'[t].through = s.through /\ tables'[t].batcher = s.batcher
          /\ tables'[t].onboarded = s.onboarded
      BY <3>1, <3>2 DEF Onboarded
    <3> QED
      BY <2>1, <3>3, <3>s DEF InsideDoes
  <2>3. CASE ~(t = m.table /\ tables[t].onboarded)
    <3>1. tables'[t] = tables[t]
      BY <1>1, <1>2, <2>3 DEF ProcessTyped
    <3> QED
      BY <1>1, <2>1, <3>1 DEF InsideDoes, ProcessTyped
  <2> QED
    BY <2>2, <2>3
<1>4. tables' \in [Tables -> Onboarded \cup { NotOnboarded }]
  <2>1. DOMAIN tables' = Tables /\ tables' = [t \in Tables |-> tables'[t]]
    BY <1>1, <1>2 DEF ProcessTyped
  <2> QED
    BY <1>3, <2>1
<1>5. stream[n].kind \in InBlock \ { "commit" }
  BY <1>2, <1>m DEF InBlock
<1> QED
  BY <1>2, <1>3, <1>4, <1>5, <1>n, InsideKeeps

\* A row waits with its transaction, or is recorded as given up: its table was
\* described, so it is onboarded and knows the transaction that is open.
LEMMA RowKeeps ==
  ASSUME CaptureInv, AcceptMessage, AcceptRow(stream[arriving])
  PROVE  CaptureInv'
<1>n. PICK n : n = arriving
  OBVIOUS
<1>m. PICK m : m = stream[n]
  OBVIOUS
<1>u. PICK u : u = m.table
  OBVIOUS
<1>s. PICK s : s = tables[u]
  OBVIOUS
<1>1. ProcessTyped /\ DescribedIsOnboarded /\ KnowsItsBlock
  BY DEF CaptureInv
<1>2. /\ m.kind \in RowKinds /\ described[u] = m.columns /\ opening' = opening
      /\ givenUp' = IF s.quarantined \/ m.kind = "withheld" THEN givenUp \cup { n } ELSE givenUp
      /\ tables' = IF s.quarantined \/ Refuses(s.batcher, m) THEN tables
                   ELSE [tables EXCEPT ![u].batcher = Pushed(@, n)]
  BY <1>n, <1>m, <1>u, <1>s DEF AcceptRow
<1>3. /\ n \in DOMAIN stream /\ n \in Nat
      /\ m \in Messages /\ m.xid \in Nat /\ m.xid # NoTransaction
      /\ running /\ opening = m.xid /\ UNCHANGED stream
  <2>1. m.kind \in InBlock
    BY <1>2 DEF InBlock
  <2> QED
    BY <1>n, <1>m, <2>1, Delivering
<1>4. tables \in [Tables -> Onboarded \cup { NotOnboarded }]
  BY <1>1 DEF ProcessTyped
<1>5. ASSUME NEW t \in Tables, t # u \/ tables' = tables
      PROVE  tables'[t] = tables[t]
  BY <1>2, <1>4, <1>5
<1>6. ASSUME u \in Tables
      PROVE  /\ s \in Onboarded /\ s.batcher \in BatcherStates
             /\ s.batcher.current = m.xid /\ (Refuses(s.batcher, m) <=> m.kind = "withheld")
  <2>1. described[u] # Undescribed
    <3>1. m.columns \in Nat
      BY <1>3 DEF Messages
    <3> QED
      BY <1>2, <3>1 DEF Undescribed
  <2>2. tables[u].onboarded
    BY <1>1, <1>3, <1>6, <2>1 DEF DescribedIsOnboarded
  <2>3. s \in Onboarded
    BY <1>1, <1>6, <1>s, <2>2, OnboardedIs
  <2>4. s.batcher.current = m.xid
    BY <1>1, <1>3, <1>6, <1>s, <2>2 DEF KnowsItsBlock
  <2> QED
    BY <1>3, <2>3, <2>4 DEF Onboarded, Refuses
<1>7. CASE tables' = tables /\ (u \in Tables => n \in givenUp')
  <2>1. \A t \in Tables : InsideDoes(t, n)
    BY <1>m, <1>u, <1>7 DEF InsideDoes, RowOf
  <2>2. stream[n].kind \in InBlock \ { "commit" }
    BY <1>2, <1>m DEF InBlock, RowKinds
  <2>3. givenUp \subseteq givenUp'
    BY <1>2
  <2> QED
    BY <1>2, <1>4, <1>7, <1>n, <2>1, <2>2, <2>3, InsideKeeps
<1>8. CASE u \in Tables /\ tables' = [tables EXCEPT ![u].batcher = Pushed(@, n)] /\ givenUp' = givenUp
  <2>b. PICK b : b = s.batcher
    OBVIOUS
  <2>c. PICK c : c = Pushed(b, n)
    OBVIOUS
  <2>1. c \in BatcherStates /\ m.xid \in DOMAIN c.open /\ n \in c.open[m.xid]
    BY <1>3, <1>6, <1>8, <2>b, <2>c, PushedDoes
  <2>2. tables'[u] = [s EXCEPT !.batcher = c] /\ s \in Onboarded
    BY <1>4, <1>6, <1>8, <1>s, <2>b, <2>c
  <2>3. /\ tables'[u] \in Onboarded /\ tables'[u].onboarded = TRUE /\ s.onboarded = TRUE
        /\ tables'[u].through = s.through /\ tables'[u].batcher = c
    BY <2>1, <2>2 DEF Onboarded
  <2>4. \A t \in Tables \ { u } : tables'[t] = tables[t]
    BY <1>5
  <2>5. Waits(u, n)'
    BY <1>3, <1>m, <2>1, <2>3 DEF Waits
  <2>6. RowOf(u, n)
    BY <1>2, <1>3, <1>m, <1>u DEF RowOf
  <2>7. InsideDoes(u, n)
    BY <1>s, <2>3, <2>5, <2>6, <2>b, <2>c DEF InsideDoes
  <2>8. \A t \in Tables \ { u } : InsideDoes(t, n)
    BY <1>m, <1>u, <2>4 DEF InsideDoes, RowOf
  <2>9. tables' \in [Tables -> Onboarded \cup { NotOnboarded }]
    <3>1. tables' = [tables EXCEPT ![u] = tables'[u]]
      BY <1>4, <1>8
    <3> QED
      BY <1>4, <2>3, <3>1
  <2>10. stream[n].kind \in InBlock \ { "commit" }
    BY <1>2, <1>m DEF InBlock, RowKinds
  <2> QED
    BY <1>2, <1>8, <1>n, <2>7, <2>8, <2>9, <2>10, InsideKeeps
<1>9. CASE u \in Tables
  <2>1. CASE s.quarantined \/ m.kind = "withheld"
    <3>1. tables' = tables /\ n \in givenUp'
      BY <1>2, <1>6, <1>9, <2>1
    <3> QED
      BY <1>7, <3>1
  <2>2. CASE ~(s.quarantined \/ m.kind = "withheld")
    <3>1. tables' = [tables EXCEPT ![u].batcher = Pushed(@, n)] /\ givenUp' = givenUp
      BY <1>2, <1>6, <1>9, <2>2
    <3> QED
      BY <1>8, <1>9, <3>1
  <2> QED
    BY <2>1, <2>2
<1>10. CASE u \notin Tables
  <2>1. tables' = tables
    BY <1>2, <1>4, <1>10
  <2> QED
    BY <1>7, <1>10, <2>1
<1> QED
  BY <1>9, <1>10

\* So does whatever message is delivered.
LEMMA AcceptKeeps ==
  ASSUME CaptureInv, AcceptMessage
  PROVE  CaptureInv'
<1>1. \/ AcceptBoundary(stream[arriving])
      \/ AcceptTruncate(stream[arriving])
      \/ AcceptRow(stream[arriving])
  BY DEF AcceptMessage
<1> QED
  BY <1>1, BoundaryKeeps, TruncateKeeps, RowKeeps

-----------------------------------------------------------------------------
(* The process's other steps.                                              *)

\* A table that is seen for the first time holds nothing, begins where its log
\* is, and knows the transaction that is open.
LEMMA FreshDoes ==
  ASSUME CaptureInv, NEW t \in Tables, NEW columns \in Nat
  PROVE  LET s == Fresh(t, columns)
         IN  /\ s \in Onboarded /\ s.through = LogPosition(t)
             /\ s.batcher.sealed = {} /\ s.batcher.covers = 0
             /\ \A y \in DOMAIN s.batcher.open : \A r \in s.batcher.open[y] : FALSE
             /\ opening # NoTransaction => s.batcher.current = opening
<1>1. opening \in Nat /\ LogPosition(t) \in Nat
  BY PositionIsKnown DEF CaptureInv, ProcessTyped, PositionKnown
<1>2. << >> \in [{} -> SUBSET Nat] /\ DOMAIN << >> = {}
  OBVIOUS
<1>3. << >> \in Rows
  BY <1>2 DEF Rows
<1> DEFINE b == NewBatcher
           c == IF opening = NoTransaction THEN b ELSE Opened(b, opening)
           s == NewTable(columns, LogPosition(t))
<1>4. /\ b \in BatcherStates /\ b.sealed = {} /\ b.covers = 0
      /\ \A y \in DOMAIN b.open : \A r \in b.open[y] : FALSE
  BY <1>2, <1>3 DEF NewBatcher, BatcherStates, Changes, NoTransaction
<1>5. s \in Onboarded /\ s.through = LogPosition(t) /\ s.batcher = b
  BY <1>1, <1>4 DEF NewTable, Onboarded, Undescribed
<1> HIDE DEF b, s
<1>6. /\ c \in BatcherStates /\ c.sealed = {} /\ c.covers = 0
      /\ \A y \in DOMAIN c.open : \A r \in c.open[y] : FALSE
      /\ opening # NoTransaction => c.current = opening
  <2>1. CASE opening = NoTransaction
    BY <1>4, <2>1
  <2>2. CASE opening # NoTransaction
    <3>1. c = Opened(b, opening)
      BY <2>2
    <3> HIDE DEF c
    <3> QED
      BY <1>1, <1>4, <3>1, OpenedDoes
  <2> QED
    BY <2>1, <2>2
<1>7. Fresh(t, columns) = [s EXCEPT !.batcher = c]
  BY <1>5 DEF Fresh, Restored, s
<1> HIDE DEF c
<1>8. /\ Fresh(t, columns) \in Onboarded /\ Fresh(t, columns).through = LogPosition(t)
      /\ Fresh(t, columns).batcher = c
  BY <1>5, <1>6, <1>7 DEF Onboarded
<1> QED
  BY <1>6, <1>8

\* A relation is described, and its table is new.
LEMMA OnboardKeeps ==
  ASSUME CaptureInv, NEW u \in Tables, NEW columns \in Shapes, Onboard(u, columns)
  PROVE  CaptureInv'
<1>1. /\ SourceInv /\ ProcessTyped /\ DescribedIsOnboarded /\ KnowsItsBlock /\ BatchersTrue
      /\ RowsWait /\ ChangesKept /\ LogTyped /\ AppendsTrue
  BY DEF CaptureInv
<1>a. Describes(u, columns) /\ ~tables[u].onboarded /\ UNCHANGED << upstream, arriving, log, restarts, givenUp >>
  BY DEF Onboard
<1>2. /\ running /\ work = Idle /\ ~tables[u].onboarded
      /\ described' = [described EXCEPT ![u] = columns]
      /\ UNCHANGED << stream, block, streaming, shape, arriving, log, restarts, givenUp >>
  BY <1>a DEF Describes, upstream
<1>b. columns \in Nat
  BY CaptureAssumption DEF CaptureAssumption
<1>3. columns \in Nat /\ columns # Undescribed /\ columns \in Int
  BY <1>b DEF Undescribed
<1>4. described' \in [Tables -> Int]
  BY <1>1, <1>2, <1>3 DEF ProcessTyped
<1>5. \A t : CommittedChanges(t)' = CommittedChanges(t)
  BY <1>2 DEF CommittedChanges, CommitOf
<1>6. \A t : AppendsAt(t)' = AppendsAt(t)
  BY <1>2 DEF AppendsAt
<1>7. \A t : LogPosition(t)' = LogPosition(t)
  BY <1>2, <1>6 DEF LogPosition
<1>8. LogTyped' /\ AppendsTrue'
  BY <1>1, <1>2, <1>5, <1>6 DEF LogTyped, AppendsTrue
<1>9. CASE columns = 0
  BY <1>2, <1>4, <1>8, <1>9, DownKeeps DEF Onboard
<1>10. CASE columns # 0
  <2>s. PICK s : s = Fresh(u, columns)
    OBVIOUS
  <2>1. tables' = [tables EXCEPT ![u] = s] /\ UNCHANGED << running, opening, work, applied >>
    BY <1>10, <2>s DEF Onboard
  <2>2. /\ s \in Onboarded /\ s.through = LogPosition(u)
        /\ s.batcher.sealed = {} /\ s.batcher.covers = 0
        /\ \A y \in DOMAIN s.batcher.open : \A r \in s.batcher.open[y] : FALSE
        /\ opening # NoTransaction => s.batcher.current = opening
    BY <1>3, <2>s, FreshDoes
  <2>3. /\ tables' \in [Tables -> Onboarded \cup { NotOnboarded }]
        /\ tables'[u] = s /\ tables'[u].onboarded = TRUE
        /\ \A t \in Tables \ { u } : tables'[t] = tables[t]
    BY <1>1, <2>1, <2>2, OneTable DEF ProcessTyped
  <2>4. SourceInv' /\ Len(stream) \in Nat
    BY <1>1, <1>2, SourceStays DEF SourceInv, StreamTyped
  <2>5. ProcessTyped'
    BY <1>1, <1>2, <1>4, <2>1, <2>3 DEF ProcessTyped, Idle
  <2>6. DescribedIsOnboarded'
    BY <1>1, <1>2, <2>1, <2>3 DEF ProcessTyped, DescribedIsOnboarded
  <2>7. KnowsItsBlock'
    <3>1. \A t \in Tables : tables'[t].onboarded /\ opening # NoTransaction =>
            tables'[t].batcher.current = opening
      BY <1>1, <1>2, <2>2, <2>3 DEF KnowsItsBlock
    <3> QED
      BY <1>1, <1>2, <2>1, <3>1 DEF KnowsItsBlock
  <2>8. BatchersTrue'
    <3> SUFFICES ASSUME NEW t \in Tables, tables'[t].onboarded PROVE BatcherTrue(t)'
      BY DEF BatchersTrue
    <3>1. CASE t = u
      <4>1. arriving \in Nat /\ 0 < arriving
        BY <1>1, <2>4 DEF ProcessTyped
      <4>2. LogPosition(u) \in Nat
        BY <1>1, PositionIsKnown DEF PositionKnown
      <4> QED
        BY <1>2, <1>7, <2>2, <2>3, <3>1, <4>1, <4>2 DEF BatcherTrue
    <3>2. CASE t # u
      <4>1. tables'[t] = tables[t] /\ BatcherTrue(t)
        BY <1>1, <2>3, <3>2 DEF BatchersTrue
      <4>2. \A r : RowOf(t, r)' <=> RowOf(t, r)
        BY <1>2 DEF RowOf
      <4> QED
        BY <1>2, <1>5, <1>7, <4>1, <4>2 DEF BatcherTrue
    <3> QED
      BY <3>1, <3>2
  <2>9. RowsWait'
    <3> SUFFICES ASSUME NEW t \in Tables, NEW r \in DOMAIN stream, RowOf(t, r), r < arriving,
                        ~EndedBefore(stream[r].xid, arriving)
                 PROVE  r \in givenUp \/ Waits(t, r)'
      BY <1>2 DEF RowsWait, RowOf, EndedBefore
    <3>1. r \in givenUp \/ Waits(t, r)
      BY <1>1, <1>2 DEF RowsWait
    <3>2. Waits(t, r) => t # u
      BY <1>2 DEF Waits
    <3> QED
      BY <1>2, <2>3, <3>1, <3>2 DEF Waits
  <2>10. ChangesKept'
    <3> SUFFICES ASSUME NEW t \in Tables, NEW c \in CommittedChanges(t), c.lsn < arriving
                 PROVE  \/ c.lsn <= LogPosition(t) \/ c.row \in givenUp
                        \/ tables'[t].onboarded /\ c \in tables'[t].batcher.sealed
      BY <1>2, <1>5, <1>7 DEF ChangesKept
    <3>1. \/ c.lsn <= LogPosition(t) \/ c.row \in givenUp
          \/ tables[t].onboarded /\ c \in tables[t].batcher.sealed
      BY <1>1, <1>2 DEF ChangesKept
    <3> QED
      BY <1>2, <2>3, <3>1
  <2> QED
    BY <1>8, <2>4, <2>5, <2>6, <2>7, <2>8, <2>9, <2>10 DEF CaptureInv
<1> QED
  BY <1>9, <1>10

\* A log that stays as it is.
LEMMA LogStays ==
  ASSUME LogTyped, log' = log
  PROVE  Quietly
  BY DEF LogTyped, Quietly, Extends

\* Changes to a table that leave its batcher alone.
LEMMA TableTouched ==
  ASSUME CaptureInv, running, NEW u \in Tables, tables[u].onboarded, NEW s \in Onboarded,
         s.batcher = tables[u].batcher, s.through = tables[u].through,
         tables' = [tables EXCEPT ![u] = s],
         UNCHANGED << stream, block, streaming, shape, arriving, opening, running >>,
         described' \in [Tables -> Int], \A t \in Tables \ { u } : described'[t] = described[t],
         givenUp \subseteq givenUp', Quietly, work' = Idle
  PROVE  CaptureInv'
<1>1. ProcessTyped /\ DescribedIsOnboarded
  BY DEF CaptureInv
<1>2. /\ tables' \in [Tables -> Onboarded \cup { NotOnboarded }]
      /\ tables'[u] = s /\ tables'[u].onboarded = TRUE
      /\ \A t \in Tables \ { u } : tables'[t] = tables[t]
  BY <1>1, OneTable DEF ProcessTyped
<1>3. tables[u].onboarded = TRUE
  BY <1>1, OnboardedIs
<1>4. ProcessTyped'
  BY <1>1, <1>2 DEF ProcessTyped, Idle
<1>5. DescribedIsOnboarded'
  BY <1>1, <1>2 DEF DescribedIsOnboarded
<1>6. BatchersStay
  BY <1>2, <1>3 DEF BatchersStay
<1> QED
  BY <1>4, <1>5, <1>6, QuietStepKeeps

\* A shape is a number of columns.
LEMMA ShapesAreNumbers ==
  ASSUME NEW columns \in Shapes
  PROVE  columns \in Nat /\ columns \in Int /\ columns # Undescribed
<1>1. \A c \in Shapes : c \in Nat
  BY CaptureAssumption DEF CaptureAssumption
<1>2. columns \in Nat
  BY <1>1
<1> QED
  BY <1>2 DEF Undescribed

\* Shapes are refused, adopted by an operator, described again or awaited.
LEMMA QuarantineKeeps ==
  ASSUME CaptureInv, NEW u \in Tables, NEW columns \in Shapes, Quarantine(u, columns)
  PROVE  CaptureInv'
<1>1. ProcessTyped /\ LogTyped
  BY DEF CaptureInv
<1>a. /\ Describes(u, columns) /\ tables[u].onboarded
      /\ tables' = [tables EXCEPT ![u].quarantined = TRUE,
                                  ![u].pending = IF columns = 0 THEN Undescribed ELSE columns]
      /\ UNCHANGED << upstream, arriving, running, opening, work, applied, log, restarts, givenUp >>
  BY DEF Quarantine
<1>2. /\ running /\ work = Idle /\ tables[u].onboarded
      /\ described' = [described EXCEPT ![u] = columns]
      /\ UNCHANGED << stream, block, streaming, shape, arriving, opening, running, work, log, givenUp >>
  BY <1>a DEF Describes, upstream
<1>3. columns \in Nat /\ columns \in Int
  BY ShapesAreNumbers
<1>4. tables[u] \in Onboarded
  BY <1>1, <1>2, OnboardedIs
<1> DEFINE s == [[tables[u] EXCEPT !.quarantined = TRUE]
                   EXCEPT !.pending = IF columns = 0 THEN Undescribed ELSE columns]
<1>5. tables' = [tables EXCEPT ![u] = s]
  BY <1>1, <1>a, <1>4 DEF ProcessTyped, Onboarded
<1>6. s \in Onboarded /\ s.batcher = tables[u].batcher /\ s.through = tables[u].through
  BY <1>3, <1>4 DEF Onboarded
<1>7. described' \in [Tables -> Int] /\ \A t \in Tables \ { u } : described'[t] = described[t]
  BY <1>1, <1>2, <1>3 DEF ProcessTyped
<1>8. Quietly
  BY <1>1, <1>2, LogStays
<1> HIDE DEF s
<1> QED
  BY <1>2, <1>5, <1>6, <1>7, <1>8, TableTouched

LEMMA AdoptPendingKeeps ==
  ASSUME CaptureInv, NEW u \in Tables, AdoptPendingSchema(u)
  PROVE  CaptureInv'
<1>1. ProcessTyped /\ LogTyped
  BY DEF CaptureInv
<1>2. /\ running /\ work = Idle /\ tables[u].onboarded /\ tables[u].pending # Undescribed
      /\ tables' = [tables EXCEPT ![u].columns = tables[u].pending,
                                  ![u].quarantined = FALSE,
                                  ![u].pending = Undescribed]
      /\ UNCHANGED << stream, block, streaming, shape, arriving, described, opening, running, work, log, givenUp >>
  BY DEF AdoptPendingSchema, upstream, connection
<1>3. tables[u] \in Onboarded
  BY <1>1, <1>2, OnboardedIs
<1> DEFINE s == [[[tables[u] EXCEPT !.columns = tables[u].pending] EXCEPT !.quarantined = FALSE]
                   EXCEPT !.pending = Undescribed]
<1>4. tables' = [tables EXCEPT ![u] = s]
  BY <1>1, <1>2, <1>3 DEF ProcessTyped, Onboarded
<1>5. tables[u].pending \in Nat
  BY <1>2, <1>3 DEF Onboarded
<1>6. s \in Onboarded /\ s.batcher = tables[u].batcher /\ s.through = tables[u].through
  BY <1>3, <1>5 DEF Onboarded
<1>7. described' \in [Tables -> Int] /\ \A t \in Tables \ { u } : described'[t] = described[t]
  BY <1>1, <1>2 DEF ProcessTyped
<1>8. Quietly
  BY <1>1, <1>2, LogStays
<1> HIDE DEF s
<1> QED
  BY <1>2, <1>4, <1>6, <1>7, <1>8, TableTouched

\* Steps that touch no table.
LEMMA TablesUntouched ==
  ASSUME CaptureInv, UNCHANGED << tables, stream, block, streaming, shape, arriving, opening, running >>,
         givenUp \subseteq givenUp', ProcessTyped', DescribedIsOnboarded', Quietly
  PROVE  CaptureInv'
  BY QuietStepKeeps DEF BatchersStay

LEMMA UnchangedKeeps ==
  ASSUME CaptureInv, NEW u \in Tables, NEW columns \in Shapes, Unchanged(u, columns)
  PROVE  CaptureInv'
<1>1. ProcessTyped /\ DescribedIsOnboarded /\ LogTyped
  BY DEF CaptureInv
<1>a. /\ Describes(u, columns) /\ tables[u].onboarded
      /\ UNCHANGED << upstream, arriving, process, log, restarts, givenUp >>
  BY DEF Unchanged
<1>2. /\ tables[u].onboarded /\ described' = [described EXCEPT ![u] = columns]
      /\ UNCHANGED << stream, block, streaming, shape, arriving, opening, running, tables, work, log, givenUp >>
  BY <1>a DEF Describes, upstream, process
<1>b. columns \in Int
  BY ShapesAreNumbers
<1>3. ProcessTyped' /\ DescribedIsOnboarded'
  BY <1>1, <1>2, <1>b DEF ProcessTyped, DescribedIsOnboarded
<1> QED
  BY <1>1, <1>2, <1>3, LogStays, TablesUntouched

LEMMA WidenKeeps ==
  ASSUME CaptureInv, NEW u \in Tables, NEW columns \in Shapes, Widen(u, columns)
  PROVE  CaptureInv'
<1>1. ProcessTyped /\ DescribedIsOnboarded /\ LogTyped
  BY DEF CaptureInv
<1>a. /\ Describes(u, columns) /\ tables[u].onboarded
      /\ work' = [kind |-> "evolve", todo |-> ToPublish(TRUE), table |-> u, columns |-> columns]
      /\ UNCHANGED << upstream, arriving, running, tables, opening, applied, log, restarts, givenUp >>
  BY DEF Widen
<1>2. /\ tables[u].onboarded /\ described' = [described EXCEPT ![u] = columns]
      /\ UNCHANGED << stream, block, streaming, shape, arriving, opening, running, tables, log, givenUp >>
  BY <1>a DEF Describes, upstream
<1>b. columns \in Nat /\ columns \in Int
  BY ShapesAreNumbers
<1>3. ToPublish(TRUE) \subseteq Tables /\ \A t \in ToPublish(TRUE) : tables[t].onboarded
  BY DEF ToPublish
<1>c. work' \in [kind : { "idle", "publish", "evolve" }, todo : SUBSET Tables,
                  table : Tables \cup { NoTable }, columns : Nat]
  BY <1>a, <1>b, <1>3
<1>d. work'.todo = ToPublish(TRUE) /\ work'.table = u
  BY <1>a
<1>4. ProcessTyped' /\ DescribedIsOnboarded'
  BY <1>1, <1>2, <1>b, <1>c, <1>d, <1>3 DEF ProcessTyped, DescribedIsOnboarded
<1> QED
  BY <1>1, <1>2, <1>4, LogStays, TablesUntouched

LEMMA BeginPublishKeeps ==
  ASSUME CaptureInv, NEW force \in BOOLEAN, BeginPublish(force)
  PROVE  CaptureInv'
<1>1. ProcessTyped /\ DescribedIsOnboarded /\ LogTyped
  BY DEF CaptureInv
<1>2. /\ work' = [Idle EXCEPT !.kind = "publish", !.todo = ToPublish(force)]
      /\ UNCHANGED << stream, block, streaming, shape, arriving, described, opening, running, tables, log, givenUp >>
  BY DEF BeginPublish, upstream, connection
<1>3. ToPublish(force) \subseteq Tables /\ \A t \in ToPublish(force) : tables[t].onboarded
  BY DEF ToPublish
<1>4. ProcessTyped' /\ DescribedIsOnboarded'
  BY <1>1, <1>2, <1>3 DEF ProcessTyped, DescribedIsOnboarded, Idle
<1> QED
  BY <1>1, <1>2, <1>4, LogStays, TablesUntouched

LEMMA InvalidateKeeps ==
  ASSUME CaptureInv, NEW u \in Tables, Invalidate(u)
  PROVE  CaptureInv'
<1>1. ProcessTyped /\ DescribedIsOnboarded /\ LogTyped
  BY DEF CaptureInv
<1>2. /\ described' = [described EXCEPT ![u] = Undescribed]
      /\ UNCHANGED << stream, block, streaming, shape, arriving, opening, running, tables, work, log, givenUp >>
  BY DEF Invalidate, process
<1>3. ProcessTyped' /\ DescribedIsOnboarded'
  BY <1>1, <1>2 DEF ProcessTyped, DescribedIsOnboarded, Undescribed
<1> QED
  BY <1>1, <1>2, <1>3, LogStays, TablesUntouched

-----------------------------------------------------------------------------
(* Commits to a log.                                                       *)

\* Entries are added at the end of one log.
LEMMA LogGrows ==
  ASSUME LogTyped, NEW u \in Tables, NEW s \in Seq(Commitments), log' = [log EXCEPT ![u] = @ \o s]
  PROVE  /\ Extends /\ Len(log[u]) \in Nat /\ Len(s) \in Nat
         /\ DOMAIN log[u] = 1..Len(log[u]) /\ DOMAIN log'[u] = 1..(Len(log[u]) + Len(s))
         /\ Len(log'[u]) = Len(log[u]) + Len(s)
         /\ \A i \in 1..Len(s) : log'[u][Len(log[u]) + i] = s[i]
         /\ \A t \in Tables \ { u } : log'[t] = log[t]
<1>1. log \in [Tables -> Seq(Commitments)] /\ log[u] \in Seq(Commitments)
  BY DEF LogTyped
<1>2. log'[u] = log[u] \o s /\ \A t \in Tables \ { u } : log'[t] = log[t]
  BY <1>1
<1>3. /\ log[u] \o s \in Seq(Commitments) /\ Len(log[u] \o s) = Len(log[u]) + Len(s)
      /\ \A i \in 1..(Len(log[u]) + Len(s)) :
           (log[u] \o s)[i] = IF i <= Len(log[u]) THEN log[u][i] ELSE s[i - Len(log[u])]
  BY <1>1, ConcatProperties
<1>4. Len(log[u]) \in Nat /\ Len(s) \in Nat /\ DOMAIN log[u] = 1..Len(log[u])
  BY <1>1
<1>5. DOMAIN log'[u] = 1..(Len(log[u]) + Len(s)) /\ Len(log'[u]) = Len(log[u]) + Len(s)
  BY <1>2, <1>3
<1>6. ASSUME NEW i \in 1..Len(s) PROVE log'[u][Len(log[u]) + i] = s[i]
  <2> PICK k : k = Len(log[u]) + i
    OBVIOUS
  <2>1. k \in 1..(Len(log[u]) + Len(s)) /\ ~(k <= Len(log[u])) /\ k - Len(log[u]) = i
    BY <1>4
  <2> QED
    BY <1>2, <1>3, <2>1
<1>7. ASSUME NEW i \in 1..Len(log[u]) PROVE log'[u][i] = log[u][i]
  <2>1. i \in 1..(Len(log[u]) + Len(s)) /\ i <= Len(log[u])
    BY <1>4
  <2> QED
    BY <1>2, <1>3, <2>1
<1>8. Extends
  <2>1. LogTyped'
    BY <1>1, <1>2, <1>3 DEF LogTyped
  <2>2. DOMAIN log[u] \subseteq DOMAIN log'[u]
    BY <1>4, <1>5
  <2> QED
    BY <1>2, <1>4, <1>7, <2>1, <2>2 DEF Extends
<1> QED
  BY <1>2, <1>4, <1>5, <1>6, <1>8

\* Entries that move no rows.
Silent(s) ==
  /\ s \in Seq(Commitments)
  /\ \A i \in 1..Len(s) : s[i].kind # "append" /\ s[i].rows = {}

LEMMA SilentIsQuiet ==
  ASSUME LogTyped, NEW u \in Tables, NEW s, Silent(s), log' = [log EXCEPT ![u] = @ \o s]
  PROVE  Quietly
<1>n. PICK n : n = Len(log[u])
  OBVIOUS
<1>a. s \in Seq(Commitments)
  BY DEF Silent
<1>l. /\ Extends /\ Len(log[u]) \in Nat /\ Len(s) \in Nat
      /\ DOMAIN log[u] = 1..Len(log[u]) /\ DOMAIN log'[u] = 1..(Len(log[u]) + Len(s))
      /\ Len(log'[u]) = Len(log[u]) + Len(s)
      /\ \A i \in 1..Len(s) : log'[u][Len(log[u]) + i] = s[i]
      /\ \A t \in Tables \ { u } : log'[t] = log[t]
  BY <1>a, LogGrows
<1>b. /\ Extends /\ n \in Nat /\ Len(s) \in Nat
      /\ DOMAIN log[u] = 1..n /\ DOMAIN log'[u] = 1..(n + Len(s))
      /\ \A i \in 1..Len(s) : log'[u][n + i] = s[i]
      /\ \A t \in Tables \ { u } : log'[t] = log[t]
  BY <1>l, <1>n
<1>1. ASSUME NEW i \in DOMAIN log'[u] \ DOMAIN log[u]
      PROVE  log'[u][i].kind # "append" /\ log'[u][i].rows = {}
  <2>j. PICK j : j = i - n
    OBVIOUS
  <2>1. j \in 1..Len(s) /\ i = n + j
    BY <1>b, <2>j
  <2>2. log'[u][i] = s[j]
    BY <1>b, <2>1
  <2> QED
    BY <2>1, <2>2 DEF Silent
<1>2. ASSUME NEW t \in Tables, NEW i \in DOMAIN log'[t] \ DOMAIN log[t]
      PROVE  log'[t][i].kind # "append" /\ log'[t][i].rows = {}
  BY <1>b, <1>1
<1> QED
  BY <1>b, <1>2 DEF Quietly

LEMMA RowsAreAppended ==
  ASSUME LogTyped, NEW u \in Tables, NEW s, Silent(s), NEW e \in Commitments, e.kind = "append",
         log' = [log EXCEPT ![u] = @ \o Append(s, e)]
  PROVE  AppendsRows(u, e.rows, e.covers) /\ log'[u][Len(log'[u])] = e
<1>a. PICK n : n = Len(log[u])
  OBVIOUS
<1>b. PICK k : k = Len(s)
  OBVIOUS
<1>c. PICK w : w = Append(s, e)
  OBVIOUS
<1>d. s \in Seq(Commitments)
  BY DEF Silent
<1>1. /\ w \in Seq(Commitments) /\ k \in Nat /\ Len(w) = k + 1 /\ w[k + 1] = e
      /\ \A i \in 1..k : w[i] = s[i]
  BY <1>b, <1>c, <1>d, AppendProperties
<1>2. /\ Extends /\ n \in Nat
      /\ DOMAIN log[u] = 1..n /\ DOMAIN log'[u] = 1..(n + (k + 1)) /\ Len(log'[u]) = n + (k + 1)
      /\ \A i \in 1..(k + 1) : log'[u][n + i] = w[i]
      /\ \A t \in Tables \ { u } : log'[t] = log[t]
  <2>1. log' = [log EXCEPT ![u] = @ \o w]
    BY <1>c
  <2>2. /\ Extends /\ Len(log[u]) \in Nat /\ Len(w) \in Nat
        /\ DOMAIN log[u] = 1..Len(log[u]) /\ DOMAIN log'[u] = 1..(Len(log[u]) + Len(w))
        /\ Len(log'[u]) = Len(log[u]) + Len(w)
        /\ \A i \in 1..Len(w) : log'[u][Len(log[u]) + i] = w[i]
        /\ \A t \in Tables \ { u } : log'[t] = log[t]
    BY <1>1, <2>1, LogGrows
  <2> QED
    BY <1>1, <1>a, <2>2
<1>3. n + (k + 1) \in DOMAIN log'[u] \ DOMAIN log[u] /\ log'[u][n + (k + 1)] = e
  BY <1>1, <1>2
<1>4. ASSUME NEW i \in DOMAIN log'[u] \ DOMAIN log[u], i # n + (k + 1)
      PROVE  log'[u][i].kind # "append" /\ log'[u][i].rows = {}
  <2> PICK j : j = i - n
    OBVIOUS
  <2>1. j \in 1..k /\ j \in 1..(k + 1) /\ i = n + j
    BY <1>1, <1>2, <1>4
  <2>2. log'[u][i] = s[j]
    BY <1>1, <1>2, <2>1
  <2> QED
    BY <1>b, <2>1, <2>2 DEF Silent
<1> QED
  BY <1>2, <1>3, <1>4 DEF AppendsRows

\* The entries that create a table, or change its shape.
LEMMA EntriesTyped ==
  ASSUME NEW columns \in Nat
  PROVE  /\ Silent(<< >>) /\ Silent(<< LogEntry("metadata", {}, 0, columns) >>)
         /\ Silent(<< LogEntry("other", {}, 0, columns) >>)
         /\ \A rows \in SUBSET Changes, covers \in Nat :
              LET e == LogEntry("append", rows, covers, columns)
              IN  e \in Commitments /\ e.kind = "append" /\ e.rows = rows /\ e.covers = covers
<1>1. ASSUME NEW kind \in { "metadata", "other" }
      PROVE  Silent(<< LogEntry(kind, {}, 0, columns) >>)
  <2> DEFINE e == LogEntry(kind, {}, 0, columns)
  <2>1. e \in Commitments /\ e.kind # "append" /\ e.rows = {}
    BY DEF LogEntry, Commitments
  <2> HIDE DEF e
  <2>2. << e >> \in Seq(Commitments) /\ Len(<< e >>) = 1 /\ << e >>[1] = e
    BY <2>1
  <2>3. Silent(<< e >>)
    BY <2>1, <2>2 DEF Silent
  <2> QED
    BY <2>3 DEF e
<1>2. Silent(<< >>)
  BY DEF Silent
<1>3. ASSUME NEW rows \in SUBSET Changes, NEW covers \in Nat
      PROVE  LET e == LogEntry("append", rows, covers, columns)
             IN  e \in Commitments /\ e.kind = "append" /\ e.rows = rows /\ e.covers = covers
  BY DEF LogEntry, Commitments
<1> QED
  BY <1>1, <1>2, <1>3

\* What somebody else commits moves no rows.
LEMMA OtherIsQuiet ==
  ASSUME CaptureInv, NEW u \in Tables, OtherCommits(u)
  PROVE  Quietly
<1>1. LogTyped
  BY DEF CaptureInv
<1>2. log' = [log EXCEPT ![u] = Append(@, LogEntry("other", {}, 0, 0))]
  BY DEF OtherCommits
<1>3. log[u] \in Seq(Commitments) /\ LogEntry("other", {}, 0, 0) \in Commitments
  BY <1>1 DEF LogTyped, LogEntry, Commitments
<1>4. Append(log[u], LogEntry("other", {}, 0, 0)) = log[u] \o << LogEntry("other", {}, 0, 0) >>
  BY <1>3, AppendIsConcat
<1>5. log' = [log EXCEPT ![u] = @ \o << LogEntry("other", {}, 0, 0) >>]
  BY <1>1, <1>2, <1>4 DEF LogTyped
<1> QED
  BY <1>1, <1>5, EntriesTyped, SilentIsQuiet

LEMMA OtherKeeps ==
  ASSUME CaptureInv, NEW u \in Tables, OtherCommits(u)
  PROVE  CaptureInv'
<1>1. ProcessTyped /\ DescribedIsOnboarded
  BY DEF CaptureInv
<1>2. /\ UNCHANGED << stream, block, streaming, shape, arriving, described, restarts, givenUp >>
      /\ UNCHANGED << running, tables, opening, work, applied >>
  BY DEF OtherCommits, process, connection
<1>3. ProcessTyped' /\ DescribedIsOnboarded'
  BY <1>1, <1>2 DEF ProcessTyped, DescribedIsOnboarded
<1> QED
  BY <1>2, <1>3, OtherIsQuiet, TablesUntouched

\* Nor does a change of shape.
LEMMA EvolveIsQuiet ==
  ASSUME CaptureInv, Evolve
  PROVE  Quietly
<1>1. LogTyped /\ ProcessTyped
  BY DEF CaptureInv
<1>u. PICK u : u = work.table
  OBVIOUS
<1>w. PICK w : w = work.columns
  OBVIOUS
<1>2. u \in Tables /\ w \in Nat
  BY <1>1, <1>u, <1>w DEF Evolve, ProcessTyped
<1>3. log[u] \in Seq(Commitments)
  BY <1>1, <1>2 DEF LogTyped
<1>4. log' = log \/ log' = [log EXCEPT ![u] = Append(@, LogEntry("metadata", {}, 0, w))]
  BY <1>u, <1>w DEF Evolve
<1>5. CASE log' = log
  BY <1>1, <1>5, LogStays
<1>6. CASE log' = [log EXCEPT ![u] = Append(@, LogEntry("metadata", {}, 0, w))]
  <2>1. LogEntry("metadata", {}, 0, w) \in Commitments
    BY <1>2 DEF LogEntry, Commitments
  <2>2. Append(log[u], LogEntry("metadata", {}, 0, w)) = log[u] \o << LogEntry("metadata", {}, 0, w) >>
    BY <1>3, <2>1, AppendIsConcat
  <2>3. log' = [log EXCEPT ![u] = @ \o << LogEntry("metadata", {}, 0, w) >>]
    BY <1>1, <1>2, <1>6, <2>2 DEF LogTyped
  <2> QED
    BY <1>1, <1>2, <2>3, EntriesTyped, SilentIsQuiet
<1> QED
  BY <1>4, <1>5, <1>6

\* The shape goes to the log and to memory, or the step fails.
LEMMA EvolveKeeps ==
  ASSUME CaptureInv, Evolve
  PROVE  CaptureInv'
<1>1. SourceInv /\ ProcessTyped /\ DescribedIsOnboarded /\ LogTyped /\ AppendsTrue
  BY DEF CaptureInv
<1>2. /\ UNCHANGED << stream, block, streaming, shape, arriving, described >>
      /\ running /\ work.kind = "evolve"
  BY DEF Evolve, upstream, connection
<1>u. PICK u : u = work.table
  OBVIOUS
<1>w. PICK w : w = work.columns
  OBVIOUS
<1>3. u \in Tables /\ tables[u].onboarded /\ w \in Nat
  BY <1>1, <1>2, <1>u, <1>w DEF ProcessTyped
<1>4. tables[u] \in Onboarded
  BY <1>1, <1>3, OnboardedIs
<1>5. log[u] \in Seq(Commitments) /\ Len(log[u]) \in Nat
  BY <1>1, <1>3 DEF LogTyped
<1>6. ASSUME Quietly, Fails(tables, {}) PROVE CaptureInv'
  <2>1. CASE Down /\ UNCHANGED givenUp
    BY <1>1, <1>2, <1>6, <2>1, QuietKeeps, DownKeeps DEF ProcessTyped
  <2>2. CASE tables' = tables /\ givenUp' = givenUp \cup {} /\ work' = Idle /\ UNCHANGED << running, opening >>
    <3>1. ProcessTyped' /\ DescribedIsOnboarded'
      BY <1>1, <1>2, <2>2 DEF ProcessTyped, DescribedIsOnboarded, Idle
    <3> QED
      BY <1>2, <1>6, <2>2, <3>1, TablesUntouched
  <2> QED
    BY <1>6, <2>1, <2>2 DEF Fails
<1>7. ASSUME Quietly, NEW v \in Nat, work' = Idle, UNCHANGED << running, opening, givenUp >>,
             tables' = [tables EXCEPT ![u].columns = w, ![u].version = v]
      PROVE  CaptureInv'
  <2> DEFINE s == [[tables[u] EXCEPT !.columns = w] EXCEPT !.version = v]
  <2>1. tables' = [tables EXCEPT ![u] = s]
    BY <1>1, <1>3, <1>7 DEF ProcessTyped
  <2>2. s \in Onboarded /\ s.batcher = tables[u].batcher /\ s.through = tables[u].through
    BY <1>3, <1>4 DEF Onboarded
  <2>3. described' \in [Tables -> Int] /\ \A t \in Tables \ { u } : described'[t] = described[t]
    BY <1>1, <1>2 DEF ProcessTyped
  <2> HIDE DEF s
  <2> QED
    BY <1>2, <1>3, <1>7, <2>1, <2>2, <2>3, TableTouched
<1>9. Quietly
  BY EvolveIsQuiet
<1>10. \/ Fails(tables, {})
       \/ \E v \in { tables[u].version, tables[u].version + 1, Len(log[u]) + 1 } :
            /\ tables' = [tables EXCEPT ![u].columns = w, ![u].version = v]
            /\ work' = Idle /\ UNCHANGED << running, opening, givenUp >>
  <2>a. PICK at : at = IF tables[u].version = 0 THEN Len(log[u]) ELSE tables[u].version
    OBVIOUS
  <2>1. \/ Fails(tables, {})
        \/ /\ tables' = [tables EXCEPT ![u].columns = w, ![u].version = tables[u].version]
           /\ work' = Idle /\ UNCHANGED << running, opening, givenUp >>
        \/ /\ tables' = [tables EXCEPT ![u].columns = w, ![u].version = at + 1]
           /\ work' = Idle /\ UNCHANGED << running, opening, givenUp >>
    BY <1>u, <1>w, <2>a DEF Evolve
  <2>2. at + 1 \in { tables[u].version, tables[u].version + 1, Len(log[u]) + 1 }
    BY <2>a
  <2> QED
    BY <2>1, <2>2
<1>11. \A v \in { tables[u].version, tables[u].version + 1, Len(log[u]) + 1 } : v \in Nat
  <2>1. tables[u].version \in Nat
    BY <1>4 DEF Onboarded
  <2> QED
    BY <1>5, <2>1
<1> QED
  BY <1>6, <1>7, <1>9, <1>10, <1>11
-----------------------------------------------------------------------------
(* A table is published.                                                   *)

\* A batcher is flushed: what it gave away is in the log, or lost for good.
LEMMA FlushKeeps ==
  ASSUME CaptureInv, running, NEW u \in Tables, tables[u].onboarded, NEW s \in Onboarded,
         s.batcher = Flushed(tables[u].batcher), tables' = [tables EXCEPT ![u] = s],
         UNCHANGED << stream, block, streaming, shape, arriving, described, opening, running >>,
         givenUp \subseteq givenUp', LogTyped', AppendsTrue',
         \A t \in Tables \ { u } : LogPosition(t)' = LogPosition(t),
         LogPosition(u) <= LogPosition(u)', s.through <= LogPosition(u)',
         LogPosition(u)' <= s.through \/ LogPosition(u)' <= tables[u].batcher.covers,
         \A m \in tables[u].batcher.sealed : m.lsn <= LogPosition(u)' \/ m.row \in givenUp',
         work' = Idle \/ work' = [work EXCEPT !.todo = @ \ { u }]
  PROVE  CaptureInv'
<1>1. /\ SourceInv /\ ProcessTyped /\ DescribedIsOnboarded /\ BatchersTrue /\ LogTyped /\ AppendsTrue
      /\ PositionKnown
  BY PositionIsKnown DEF CaptureInv
<1>2. /\ tables' \in [Tables -> Onboarded \cup { NotOnboarded }]
      /\ tables'[u] = s /\ tables'[u].onboarded = TRUE
      /\ \A t \in Tables \ { u } : tables'[t] = tables[t]
  BY <1>1, OneTable DEF ProcessTyped
<1>3. tables[u] \in Onboarded /\ tables[u].onboarded = TRUE
  BY <1>1, OnboardedIs
<1>4. ProcessTyped'
  <2>1. /\ work' \in [kind : { "idle", "publish", "evolve" }, todo : SUBSET Tables,
                      table : Tables \cup { NoTable }, columns : Nat]
        /\ work'.todo \subseteq work.todo
        /\ work'.kind = "evolve" => work.kind = "evolve" /\ work'.table = work.table
    <3>1. work \in [kind : { "idle", "publish", "evolve" }, todo : SUBSET Tables,
                    table : Tables \cup { NoTable }, columns : Nat]
      BY <1>1 DEF ProcessTyped
    <3>2. CASE work' = Idle
      BY <3>2 DEF Idle
    <3>3. CASE work' = [work EXCEPT !.todo = @ \ { u }]
      BY <3>1, <3>3
    <3> QED
      BY <3>2, <3>3
  <2>2. \A t \in Tables : tables[t].onboarded => tables'[t].onboarded
    BY <1>2
  <2>3. /\ arriving \in 1..(Len(stream) + 1) /\ opening \in Nat /\ described \in [Tables -> Int]
        /\ running \in BOOLEAN /\ \A t \in work.todo : t \in Tables /\ tables[t].onboarded
        /\ work.kind = "evolve" => work.table \in Tables /\ tables[work.table].onboarded
    BY <1>1 DEF ProcessTyped
  <2>4. \A t \in work'.todo : tables'[t].onboarded
    BY <2>1, <2>2, <2>3
  <2>5. work'.kind = "evolve" => work'.table \in Tables /\ tables'[work'.table].onboarded
    BY <2>1, <2>2, <2>3
  <2> QED
    BY <1>2, <2>1, <2>3, <2>4, <2>5 DEF ProcessTyped
<1>5. DescribedIsOnboarded'
  BY <1>1, <1>2 DEF DescribedIsOnboarded
<1>6. ASSUME NEW t \in Tables PROVE TableKept(t)
  <2>1. CASE t = u
    <3>b. PICK b : b = tables[u].batcher
      OBVIOUS
    <3>c. PICK c : c = s.batcher
      OBVIOUS
    <3>1. b \in BatcherStates
      BY <1>3, <3>b DEF Onboarded
    <3>2. c.sealed = {} /\ c.open = b.open /\ c.covers = b.covers /\ c.current = b.current
      BY <3>1, <3>b, <3>c, FlushedDoes
    <3> QED
      BY <1>2, <1>3, <2>1, <3>2, <3>b, <3>c DEF TableKept
  <2>2. CASE t # u
    <3>1. /\ tables'[t] = tables[t] /\ LogPosition(t)' = LogPosition(t) /\ LogPosition(t) \in Nat
          /\ tables[t].onboarded => BatcherTrue(t)
      BY <1>1, <1>2, <2>2 DEF BatchersTrue, PositionKnown
    <3> QED
      BY <3>1 DEF TableKept, BatcherTrue
  <2> QED
    BY <2>1, <2>2
<1> QED
  BY <1>4, <1>5, <1>6, ProcessKeeps

\* What a publish of a table finds.
LEMMA Publishing ==
  ASSUME CaptureInv, NEW u, PublishTable(u)
  PROVE  LET s == tables[u]
             rows == NewRows(s)
         IN  /\ u \in Tables /\ s \in Onboarded /\ s.onboarded /\ running /\ LogPosition(u) \in Nat
             /\ UNCHANGED << stream, block, streaming, shape, arriving, described, restarts >>
             /\ rows \in SUBSET Changes /\ rows \subseteq CommittedChanges(u)
             /\ s.batcher \in BatcherStates /\ s.batcher.covers <= Len(stream)
             /\ s.through <= LogPosition(u)
             /\ (LogPosition(u) <= s.through) \/ (LogPosition(u) <= s.batcher.covers)
             /\ \A m \in s.batcher.sealed : m \in rows \/ m.lsn <= LogPosition(u)
             /\ \A m \in rows : m.lsn > LogPosition(u) /\ m.lsn <= s.batcher.covers
             /\ rows # {} => LogPosition(u) < s.batcher.covers
<1>1. /\ SourceInv /\ ProcessTyped /\ BatchersTrue /\ LogTyped /\ AppendsTrue
      /\ PositionKnown /\ ChangesKnown
  BY PositionIsKnown, ChangesAreKnown DEF CaptureInv
<1>2. /\ running /\ u \in work.todo
      /\ UNCHANGED << stream, block, streaming, shape, arriving, described, restarts >>
  BY DEF PublishTable, upstream, connection
<1>3. u \in Tables /\ tables[u].onboarded
  BY <1>1, <1>2 DEF ProcessTyped
<1>s. PICK s : s = tables[u]
  OBVIOUS
<1>b. PICK b : b = s.batcher
  OBVIOUS
<1>p. PICK P : P = LogPosition(u)
  OBVIOUS
<1>4. s \in Onboarded
  BY <1>1, <1>3, <1>s, OnboardedIs
<1>5. /\ b \in BatcherStates /\ b.sealed \subseteq Changes /\ b.covers \in Nat /\ s.through \in Nat
      /\ P \in Nat
  BY <1>1, <1>3, <1>4, <1>b, <1>p DEF Onboarded, BatcherStates, PositionKnown
<1>6. /\ b.covers < arriving /\ b.sealed \subseteq CommittedChanges(u)
      /\ \A m \in b.sealed : m.lsn <= b.covers
      /\ s.through <= P /\ (P <= s.through \/ P <= b.covers)
      /\ \A m \in b.sealed : m.lsn > s.through => m.lsn > P
  BY <1>1, <1>3, <1>s, <1>b, <1>p DEF BatchersTrue, BatcherTrue
<1>r. PICK rows : rows = NewRows(s)
  OBVIOUS
<1>7. rows = { m \in b.sealed : m.lsn > s.through }
  BY <1>b, <1>r DEF NewRows
<1>8. \A m \in b.sealed : m.lsn \in Nat
  BY <1>5 DEF Changes
<1>9. \A m \in b.sealed : m \in rows \/ m.lsn <= P
  BY <1>5, <1>6, <1>7, <1>8
<1>10. \A m \in rows : m.lsn > P /\ m.lsn <= b.covers
  BY <1>6, <1>7
<1>11. rows # {} => P < b.covers
  BY <1>5, <1>7, <1>8, <1>10
<1>12. b.covers <= Len(stream)
  <2>1. Len(stream) \in Nat /\ arriving \in 1..(Len(stream) + 1)
    BY <1>1 DEF SourceInv, StreamTyped, ProcessTyped
  <2> QED
    BY <1>5, <1>6, <2>1
<1> QED
  BY <1>2, <1>3, <1>4, <1>5, <1>6, <1>7, <1>9, <1>10, <1>11, <1>12, <1>s, <1>b, <1>p, <1>r

\* The ways a publish of a table may go: it takes nothing, it loses what it took,
\* or it appends it, and is or is not told so.
FlushedAt(u, v, p) ==
  tables' = [tables EXCEPT ![u] =
               [[[tables[u] EXCEPT !.batcher = Flushed(@)] EXCEPT !.version = v] EXCEPT !.through = p]]

GoesOn(u) ==
  /\ UNCHANGED << running, opening >>
  /\ work' = Idle \/ work' = [work EXCEPT !.todo = @ \ { u }]

NothingWritten(u) == log' = log \/ \E e : Silent(e) /\ log' = [log EXCEPT ![u] = @ \o e]

RowsWritten(u) == \E e : \E columns \in Nat :
  /\ Silent(e)
  /\ log' = [log EXCEPT ![u] = @ \o
       Append(e, LogEntry("append", NewRows(tables[u]), tables[u].batcher.covers, columns))]

\* One of these each publish of a table is.
LEMMA PublishDoes ==
  ASSUME CaptureInv, NEW u, PublishTable(u)
  PROVE  LET s == tables[u]
             rows == NewRows(s)
             lost == { m.row : m \in rows }
         IN  \/ /\ rows = {} /\ log' = log /\ givenUp' = givenUp
                /\ GoesOn(u) /\ FlushedAt(u, s.version, s.through)
             \/ rows # {} /\ NothingWritten(u) /\ Down /\ givenUp' = givenUp
             \/ /\ rows # {} /\ NothingWritten(u) /\ givenUp' = givenUp \cup lost
                /\ GoesOn(u) /\ \E v \in Nat : FlushedAt(u, v, s.through)
             \/ rows # {} /\ RowsWritten(u) /\ Down /\ givenUp' = givenUp
             \/ /\ rows # {} /\ RowsWritten(u) /\ givenUp' = givenUp /\ GoesOn(u)
                /\ \E v \in Nat : FlushedAt(u, v, s.through) \/ FlushedAt(u, v, s.batcher.covers)
<1>s. PICK s : s = tables[u]
  OBVIOUS
<1>r. PICK rows : rows = NewRows(s)
  OBVIOUS
<1>l. PICK lost : lost = { m.row : m \in rows }
  OBVIOUS
<1>1. /\ u \in Tables /\ s \in Onboarded /\ rows \in SUBSET Changes
      /\ s.batcher \in BatcherStates
  BY <1>s, <1>r, Publishing
<1>2. ProcessTyped /\ LogTyped
  BY DEF CaptureInv
<1>3. /\ tables \in [Tables -> Onboarded \cup { NotOnboarded }] /\ log \in [Tables -> Seq(Commitments)]
      /\ log[u] \in Seq(Commitments)
  BY <1>1, <1>2 DEF ProcessTyped, LogTyped
<1> DEFINE f == [tables EXCEPT ![u].batcher = Flushed(@)]
           at(v, p) == [tables EXCEPT ![u] = [[[s EXCEPT !.batcher = Flushed(@)] EXCEPT !.version = v]
                                                EXCEPT !.through = p]]
           created == IF IsTable(u) THEN << >> ELSE << LogEntry("metadata", {}, 0, s.columns) >>
           entry == LogEntry("append", rows, s.batcher.covers, s.columns)
           believed == IF s.version = 0 THEN Len(log[u] \o created) ELSE s.version
           after == Len(log[u] \o Append(created, entry))
           looked == [f EXCEPT ![u].version = IF @ = 0 THEN Len(log[u] \o created) ELSE @]
           rest == IF work.kind = "publish" /\ work.todo = {u} THEN Idle ELSE [work EXCEPT !.todo = @ \ {u}]
<1>4. s.columns \in Nat /\ s.version \in Nat /\ s.batcher.covers \in Nat
  BY <1>1 DEF Onboarded, BatcherStates
<1>5. Silent(created) /\ entry \in Commitments
  <2>1. Silent(<< >>) /\ Silent(<< LogEntry("metadata", {}, 0, s.columns) >>)
    BY <1>4, EntriesTyped
  <2>2. entry \in Commitments
    BY <1>1, <1>4, EntriesTyped
  <2> QED
    BY <2>1, <2>2
<1>6. believed \in Nat /\ after \in Nat
  <2>1. created \in Seq(Commitments)
    BY <1>5 DEF Silent
  <2> HIDE DEF created, entry
  <2>2. Append(created, entry) \in Seq(Commitments)
    BY <1>5, <2>1
  <2>3. log[u] \o created \in Seq(Commitments) /\ log[u] \o Append(created, entry) \in Seq(Commitments)
    BY <1>3, <2>1, <2>2
  <2>4. Len(log[u] \o created) \in Nat /\ Len(log[u] \o Append(created, entry)) \in Nat
    BY <2>3, LenProperties
  <2> QED
    BY <1>4, <2>4
<1>7. f = at(s.version, s.through)
  BY <1>1, <1>3, <1>s DEF Onboarded
<1>8. looked = at(believed, s.through)
  BY <1>1, <1>3, <1>s DEF Onboarded
<1>9. [f EXCEPT ![u].version = after, ![u].through = s.batcher.covers] = at(after, s.batcher.covers)
  BY <1>1, <1>3, <1>s DEF Onboarded
<1>10. \/ /\ rows = {}
          /\ tables' = f /\ work' = rest
          /\ UNCHANGED << running, opening, applied, log, givenUp >>
       \/ rows # {} /\ Fails(f, lost) /\ UNCHANGED log
       \/ /\ rows # {} /\ log' = [log EXCEPT ![u] = @ \o Append(created, entry)]
          /\ tables' = [f EXCEPT ![u].version = after, ![u].through = s.batcher.covers]
          /\ work' = rest
          /\ UNCHANGED << running, opening, givenUp >>
       \/ /\ rows # {} /\ log' = [log EXCEPT ![u] = @ \o Append(created, entry)]
          /\ Fails(looked, {})
       \/ rows # {} /\ log' = [log EXCEPT ![u] = @ \o created] /\ Fails(looked, lost)
  BY <1>s, <1>r, <1>l DEF PublishTable, Covers
<1>11. rest = Idle \/ rest = [work EXCEPT !.todo = @ \ { u }]
  OBVIOUS
<1>12. log' = [log EXCEPT ![u] = @ \o Append(created, entry)] => RowsWritten(u)
  <2>1. entry = LogEntry("append", NewRows(tables[u]), tables[u].batcher.covers, s.columns)
    BY <1>s, <1>r
  <2>2. Silent(created) /\ s.columns \in Nat
    BY <1>4, <1>5
  <2> HIDE DEF created, entry
  <2> QED
    BY <2>1, <2>2 DEF RowsWritten
<1>13. log' = [log EXCEPT ![u] = @ \o created] => NothingWritten(u)
  BY <1>5 DEF NothingWritten
<1>14. \A v, p : tables' = at(v, p) => FlushedAt(u, v, p)
  BY <1>s DEF FlushedAt
<1> HIDE DEF f, at, created, entry, believed, after, looked, rest
<1>15. CASE rows = {}
  <2>1. tables' = at(s.version, s.through) /\ work' = rest /\ UNCHANGED << running, opening, log, givenUp >>
    BY <1>7, <1>10, <1>15
  <2>2. GoesOn(u)
    BY <1>11, <2>1 DEF GoesOn
  <2> QED
    BY <1>14, <1>15, <2>1, <2>2, <1>s, <1>r
<1>16. ASSUME NEW t, NEW gone, rows # {}, Fails(t, gone)
       PROVE  \/ Down /\ givenUp' = givenUp
              \/ GoesOn(u) /\ tables' = t /\ givenUp' = givenUp \cup gone
  BY <1>16 DEF Fails, GoesOn
<1>17. CASE rows # {} /\ Fails(f, lost) /\ UNCHANGED log
  <2>1. NothingWritten(u)
    BY <1>17 DEF NothingWritten
  <2>2. \/ Down /\ givenUp' = givenUp
        \/ GoesOn(u) /\ FlushedAt(u, s.version, s.through) /\ givenUp' = givenUp \cup lost
    BY <1>7, <1>14, <1>16, <1>17
  <2> QED
    BY <1>4, <1>17, <2>1, <2>2, <1>s, <1>r, <1>l
<1>18. CASE rows # {} /\ log' = [log EXCEPT ![u] = @ \o created] /\ Fails(looked, lost)
  <2>1. NothingWritten(u)
    BY <1>13, <1>18
  <2>2. \/ Down /\ givenUp' = givenUp
        \/ GoesOn(u) /\ FlushedAt(u, believed, s.through) /\ givenUp' = givenUp \cup lost
    BY <1>8, <1>14, <1>16, <1>18
  <2> QED
    BY <1>6, <1>18, <2>1, <2>2, <1>s, <1>r, <1>l
<1>19. CASE rows # {} /\ log' = [log EXCEPT ![u] = @ \o Append(created, entry)] /\ Fails(looked, {})
  <2>1. RowsWritten(u)
    BY <1>12, <1>19
  <2>2. \/ Down /\ givenUp' = givenUp
        \/ GoesOn(u) /\ FlushedAt(u, believed, s.through) /\ givenUp' = givenUp
    <3>1. \/ Down /\ givenUp' = givenUp
          \/ GoesOn(u) /\ tables' = looked /\ givenUp' = givenUp \cup {}
      BY <1>16, <1>19
    <3>2. givenUp \cup {} = givenUp
      OBVIOUS
    <3> QED
      BY <1>8, <1>14, <3>1, <3>2
  <2> QED
    BY <1>6, <1>19, <2>1, <2>2, <1>s, <1>r, <1>l
<1>20. CASE /\ rows # {} /\ log' = [log EXCEPT ![u] = @ \o Append(created, entry)]
            /\ tables' = [f EXCEPT ![u].version = after, ![u].through = s.batcher.covers]
            /\ work' = rest
            /\ UNCHANGED << running, opening, givenUp >>
  <2>1. RowsWritten(u)
    BY <1>12, <1>20
  <2>2. GoesOn(u) /\ FlushedAt(u, after, s.batcher.covers) /\ givenUp' = givenUp
    BY <1>9, <1>11, <1>14, <1>20 DEF GoesOn
  <2> QED
    BY <1>6, <1>20, <2>1, <2>2, <1>s, <1>r, <1>l
<1> QED
  BY <1>10, <1>15, <1>17, <1>18, <1>19, <1>20

\* What is written is an append of the rows, at the end of the log.
LEMMA EntryIsAppended ==
  ASSUME CaptureInv, NEW u \in Tables, tables[u].batcher.covers \in Nat,
         NewRows(tables[u]) \in SUBSET Changes, RowsWritten(u)
  PROVE  AppendsRows(u, NewRows(tables[u]), tables[u].batcher.covers)
<1>r. PICK rows : rows = NewRows(tables[u])
  OBVIOUS
<1>c. PICK covers : covers = tables[u].batcher.covers
  OBVIOUS
<1>w. PICK s : \E columns \in Nat :
        /\ Silent(s)
        /\ log' = [log EXCEPT ![u] = @ \o Append(s, LogEntry("append", rows, covers, columns))]
  BY <1>r, <1>c DEF RowsWritten
<1>1. PICK columns \in Nat :
        /\ Silent(s)
        /\ log' = [log EXCEPT ![u] = @ \o Append(s, LogEntry("append", rows, covers, columns))]
  BY <1>w
<1>e. PICK e : e = LogEntry("append", rows, covers, columns)
  OBVIOUS
<1>2. e \in Commitments /\ e.kind = "append" /\ e.rows = rows /\ e.covers = covers
  <2>1. rows \in SUBSET Changes /\ covers \in Nat
    BY <1>r, <1>c
  <2> QED
    BY <1>e, <2>1 DEF LogEntry, Commitments
<1>3. LogTyped
  BY DEF CaptureInv
<1> QED
  <2>1. Silent(s) /\ log' = [log EXCEPT ![u] = @ \o Append(s, e)]
    BY <1>1, <1>e
  <2>2. AppendsRows(u, e.rows, e.covers)
    BY <1>2, <1>3, <2>1, RowsAreAppended
  <2> QED
    BY <1>2, <1>r, <1>c, <2>2

\* A publish of a table.  What it takes from the batcher it appends with the
\* position that covers it, or gives up, or the process stops.
LEMMA PublishKeeps ==
  ASSUME CaptureInv, NEW u, PublishTable(u)
  PROVE  CaptureInv'
<1>s. PICK s : s = tables[u]
  OBVIOUS
<1>r. PICK rows : rows = NewRows(s)
  OBVIOUS
<1>p. PICK P : P = LogPosition(u)
  OBVIOUS
<1>1. /\ SourceInv /\ ProcessTyped /\ LogTyped /\ AppendsTrue /\ PositionKnown
      /\ described \in [Tables -> Int]
  BY PositionIsKnown DEF CaptureInv, ProcessTyped
<1>2. /\ u \in Tables /\ s \in Onboarded /\ s.onboarded /\ running /\ P \in Nat
      /\ UNCHANGED << stream, block, streaming, shape, arriving, described, restarts >>
      /\ rows \in SUBSET Changes /\ rows \subseteq CommittedChanges(u)
      /\ s.batcher \in BatcherStates /\ s.batcher.covers <= Len(stream)
      /\ s.through <= P
      /\ (P <= s.through) \/ (P <= s.batcher.covers)
      /\ \A m \in s.batcher.sealed : m \in rows \/ m.lsn <= P
      /\ \A m \in rows : m.lsn > P /\ m.lsn <= s.batcher.covers
      /\ rows # {} => P < s.batcher.covers
  BY <1>s, <1>r, <1>p, Publishing
<1>3. s.batcher.covers \in Nat /\ s.through \in Nat /\ s.version \in Nat
  BY <1>2 DEF Onboarded, BatcherStates
<1>4. NothingWritten(u) => Quietly
  BY <1>1, <1>2, LogStays, SilentIsQuiet DEF NothingWritten
<1>5. Quietly => LogTyped' /\ AppendsTrue' /\ \A t \in Tables : LogPosition(t)' = LogPosition(t)
  BY <1>1, <1>2, QuietKeeps, QuietStays DEF AppendsStay
<1>6. ASSUME rows # {}, RowsWritten(u)
      PROVE  /\ LogTyped' /\ AppendsTrue' /\ LogPosition(u)' = s.batcher.covers
             /\ \A t \in Tables \ { u } : LogPosition(t)' = LogPosition(t)
  <2>1. AppendsRows(u, rows, s.batcher.covers)
    BY <1>1, <1>2, <1>3, <1>6, <1>s, <1>r, EntryIsAppended
  <2>2. PICK covers : covers = s.batcher.covers
    OBVIOUS
  <2>3. LogPosition(u) < covers /\ \A m \in rows : m.lsn <= covers /\ m.lsn > LogPosition(u)
    BY <1>2, <1>6, <1>p, <2>2
  <2>4. /\ rows \in SUBSET Changes /\ covers \in Nat /\ AppendsRows(u, rows, covers)
        /\ rows \subseteq CommittedChanges(u) /\ covers <= Len(stream) /\ UNCHANGED stream
    BY <1>2, <1>3, <2>1, <2>2
  <2>5. LogTyped' /\ AppendsTrue' /\ LogPosition(u)' = covers
    BY <1>1, <1>2, <2>3, <2>4, RowsAppended
  <2>6. \A t \in Tables \ { u } : LogPosition(t)' = LogPosition(t)
    BY <1>1, <1>2, <2>3, <2>4, RowsAppended
  <2> QED
    BY <2>2, <2>5, <2>6
<1>7. Down /\ LogTyped' /\ AppendsTrue' => CaptureInv'
  BY <1>1, <1>2, DownKeeps
<1>8. ASSUME GoesOn(u), NEW v \in Nat, NEW p \in Nat, FlushedAt(u, v, p),
             givenUp \subseteq givenUp', LogTyped', AppendsTrue',
             \A t \in Tables \ { u } : LogPosition(t)' = LogPosition(t),
             P <= LogPosition(u)', p <= LogPosition(u)',
             LogPosition(u)' <= p \/ LogPosition(u)' <= s.batcher.covers,
             \A m \in s.batcher.sealed : m.lsn <= LogPosition(u)' \/ m.row \in givenUp'
      PROVE  CaptureInv'
  <2> DEFINE w == [[[s EXCEPT !.batcher = Flushed(@)] EXCEPT !.version = v] EXCEPT !.through = p]
  <2>1. tables' = [tables EXCEPT ![u] = w]
    BY <1>8, <1>s DEF FlushedAt
  <2>2. w.batcher = Flushed(s.batcher) /\ w.through = p
    BY <1>2 DEF Onboarded
  <2>3. Flushed(s.batcher) \in BatcherStates
    BY <1>2, FlushedDoes
  <2>4. w \in Onboarded
    BY <1>2, <1>8, <2>3 DEF Onboarded
  <2>5. UNCHANGED << running, opening >> /\ (work' = Idle \/ work' = [work EXCEPT !.todo = @ \ { u }])
    BY <1>8 DEF GoesOn
  <2> HIDE DEF w
  <2> QED
    BY <1>2, <1>8, <1>s, <1>p, <2>1, <2>2, <2>4, <2>5, FlushKeeps
<1>9. CASE rows = {} /\ log' = log /\ givenUp' = givenUp /\ GoesOn(u) /\ FlushedAt(u, s.version, s.through)
  <2>1. /\ LogTyped' /\ AppendsTrue' /\ LogPosition(u)' = P
        /\ \A t \in Tables \ { u } : LogPosition(t)' = LogPosition(t)
    BY <1>1, <1>2, <1>5, <1>9, <1>p, LogStays
  <2> QED
    BY <1>2, <1>3, <1>8, <1>9, <2>1
<1>10. CASE rows # {} /\ NothingWritten(u) /\ Down
  BY <1>4, <1>5, <1>7, <1>10
<1>11. CASE /\ rows # {} /\ NothingWritten(u) /\ givenUp' = givenUp \cup { m.row : m \in rows }
            /\ GoesOn(u) /\ \E v \in Nat : FlushedAt(u, v, s.through)
  <2>1. /\ LogTyped' /\ AppendsTrue' /\ LogPosition(u)' = P
        /\ \A t \in Tables \ { u } : LogPosition(t)' = LogPosition(t)
    BY <1>1, <1>2, <1>4, <1>5, <1>11, <1>p
  <2>2. givenUp \subseteq givenUp' /\ \A m \in rows : m.row \in givenUp'
    BY <1>11
  <2> QED
    BY <1>2, <1>3, <1>8, <1>11, <2>1, <2>2
<1>12. CASE rows # {} /\ RowsWritten(u) /\ Down
  BY <1>6, <1>7, <1>12
<1>13. CASE /\ rows # {} /\ RowsWritten(u) /\ givenUp' = givenUp /\ GoesOn(u)
            /\ \E v \in Nat : FlushedAt(u, v, s.through) \/ FlushedAt(u, v, s.batcher.covers)
  <2>1. /\ LogTyped' /\ AppendsTrue' /\ LogPosition(u)' = s.batcher.covers
        /\ \A t \in Tables \ { u } : LogPosition(t)' = LogPosition(t)
    BY <1>6, <1>13
  <2>2. P < s.batcher.covers /\ P <= s.batcher.covers /\ s.through <= s.batcher.covers
    BY <1>2, <1>3, <1>13
  <2>3. \A m \in s.batcher.sealed : m.lsn <= s.batcher.covers
    <3> SUFFICES ASSUME NEW m \in s.batcher.sealed PROVE m.lsn <= s.batcher.covers
      OBVIOUS
    <3>1. m.lsn \in Nat
      BY <1>2 DEF BatcherStates, Changes
    <3> QED
      BY <1>2, <1>3, <2>2, <3>1
  <2> QED
    BY <1>2, <1>3, <1>8, <1>13, <2>1, <2>2, <2>3
<1>14. \/ rows = {} /\ log' = log /\ givenUp' = givenUp /\ GoesOn(u) /\ FlushedAt(u, s.version, s.through)
       \/ rows # {} /\ NothingWritten(u) /\ Down
       \/ /\ rows # {} /\ NothingWritten(u) /\ givenUp' = givenUp \cup { m.row : m \in rows }
          /\ GoesOn(u) /\ \E v \in Nat : FlushedAt(u, v, s.through)
       \/ rows # {} /\ RowsWritten(u) /\ Down
       \/ /\ rows # {} /\ RowsWritten(u) /\ givenUp' = givenUp /\ GoesOn(u)
          /\ \E v \in Nat : FlushedAt(u, v, s.through) \/ FlushedAt(u, v, s.batcher.covers)
  BY <1>s, <1>r, PublishDoes
<1> QED
  BY <1>9, <1>10, <1>11, <1>12, <1>13, <1>14

-----------------------------------------------------------------------------
(* The invariant, and what it is for.                                      *)

\* A process that stops, and a step that does nothing.
LEMMA CrashKeeps ==
  ASSUME CaptureInv, ProcessCrash
  PROVE  CaptureInv'
<1>1. SourceInv /\ LogTyped /\ AppendsTrue /\ described \in [Tables -> Int]
  BY DEF CaptureInv, ProcessTyped
<1>2. Down /\ UNCHANGED << stream, block, streaming, shape, arriving, described, log >>
  BY DEF ProcessCrash, upstream, connection
<1>3. LogTyped' /\ AppendsTrue'
  BY <1>1, <1>2, LogStays, QuietKeeps
<1> QED
  BY <1>1, <1>2, <1>3, DownKeeps

LEMMA StutterKeeps ==
  ASSUME CaptureInv, UNCHANGED captureVars
  PROVE  CaptureInv'
<1>1. /\ UNCHANGED << stream, block, streaming, shape, arriving, opening, running >>
      /\ UNCHANGED << tables, described, work, log, givenUp >>
  BY DEF captureVars, upstream, connection, process
<1>2. ProcessTyped /\ DescribedIsOnboarded /\ LogTyped
  BY DEF CaptureInv
<1>3. ProcessTyped' /\ DescribedIsOnboarded'
  BY <1>1, <1>2 DEF ProcessTyped, DescribedIsOnboarded
<1>4. Quietly
  BY <1>1, <1>2, LogStays
<1> QED
  BY <1>1, <1>3, <1>4, TablesUntouched

\* Nothing has been sent, and nothing is known.
LEMMA CaptureBegins == CaptureInit => CaptureInv
<1> SUFFICES ASSUME CaptureInit PROVE CaptureInv
  OBVIOUS
<1>1. /\ stream = << >> /\ block = NoTransaction /\ streaming = {}
      /\ shape = [t \in Tables |-> FirstShape]
      /\ arriving = 1 /\ described = [t \in Tables |-> Undescribed]
      /\ running = TRUE /\ tables = [t \in Tables |-> NotOnboarded]
      /\ opening = NoTransaction /\ work = Idle
      /\ log = [t \in Tables |-> << >>] /\ givenUp = {}
  BY DEF CaptureInit
<1>2. Len(stream) = 0 /\ DOMAIN stream = {} /\ stream \in Seq(Messages)
  BY <1>1
<1>3. FirstShape \in Nat
  BY CaptureAssumption DEF CaptureAssumption
<1>4. SourceInv
  BY <1>1, <1>2, <1>3 DEF SourceInv, StreamTyped, NamedByFirst, NothingAfterEnd, BlocksWhole, OpenOnes,
     NoTransaction
<1>5. ProcessTyped
  <2>1. arriving \in 1..(Len(stream) + 1)
    BY <1>1, <1>2
  <2>2. described \in [Tables -> Int]
    BY <1>1 DEF Undescribed
  <2>3. work \in [kind : { "idle", "publish", "evolve" }, todo : SUBSET Tables,
                  table : Tables \cup { NoTable }, columns : Nat] /\ work.todo = {} /\ work.kind = "idle"
    BY <1>1 DEF Idle
  <2> QED
    BY <1>1, <2>1, <2>2, <2>3 DEF ProcessTyped, NoTransaction
<1>6. \A t \in Tables : CommittedChanges(t) = {}
  BY <1>2 DEF CommittedChanges
<1>7. \A t \in Tables : tables[t].onboarded = FALSE /\ described[t] = Undescribed /\ log[t] = << >>
  BY <1>1 DEF NotOnboarded
<1>8. DescribedIsOnboarded /\ KnowsItsBlock /\ BatchersTrue /\ RowsWait /\ ChangesKept
  BY <1>1, <1>2, <1>6, <1>7 DEF DescribedIsOnboarded, KnowsItsBlock, BatchersTrue, RowsWait, ChangesKept
<1>9. \A t \in Tables : DOMAIN log[t] = {} /\ AppendsAt(t) = {}
  BY <1>7 DEF AppendsAt
<1>10. LogTyped /\ AppendsTrue
  <2>1. << >> \in Seq(Commitments)
    OBVIOUS
  <2> QED
    BY <1>1, <1>9, <2>1 DEF LogTyped, AppendsTrue
<1> QED
  BY <1>4, <1>5, <1>8, <1>10 DEF CaptureInv

\* Every step keeps the invariant.
LEMMA CaptureKeeps == CaptureInv /\ [CaptureNext]_captureVars => CaptureInv'
<1> SUFFICES ASSUME CaptureInv, [CaptureNext]_captureVars PROVE CaptureInv'
  OBVIOUS
<1>1. ASSUME NEW t \in Tables, NEW columns \in Shapes,
             Onboard(t, columns) \/ Quarantine(t, columns) \/ Unchanged(t, columns) \/ Widen(t, columns)
      PROVE  CaptureInv'
  BY <1>1, OnboardKeeps, QuarantineKeeps, UnchangedKeeps, WidenKeeps
<1>2. ASSUME NEW t \in Tables,
             PublishTable(t) \/ AdoptPendingSchema(t) \/ OtherCommits(t) \/ Invalidate(t)
      PROVE  CaptureInv'
  BY <1>2, PublishKeeps, AdoptPendingKeeps, OtherKeeps, InvalidateKeeps
<1>3. ASSUME NEW force \in BOOLEAN, BeginPublish(force) PROVE CaptureInv'
  BY <1>3, BeginPublishKeeps
<1>4. CASE Source
  BY <1>4, SourceKeeps
<1>5. CASE AcceptMessage
  BY <1>5, AcceptKeeps
<1>6. CASE Evolve
  BY <1>6, EvolveKeeps
<1>7. CASE ProcessCrash
  BY <1>7, CrashKeeps
<1>8. CASE Restart
  BY <1>8, RestartKeeps
<1>9. CASE UNCHANGED captureVars
  BY <1>9, StutterKeeps
<1> QED
  BY <1>1, <1>2, <1>3, <1>4, <1>5, <1>6, <1>7, <1>8, <1>9 DEF CaptureNext

\* The invariant of every behaviour.
LEMMA CaptureAlways == CaptureSpec => []CaptureInv
  BY CaptureBegins, CaptureKeeps, PTL DEF CaptureSpec

\* What the appends of a log say of a row in it.
LEMMA LogKnows ==
  ASSUME CaptureInv, NEW t \in Tables, NEW i \in DOMAIN log[t], NEW m \in log[t][i].rows
  PROVE  /\ i \in AppendsAt(t) /\ m.lsn \in Nat /\ m.lsn <= log[t][i].covers
         /\ m.lsn = CommitOf(stream[m.row].xid)
         /\ \A j \in AppendsAt(t) : j < i => log[t][j].covers \in Nat /\ m.lsn > log[t][j].covers
<1>1. LogTyped /\ AppendsTrue /\ SourceInv
  BY DEF CaptureInv
<1>2. ChangesKnown /\ PositionKnown
  BY <1>1, ChangesAreKnown, PositionIsKnown
<1>3. i \in AppendsAt(t)
  BY <1>1 DEF AppendsTrue, AppendsAt
<1>4. m \in CommittedChanges(t) /\ m.lsn <= log[t][i].covers
  BY <1>1, <1>3 DEF AppendsTrue
<1>5. m \in Changes /\ m.lsn = CommitOf(stream[m.row].xid)
  BY <1>2, <1>4 DEF ChangesKnown
<1>6. \A j \in AppendsAt(t) : j < i => m.lsn > log[t][j].covers
  BY <1>1, <1>3 DEF AppendsTrue
<1>7. \A j \in AppendsAt(t) : log[t][j].covers \in Nat
  BY <1>2 DEF PositionKnown, Commitments
<1> QED
  BY <1>3, <1>4, <1>5, <1>6, <1>7 DEF Changes

\* Two commits of a log hold rows of different transactions.
LEMMA LogsApart ==
  ASSUME CaptureInv, NEW t \in Tables, NEW i \in DOMAIN log[t], NEW j \in DOMAIN log[t], i # j,
         NEW m \in log[t][i].rows, NEW n \in log[t][j].rows
  PROVE  stream[n.row].xid # stream[m.row].xid /\ m.row # n.row
<1>1. i \in Nat /\ j \in Nat
  BY DEF CaptureInv, LogTyped
<1>2. /\ i \in AppendsAt(t) /\ m.lsn \in Nat /\ m.lsn <= log[t][i].covers
      /\ m.lsn = CommitOf(stream[m.row].xid)
      /\ \A k \in AppendsAt(t) : k < i => log[t][k].covers \in Nat /\ m.lsn > log[t][k].covers
  BY LogKnows
<1>3. /\ j \in AppendsAt(t) /\ n.lsn \in Nat /\ n.lsn <= log[t][j].covers
      /\ n.lsn = CommitOf(stream[n.row].xid)
      /\ \A k \in AppendsAt(t) : k < j => log[t][k].covers \in Nat /\ n.lsn > log[t][k].covers
  BY LogKnows
<1>4. m.lsn # n.lsn
  <2>1. CASE i < j
    BY <1>2, <1>3, <2>1
  <2>2. CASE j < i
    BY <1>2, <1>3, <2>2
  <2> QED
    BY <1>1, <2>1, <2>2
<1> QED
  BY <1>2, <1>3, <1>4

(* No row is in two commits of a table, whatever the source sends again    *)
(* after a restart and whichever append was made and reported as failed    *)
(* (pipeline.rs: the floor of publish and restore_published_position).     *)
THEOREM RowsOnlyOnce == CaptureSpec => []RowsOnce
<1>1. CaptureInv => RowsOnce
  BY LogsApart DEF RowsOnce
<1> QED
  BY <1>1, CaptureAlways, PTL

(* Every row of the log is under the position its transaction committed    *)
(* at, and no two commits of a table hold rows of one transaction          *)
(* (batch.rs: rows are sealed by the commit of their transaction and by    *)
(* nothing else; pipeline.rs: a flush is published as one commit).         *)
THEOREM TransactionsWhole == CaptureSpec => []NeverTorn
<1>1. CaptureInv => NeverTorn
  <2> SUFFICES ASSUME CaptureInv, NEW t \in Tables, NEW i \in DOMAIN log[t], NEW m \in log[t][i].rows
               PROVE  /\ m.lsn = CommitOf(stream[m.row].xid)
                      /\ \A j \in DOMAIN log[t] \ {i} : \A n \in log[t][j].rows :
                           stream[n.row].xid # stream[m.row].xid
    BY DEF NeverTorn
  <2>1. m.lsn = CommitOf(stream[m.row].xid)
    BY LogKnows
  <2> QED
    BY <2>1, LogsApart
<1> QED
  BY <1>1, CaptureAlways, PTL

-----------------------------------------------------------------------------
(* The promise.  To a reader of the log the source commits, rows are given *)
(* up, a table takes what came due, or nothing happened.                   *)

PromiseStep == [Promise!Next]_Promise!promised

\* The position the latest of a log's appends takes it to is the one it declares.
LEMMA PositionsAgree ==
  ASSUME CaptureInv, NEW t \in Tables
  PROVE  Promise!PositionOf(Appends(t)) = LogPosition(t)
<1>A. PICK A : A = AppendsAt(t)
  OBVIOUS
<1>P. PICK P : P = LogPosition(t)
  OBVIOUS
<1>C. PICK C : C = Appends(t)
  OBVIOUS
<1>1. /\ P \in Nat
      /\ A = {} => P = 0
      /\ A # {} => Newest(A) \in A /\ P = log[t][Newest(A)].covers
      /\ \A i \in A : log[t][i].covers <= P /\ log[t][i] \in Commitments
  BY <1>A, <1>P, PositionIsKnown DEF CaptureInv, PositionKnown
<1>2. C = { log[t][i] : i \in A }
  BY <1>A, <1>C DEF Appends
<1>3. CASE A = {}
  <2>1. C = {} /\ P = 0
    BY <1>1, <1>2, <1>3
  <2> QED
    BY <1>C, <1>P, <2>1 DEF Promise!PositionOf
<1>4. CASE A # {}
  <2>1. PICK top \in C : top.covers = P
    BY <1>1, <1>2, <1>4
  <2>2. \A c \in C : c.covers <= P /\ c.covers \in Nat
    BY <1>1, <1>2 DEF Commitments
  <2>3. PICK c : c = CHOOSE e \in C : \A d \in C : d.covers <= e.covers
    OBVIOUS
  <2>4. c \in C /\ \A d \in C : d.covers <= c.covers
    BY <2>1, <2>2, <2>3
  <2>5. c.covers = P
    BY <1>1, <2>1, <2>2, <2>4
  <2>6. Promise!PositionOf(C) = c.covers
    BY <2>1, <2>3 DEF Promise!PositionOf
  <2> QED
    BY <1>C, <1>P, <2>5, <2>6
<1> QED
  BY <1>3, <1>4

\* A step that moves no rows gives some up, or shows nothing.
LEMMA QuietPromise ==
  ASSUME CaptureInv, UNCHANGED stream, Quietly, givenUp \subseteq givenUp'
  PROVE  PromiseStep
<1>1. \A t \in Tables : CommittedChanges(t)' = CommittedChanges(t)
  BY DEF CommittedChanges, CommitOf
<1>2. \A t \in Tables : Appends(t)' = Appends(t)
  BY QuietStays DEF CaptureInv, AppendsStay
<1>3. [t \in Tables |-> CommittedChanges(t)]' = [t \in Tables |-> CommittedChanges(t)]
  BY <1>1
<1>4. [t \in Tables |-> Appends(t)]' = [t \in Tables |-> Appends(t)]
  BY <1>2
<1>5. CASE givenUp' = givenUp
  BY <1>3, <1>4, <1>5 DEF PromiseStep, Promise!promised
<1>6. CASE givenUp' # givenUp
  <2>1. Promise!GiveUp
    BY <1>3, <1>4, <1>6 DEF Promise!GiveUp
  <2> QED
    BY <2>1 DEF PromiseStep, Promise!Next
<1> QED
  BY <1>5, <1>6

\* A transaction commits after everything that was committed and past what any
\* table declares.
LEMMA SourcePromise ==
  ASSUME CaptureInv, CaptureInv', Source
  PROVE  PromiseStep
<1>1. SourceInv /\ SourceInv' /\ ChangesKnown /\ PositionKnown
  BY ChangesAreKnown, PositionIsKnown DEF CaptureInv
<1>2. PICK m : MaySend(m) /\ Produce(m)
  BY <1>1, SourceSends
<1>3. UNCHANGED << log, givenUp >>
  BY DEF Source
<1>n. PICK n : n = Len(stream)
  OBVIOUS
<1>4. n \in Nat /\ DOMAIN stream = 1..n
  BY <1>1, <1>n DEF SourceInv, StreamTyped
<1>5. \A t \in Tables :
        /\ CommittedChanges(t) \subseteq CommittedChanges(t)'
        /\ \A c \in CommittedChanges(t)' : c \in CommittedChanges(t) \/ c.lsn = n + 1
  BY <1>1, <1>2, <1>n, ChangesGrow
<1>6. \A t \in Tables : Appends(t)' = Appends(t)
  BY <1>3 DEF Appends, AppendsAt
<1>7. [t \in Tables |-> Appends(t)]' = [t \in Tables |-> Appends(t)]
  BY <1>6
<1>8. \A t \in Tables : Promise!PositionOf(Appends(t)) \in Nat /\ Promise!PositionOf(Appends(t)) <= n
  BY <1>1, <1>n, PositionsAgree DEF PositionKnown
<1>9. \A t \in Tables : \A c \in CommittedChanges(t) : c.lsn \in 1..n
  BY <1>1, <1>4 DEF ChangesKnown
<1> DEFINE com == [t \in Tables |-> CommittedChanges(t)]
           hist == [t \in Tables |-> Appends(t)]
<1>10. CASE com' = com
  BY <1>3, <1>7, <1>10 DEF PromiseStep, Promise!promised
<1>11. CASE com' # com
  <2>1. ASSUME NEW t \in Tables
        PROVE  /\ com[t] \subseteq com'[t]
               /\ \A c \in com'[t] \ com[t] :
                    /\ \A u \in Tables : \A d \in com[u] : c.lsn > d.lsn
                    /\ \A u \in Tables : c.lsn > Promise!PositionOf(hist[u])
    <3>1. com[t] = CommittedChanges(t) /\ com'[t] = CommittedChanges(t)'
      OBVIOUS
    <3>2. ASSUME NEW c \in com'[t] \ com[t], NEW u \in Tables
          PROVE  /\ \A d \in com[u] : c.lsn > d.lsn
                 /\ c.lsn > Promise!PositionOf(hist[u])
      <4>1. c.lsn = n + 1
        BY <1>5, <3>1, <3>2
      <4>2. \A d \in com[u] : d.lsn \in 1..n
        BY <1>9
      <4>3. Promise!PositionOf(hist[u]) \in Nat /\ Promise!PositionOf(hist[u]) <= n
        BY <1>8
      <4> QED
        BY <1>4, <4>1, <4>2, <4>3
    <3> QED
      BY <1>5, <3>1, <3>2
  <2>2. Promise!Commit
    BY <1>3, <1>7, <1>11, <2>1 DEF Promise!Commit
  <2> QED
    BY <2>2 DEF PromiseStep, Promise!Next
<1> QED
  BY <1>10, <1>11

\* A publish that writes takes the table to where its batcher is, with all that
\* came due and was not given up.
LEMMA PublishPromise ==
  ASSUME CaptureInv, NEW u, PublishTable(u)
  PROVE  PromiseStep
<1>s. PICK s : s = tables[u]
  OBVIOUS
<1>r. PICK rows : rows = NewRows(s)
  OBVIOUS
<1>p. PICK P : P = LogPosition(u)
  OBVIOUS
<1>c. PICK covers : covers = s.batcher.covers
  OBVIOUS
<1>1. /\ SourceInv /\ ProcessTyped /\ BatchersTrue /\ ChangesKept /\ LogTyped /\ AppendsTrue
      /\ ChangesKnown
  BY ChangesAreKnown DEF CaptureInv
<1>2. /\ u \in Tables /\ s \in Onboarded /\ s.onboarded /\ running /\ P \in Nat
      /\ UNCHANGED stream
      /\ rows \in SUBSET Changes /\ rows \subseteq CommittedChanges(u)
      /\ s.batcher \in BatcherStates /\ covers <= Len(stream)
      /\ s.through <= P
      /\ \A m \in rows : m.lsn > P /\ m.lsn <= covers
      /\ rows # {} => P < covers
  BY <1>s, <1>r, <1>p, <1>c, Publishing
<1>3. covers \in Nat /\ s.through \in Nat
  BY <1>2, <1>c DEF Onboarded, BatcherStates
<1>4. /\ givenUp \subseteq givenUp'
      /\ log' = log \/ NothingWritten(u) \/ (rows # {} /\ RowsWritten(u) /\ givenUp' = givenUp)
  BY <1>s, <1>r, PublishDoes
<1>5. CASE log' = log \/ NothingWritten(u)
  <2>1. Quietly
    BY <1>1, <1>2, <1>5, LogStays, SilentIsQuiet DEF NothingWritten
  <2> QED
    BY <1>2, <1>4, <2>1, QuietPromise
<1>6. CASE rows # {} /\ RowsWritten(u)
  <2>e. PICK new : new = log'[u][Len(log'[u])]
    OBVIOUS
  <2>1. AppendsRows(u, rows, covers)
    BY <1>2, <1>3, <1>6, <1>s, <1>r, <1>c, EntryIsAppended
  <2>2. P < covers /\ LogPosition(u) < covers /\ \A m \in rows : m.lsn <= covers /\ m.lsn > LogPosition(u)
    BY <1>2, <1>6, <1>p
  <2>3. /\ Appends(u)' = Appends(u) \cup { new }
        /\ \A t \in Tables \ { u } : Appends(t)' = Appends(t)
    BY <1>1, <1>2, <1>3, <2>e, <2>1, <2>2, RowsAppended
  <2>4. new.rows = rows /\ new.covers = covers
    BY <2>e, <2>1 DEF AppendsRows
  <2>5. [t \in Tables |-> Appends(t)]' = [[t \in Tables |-> Appends(t)] EXCEPT ![u] = @ \cup { new }]
    BY <1>2, <2>3
  <2>6. \A t \in Tables : CommittedChanges(t)' = CommittedChanges(t)
    BY <1>2 DEF CommittedChanges, CommitOf
  <2>7. [t \in Tables |-> CommittedChanges(t)]' = [t \in Tables |-> CommittedChanges(t)]
    BY <2>6
  <2>8. Promise!PositionOf(Appends(u)) = P
    BY <1>2, <1>p, PositionsAgree
  <2>9. ASSUME NEW c \in CommittedChanges(u), c.lsn > P, c.lsn <= covers, c \notin rows
        PROVE  c.row \in givenUp
    <3>1. c.lsn \in Nat
      BY <1>1, <1>2 DEF ChangesKnown, Changes
    <3>2. covers < arriving /\ arriving \in Nat
      <4>1. arriving \in 1..(Len(stream) + 1)
        BY <1>1 DEF ProcessTyped
      <4>2. Len(stream) \in Nat
        BY <1>1 DEF SourceInv, StreamTyped
      <4>3. covers < arriving
        BY <1>1, <1>2, <1>s, <1>c DEF BatchersTrue, BatcherTrue
      <4> QED
        BY <4>1, <4>2, <4>3
    <3>3. c.lsn < arriving
      BY <1>3, <2>9, <3>1, <3>2
    <3>4. ~(c.lsn <= LogPosition(u))
      BY <1>2, <1>p, <2>9, <3>1
    <3>5. c \in s.batcher.sealed => c \in rows
      <4>1. c.lsn > s.through
        BY <1>2, <1>3, <2>9, <3>1
      <4> QED
        BY <1>r, <4>1 DEF NewRows
    <3> QED
      BY <1>1, <1>2, <1>s, <2>9, <3>3, <3>4, <3>5 DEF ChangesKept
  <2> DEFINE hist == [t \in Tables |-> Appends(t)]
             com == [t \in Tables |-> CommittedChanges(t)]
             due == { c \in com[u] : c.lsn > Promise!PositionOf(hist[u]) /\ c.lsn <= new.covers }
  <2>10. hist'[u] = Appends(u) \cup { new } /\ hist[u] = Appends(u) /\ com[u] = CommittedChanges(u)
    BY <1>2, <2>3
  <2>11. new \in hist'[u] /\ hist' = [hist EXCEPT ![u] = @ \cup { new }]
    BY <2>5, <2>10
  <2>12. due = { c \in CommittedChanges(u) : c.lsn > P /\ c.lsn <= covers }
    BY <2>4, <2>8, <2>10
  <2>13. new.covers > Promise!PositionOf(hist[u])
    BY <1>2, <1>3, <2>2, <2>4, <2>8, <2>10
  <2>14. new.rows \subseteq due /\ { c.row : c \in due \ new.rows } \subseteq givenUp
    BY <1>2, <2>4, <2>9, <2>12
  <2>15. Promise!Publish(u)
    BY <1>4, <2>7, <2>11, <2>13, <2>14 DEF Promise!Publish
  <2> QED
    BY <1>2, <2>15 DEF PromiseStep, Promise!Next
<1> QED
  BY <1>4, <1>5, <1>6

\* The steps that touch no log.
LEMMA LogAlone ==
  ASSUME CaptureInv, UNCHANGED << stream, log >>, givenUp \subseteq givenUp'
  PROVE  PromiseStep
  BY LogStays, QuietPromise DEF CaptureInv

\* Every step keeps the promise.
LEMMA StepPromised ==
  ASSUME CaptureInv, CaptureInv', [CaptureNext]_captureVars
  PROVE  PromiseStep
<1>1. ASSUME NEW t \in Tables, NEW columns \in Shapes,
             Onboard(t, columns) \/ Quarantine(t, columns) \/ Unchanged(t, columns) \/ Widen(t, columns)
      PROVE  PromiseStep
  <2>1. UNCHANGED << stream, log, givenUp >>
    BY <1>1 DEF Onboard, Quarantine, Unchanged, Widen, upstream
  <2> QED
    BY <2>1, LogAlone
<1>2. ASSUME NEW t \in Tables, AdoptPendingSchema(t) \/ Invalidate(t)
      PROVE  PromiseStep
  <2>1. UNCHANGED << stream, log, givenUp >>
    BY <1>2 DEF AdoptPendingSchema, Invalidate, upstream
  <2> QED
    BY <2>1, LogAlone
<1>3. ASSUME NEW t \in Tables, OtherCommits(t) PROVE PromiseStep
  <2>1. UNCHANGED << stream, givenUp >>
    BY <1>3 DEF OtherCommits
  <2> QED
    BY <1>3, <2>1, OtherIsQuiet, QuietPromise
<1>4. ASSUME NEW force \in BOOLEAN, BeginPublish(force) PROVE PromiseStep
  <2>1. UNCHANGED << stream, log, givenUp >>
    BY <1>4 DEF BeginPublish, upstream
  <2> QED
    BY <2>1, LogAlone
<1>5. CASE AcceptMessage
  <2>1. UNCHANGED << stream, log >> /\ givenUp \subseteq givenUp'
    BY <1>5 DEF AcceptMessage, AcceptBoundary, AcceptTruncate, AcceptRow, upstream
  <2> QED
    BY <2>1, LogAlone
<1>6. CASE Evolve
  <2>1. UNCHANGED stream /\ givenUp \subseteq givenUp'
    BY <1>6 DEF Evolve, Fails, upstream
  <2> QED
    BY <1>6, <2>1, EvolveIsQuiet, QuietPromise
<1>7. CASE ProcessCrash \/ Restart \/ UNCHANGED captureVars
  <2>1. UNCHANGED << stream, log, givenUp >>
    BY <1>7 DEF ProcessCrash, Restart, captureVars, upstream
  <2> QED
    BY <2>1, LogAlone
<1>8. CASE Source
  BY <1>8, SourcePromise
<1>9. ASSUME NEW t \in Tables, PublishTable(t) PROVE PromiseStep
  BY <1>9, PublishPromise
<1> QED
  BY <1>1, <1>2, <1>3, <1>4, <1>5, <1>6, <1>7, <1>8, <1>9 DEF CaptureNext

(* The pipeline implements ExactlyOnce: each append takes its table to a   *)
(* later position with every change in between but those given up, the     *)
(* source commits past every position declared, and nothing else is seen   *)
(* (pipeline.rs: publish commits the rows and covers_through as one).      *)
THEOREM CaptureKeepsPromise == CaptureSpec => KeepsPromise
<1>1. CaptureInit => Promise!Init
  <2> SUFFICES ASSUME CaptureInit PROVE Promise!Init
    OBVIOUS
  <2>1. stream = << >> /\ givenUp = {} /\ \A t \in Tables : log[t] = << >>
    BY DEF CaptureInit
  <2>2. \A t \in Tables : CommittedChanges(t) = {}
    BY <2>1 DEF CommittedChanges
  <2>3. \A t \in Tables : Appends(t) = {}
    BY <2>1 DEF Appends, AppendsAt
  <2> QED
    BY <2>1, <2>2, <2>3 DEF Promise!Init
<1>2. CaptureInv /\ CaptureInv' /\ [CaptureNext]_captureVars => [Promise!Next]_Promise!promised
  BY StepPromised DEF PromiseStep
<1> QED
  BY <1>1, <1>2, CaptureAlways, PTL DEF CaptureSpec, KeepsPromise, Promise!Spec
=============================================================================
