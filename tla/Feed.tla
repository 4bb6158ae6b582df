-------------------------------- MODULE Feed --------------------------------
(***************************************************************************)
(* One feed of crates/sankhya-feed, as the server's feed task drives it.   *)
(*                                                                         *)
(* A run reads the sources of a spool directory in name order, publishes   *)
(* the records that fit together with the position they take the feed to,  *)
(* one commit for both, and then writes the records it refused to the      *)
(* quarantine, which is another table and so another commit.  The task can *)
(* die between any two steps; a commit can fail, or succeed and be         *)
(* reported as failed; any error of a run halts the feed until somebody    *)
(* resumes it or the process restarts.                                     *)
(*                                                                         *)
(* Abstracted: a source is its number in name order and its lines, each    *)
(* good, bad or blank; a commit is one step, which TableLog is about; the  *)
(* producer writes a source whole before it appears.                       *)
(***************************************************************************)
EXTENDS Integers, FiniteSets, Sequences

CONSTANTS
  NumSources,   \* the sources of the spool, named in order
  MaxLines,     \* bound: no source longer than this
  BatchRows,    \* microbatch().rows
  Window,       \* quarantine().window, in records
  Tolerated,    \* the most unfit records of a window that stop_above allows
  Faults,       \* what the surroundings may do to a run, see below
  MaxFaults     \* bound: no more crashes and failed commits than this

(* "crash": the process dies and is started again.  "publish": a commit    *)
(* fails, or is made and reported as failed.  "misread": the table's log   *)
(* cannot be read when a run starts.  "late": a source appears behind one  *)
(* that is already there.                                                  *)
ASSUME FeedAssumption ==
  /\ NumSources \in Nat /\ MaxLines \in Nat /\ MaxFaults \in Nat
  /\ BatchRows \in Nat \ {0} /\ Window \in Nat \ {0} /\ Tolerated \in Nat
  /\ Faults \subseteq { "crash", "publish", "misread", "late" }

Sources == 1..NumSources
Records == Sources \X (1..MaxLines)
Kinds   == { "good", "bad", "blank" }

(* A mark, zero for the empty name, and the source part-way read, if any.  *)
Position == [through : 0..NumSources, partial : 0..NumSources, lines : 0..MaxLines]
Default  == [through |-> 0, partial |-> 0, lines |-> 0]

VARIABLES
  spool,     \* the sources in the directory
  text,      \* their lines
  recorded,  \* the position in the table's newest metadata
  landed,    \* how often each record is in the table
  kept,      \* how often each record is in the quarantine
  halted,    \* what the registry of feeds says
  (* the run *)
  pc,
  todo,      \* sources listed and not looked at yet
  held,      \* the run's own copy of the position
  source,    \* the source being read
  next,      \* how many of its lines have been looked at
  through,   \* read_through
  fitted,    \* lines bound and not published
  refused,   \* lines to quarantine when the source ends
  recent,    \* the outcomes in the window
  seen,      \* the outcomes this source had
  stopped,
  (* the surroundings *)
  faults,    \* crashes and failed commits so far
  cut        \* history: the sources a run was cut short in

table == << recorded, landed, kept >>
batch == << next, through, fitted, refused >>
rate  == << recent, seen, stopped >>
run   == << pc, todo, held, source, batch, rate >>
vars  == << spool, text, table, halted, run, faults, cut >>

-----------------------------------------------------------------------------
(* Position::standing, finished and part_way.                              *)

Standing(p, s) ==
  IF p.partial = s THEN "resume"
  ELSE IF s > p.through THEN "fresh" ELSE "done"

Skipped(p, s) == IF p.partial = s THEN p.lines ELSE 0

Finished(p, s) ==
  [through |-> IF s > p.through THEN s ELSE p.through, partial |-> 0, lines |-> 0]

(* Mutant: the rows published so far are recorded, not the lines read.     *)
PartWayPublished(p, s, n) ==
  [p EXCEPT !.partial = s,
            !.lines = Cardinality({ k \in 1..MaxLines : landed[<< s, k >>] > 0 \/ k \in fitted })]

(* Mutant: the position is written afresh, without the mark.               *)
PartWayAfresh(p, s, n) == [Default EXCEPT !.partial = s, !.lines = n]

PartWay(p, s, n) == [p EXCEPT !.partial = s, !.lines = n]

(* Whether a restart from this position would not read the record again.   *)
Covered(p, s, k) == Standing(p, s) = "done" \/ k <= Skipped(p, s)

(* Mutant: the window holds one outcome more than it says.                 *)
SlideTooLate(fits) ==
  LET longer == Append(recent, fits)
  IN  IF Len(longer) > Window + 1 THEN Tail(longer) ELSE longer

(* Outcomes::record.  The rate means nothing before the window is full.    *)
Slide(fits) ==
  LET longer == Append(recent, fits)
  IN  IF Len(longer) > Window THEN Tail(longer) ELSE longer

TooMany(outcomes) ==
  /\ Len(outcomes) = Window
  /\ Cardinality({ i \in DOMAIN outcomes : ~outcomes[i] }) > Tolerated

-----------------------------------------------------------------------------
TypeOK ==
  /\ spool \subseteq Sources
  /\ text \in [Sources -> Seq(Kinds)]
  /\ recorded \in Position
  /\ landed \in [Records -> Nat]
  /\ kept \in [Records -> Nat]
  /\ halted \in BOOLEAN
  /\ pc \in { "idle", "listing", "reading", "closing", "ending", "refusing", "deciding" }
  /\ todo \subseteq Sources
  /\ held \in Position
  /\ source \in 0..NumSources
  /\ next \in 0..MaxLines
  /\ through \in 0..next
  /\ fitted \subseteq 1..through
  /\ refused \subseteq 1..through
  /\ recent \in Seq(BOOLEAN) /\ Len(recent) <= Window
  /\ seen \subseteq BOOLEAN
  /\ stopped \in BOOLEAN
  /\ faults \in 0..MaxFaults
  /\ cut \subseteq Sources

AtRest ==
  /\ pc = "idle" /\ todo = {} /\ held = Default /\ source = 0
  /\ next = 0 /\ through = 0 /\ fitted = {} /\ refused = {}
  /\ recent = << >> /\ seen = {} /\ stopped = FALSE

Init ==
  /\ spool = {}
  /\ text \in [Sources -> UNION { [1..n -> Kinds] : n \in 0..MaxLines }]
  /\ recorded = Default
  /\ landed = [r \in Records |-> 0]
  /\ kept = [r \in Records |-> 0]
  /\ halted = FALSE
  /\ AtRest
  /\ faults = 0
  /\ cut = {}

-----------------------------------------------------------------------------
(* A source appears.  Nothing makes the names of a spool arrive in order.  *)
Deliver(s) ==
  /\ s \notin spool
  /\ "late" \in Faults \/ \A t \in spool : t < s
  /\ spool' = spool \cup {s}
  /\ UNCHANGED << text, table, halted, run, faults, cut >>

(* run up to its loop: the position, then the listing.  A log that cannot  *)
(* be read is the same answer as one without the property.                 *)
StartRun ==
  /\ pc = "idle" /\ ~halted
  /\ \/ held' = recorded /\ UNCHANGED faults
     \/ /\ "misread" \in Faults /\ faults < MaxFaults
        /\ held' = Default /\ faults' = faults + 1
  /\ todo' = spool
  /\ pc' = "listing"
  /\ UNCHANGED << spool, text, table, halted, source, batch, rate, cut >>

First == CHOOSE s \in todo : \A t \in todo : s <= t

(* already_read: at or below the mark.                                     *)
PassOver ==
  /\ pc = "listing" /\ todo # {}
  /\ Standing(held, First) = "done"
  /\ todo' = todo \ {First}
  /\ UNCHANGED << spool, text, table, halted, pc, held, source, batch, rate, faults, cut >>

Open ==
  /\ pc = "listing" /\ todo # {}
  /\ Standing(held, First) # "done"
  /\ source' = First
  /\ todo' = todo \ {First}
  /\ next' = Skipped(held, First)
  /\ through' = next'
  /\ fitted' = {} /\ refused' = {}
  /\ stopped' = FALSE
  /\ pc' = "reading"
  /\ UNCHANGED << spool, text, table, halted, held, recent, seen, faults, cut >>

(* One line: passed over if blank, else bound, counted, and read through   *)
(* whether it fitted or not.  The batch closes when full, or when it has   *)
(* been open too long, which can be the case after any record.             *)
Read ==
  /\ pc = "reading" /\ next < Len(text[source])
  /\ next' = next + 1
  /\ IF text[source][next'] = "blank"
       THEN UNCHANGED << pc, through, fitted, refused, rate >>
       ELSE LET fits == text[source][next'] = "good" IN
            /\ fitted' = IF fits THEN fitted \cup {next'} ELSE fitted
            /\ refused' = IF fits THEN refused ELSE refused \cup {next'}
            /\ recent' = Slide(fits)
            /\ seen' = seen \cup {fits}
            /\ stopped' = TooMany(recent')
            /\ through' = next'
            /\ \E stale \in BOOLEAN :
                 pc' = IF stopped' \/ Cardinality(fitted') >= BatchRows \/ stale
                         THEN "closing" ELSE "reading"
  /\ UNCHANGED << spool, text, table, halted, todo, held, source, faults, cut >>

-----------------------------------------------------------------------------
(* The ways out of a run.                                                  *)

Forget ==
  /\ pc' = "idle" /\ todo' = {} /\ held' = Default /\ source' = 0
  /\ next' = 0 /\ through' = 0 /\ fitted' = {} /\ refused' = {}
  /\ recent' = << >> /\ seen' = {} /\ stopped' = FALSE

CutShort == cut' = IF refused = {} THEN cut ELSE cut \cup {source}

(* A commit of this run fails.  An append that fails after its link is     *)
(* reported like one that never made it.                                   *)
CommitFails(done) ==
  /\ "publish" \in Faults /\ faults < MaxFaults
  /\ done \/ UNCHANGED table
  /\ halted' = TRUE
  /\ faults' = faults + 1
  /\ Forget /\ CutShort
  /\ UNCHANGED << spool, text >>

-----------------------------------------------------------------------------
(* commit_batch: the fitted rows and the position, in one commit.          *)
Publish(p) ==
  /\ recorded' = p
  /\ landed' = [r \in Records |->
       IF r[1] = source /\ r[2] \in fitted THEN landed[r] + 1 ELSE landed[r]]
  /\ UNCHANGED kept

CommitBatch(p, then) ==
  \/ /\ Publish(p)
     /\ held' = p
     /\ fitted' = {}
     /\ pc' = then
     /\ UNCHANGED << spool, text, halted, todo, source, next, through, refused, rate,
                     faults, cut >>
  \/ CommitFails(Publish(p))

(* Inside the loop, when a batch closes.                                   *)
Close ==
  /\ pc = "closing"
  /\ CommitBatch(PartWay(held, source, through), IF stopped THEN "ending" ELSE "reading")

(* Mutant: a source is finished only when there is something to publish.   *)
EndSourceWithRows ==
  /\ pc = "ending" \/ (pc = "reading" /\ next = Len(text[source]))
  /\ CommitBatch(IF stopped \/ fitted = {} THEN PartWay(held, source, through)
                                          ELSE Finished(held, source),
                 "refusing")

(* After the loop: what is left, and the source is finished unless the     *)
(* feed stopped in it.                                                     *)
EndSource ==
  /\ pc = "ending" \/ (pc = "reading" /\ next = Len(text[source]))
  /\ CommitBatch(IF stopped THEN PartWay(held, source, through) ELSE Finished(held, source),
                 "refusing")

(* quarantine_all                                                          *)
SetAside ==
  /\ kept' = [r \in Records |->
       IF r[1] = source /\ r[2] \in refused THEN kept[r] + 1 ELSE kept[r]]
  /\ UNCHANGED << recorded, landed >>

(* Mutant: a feed that stopped returns before it writes its refusals.      *)
QuarantineUnlessStopped ==
  /\ pc = "refusing"
  /\ IF stopped THEN UNCHANGED table ELSE SetAside
  /\ refused' = {}
  /\ pc' = "deciding"
  /\ UNCHANGED << spool, text, halted, todo, held, source, next, through, fitted, rate,
                  faults, cut >>

QuarantineAll ==
  /\ pc = "refusing"
  /\ \/ /\ SetAside
        /\ refused' = {}
        /\ pc' = "deciding"
        /\ UNCHANGED << spool, text, halted, todo, held, source, next, through, fitted, rate,
                        faults, cut >>
     \/ refused # {} /\ CommitFails(SetAside)

(* The stop the window asked for, or Outcomes::finish_source's: nothing in *)
(* the source fitted.  The feed task records either in the registry.       *)
Decide ==
  /\ pc = "deciding"
  /\ IF stopped \/ seen = {FALSE}
       THEN halted' = TRUE /\ Forget
       ELSE /\ pc' = "listing" /\ seen' = {}
            /\ UNCHANGED << halted, todo, held, source, batch, recent, stopped >>
  /\ UNCHANGED << spool, text, table, faults, cut >>

EndRun ==
  /\ pc = "listing" /\ todo = {}
  /\ Forget
  /\ UNCHANGED << spool, text, table, halted, faults, cut >>

(* RESUME FEED                                                             *)
Resume ==
  /\ halted
  /\ halted' = FALSE
  /\ UNCHANGED << spool, text, table, run, faults, cut >>

(* The registry is memory too: a restart forgets that the feed was halted. *)
Crash ==
  /\ "crash" \in Faults /\ faults < MaxFaults
  /\ faults' = faults + 1
  /\ halted' = FALSE
  /\ Forget /\ CutShort
  /\ UNCHANGED << spool, text, table >>

Task == StartRun \/ PassOver \/ Open \/ Read \/ Close \/ EndSource \/ QuarantineAll
        \/ Decide \/ EndRun

Next == (\E s \in Sources : Deliver(s)) \/ Task \/ Resume \/ Crash

(* The feed task is a loop that sleeps between runs and never ends; nobody *)
(* has to resume a halted feed.                                            *)
Spec     == Init /\ [][Next]_vars
FairSpec == Spec /\ WF_vars(Task)

-----------------------------------------------------------------------------
(* Properties.                                                             *)

Good(s, k) == k \in DOMAIN text[s] /\ text[s][k] = "good"
Bad(s, k)  == k \in DOMAIN text[s] /\ text[s][k] = "bad"

(* The rows and the position never disagree: a record that fits is in the  *)
(* table once if the position says a restart would not read it, and not at *)
(* all if it says it would -- after every crash, every failed commit and   *)
(* every commit that was made and reported as failed.                      *)
ExactlyOnce ==
  \A s \in spool, k \in 1..MaxLines :
    Good(s, k) => landed[<< s, k >>] = IF Covered(recorded, s, k) THEN 1 ELSE 0

(* Once the position says a record was read, it says so for ever: nothing  *)
(* read becomes eligible to be read again (commit_batch, Position).        *)
NeverForgets ==
  [][ \A s \in spool, k \in 1..MaxLines :
        Covered(recorded, s, k) => Covered(recorded', s, k) ]_vars

InHand(s, k) == pc \notin { "idle", "listing" } /\ source = s /\ k \in refused

(* A record read and refused is in the quarantine once, or the run that    *)
(* refused it still holds it, unless a run was cut short in that source    *)
(* while it held refusals: that is the only way to lose one.               *)
RefusalsAccountedFor ==
  \A s \in spool \ cut, k \in 1..MaxLines :
    Bad(s, k) /\ Covered(recorded, s, k) =>
      kept[<< s, k >>] = 1 \/ (kept[<< s, k >>] = 0 /\ InHand(s, k))

(* ADR-0018, decision 1: "A record that does not fit is neither dropped    *)
(* nor coerced. It is written to a quarantine."  The code moves the        *)
(* position past a refused record one commit before it writes it.          *)
NeverDropped ==
  \A s \in spool, k \in 1..MaxLines :
    Bad(s, k) /\ Covered(recorded, s, k) => kept[<< s, k >>] > 0 \/ InHand(s, k)

(* ADR-0018, amendment: "never re-ingest".  With sources delivered out of  *)
(* order, finishing an earlier one forgets the one that was part-way read. *)
NeverReingested == \A r \in Records : landed[r] <= 1

(* If no halt lasts for ever, every source of the spool is eventually read *)
(* to its end: every run gets further than the one before it, a run that   *)
(* stops included, so that resuming a feed is never in vain.               *)
EventuallyRead ==
  ([]<>~halted) => \A s \in Sources : s \in spool ~> Standing(recorded, s) = "done"
=============================================================================
