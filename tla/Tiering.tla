------------------------------- MODULE Tiering -------------------------------
(***************************************************************************)
(* Moving ranges of a table out of the system of record: the phases of a   *)
(* purge and their journal, the registry of archived ranges, the           *)
(* quarantine of detached partitions, and the plan of a query over both    *)
(* tiers.  Source: src/crates/sankhya-tiering/src (machine.rs, verify.rs,  *)
(* registry.rs, quarantine.rs, unify.rs).                                  *)
(*                                                                         *)
(* The crate is a library that nothing in the repository drives, so what   *)
(* its caller does in each phase (Act) is external: it is taken from the   *)
(* documentation of Phase and from tests/end_to_end.rs.  One table; a      *)
(* range is the non-empty set of the ordinals it covers.                   *)
(***************************************************************************)
EXTENDS Integers, Sequences, SequencesExt

CONSTANTS
    Purges,       \* the names of the purges
    Domain,       \* the ordinals of the tiering key
    RangeOf,      \* the range each purge was planned for
    Grace,        \* how long a detached partition is kept, in ticks
    MaxTime,      \* bound: the last tick of the clock
    MaxRewrites,  \* bound: journal entries written a second time
    MaxCrashes    \* bound: crashes of the process

Phases == <<"planned", "verified", "gated", "marked", "detached", "dropped", "recorded">>

PhaseNames == {Phases[i] : i \in 1 .. 7}

TieringAssumption ==
    /\ RangeOf \in [Purges -> SUBSET Domain \ {{}}]
    /\ Grace \in Nat \ {0}
    /\ MaxTime \in Nat /\ MaxRewrites \in Nat /\ MaxCrashes \in Nat

ASSUME TieringAssumption

VARIABLES
    journal,   \* the phases journalled for each purge: durable
    entered,   \* the phases each Purge in memory has entered; empty when there is none
    acting,    \* the phase each purge has journalled and not acted on yet
    copy,      \* what the published tier holds of each purge's range
    source,    \* the source database: the attached ordinals, the registry, the quarantine
    backup,    \* a backup of the source database
    killed,    \* whether a kill switch is set
    now,       \* the clock
    rewrites,  \* counts journal entries written twice
    crashes    \* counts crashes

vars == <<journal, entered, acting, copy, source, backup, killed, now, rewrites, crashes>>

memory == <<entered, acting>>
faults == <<killed, now, rewrites, crashes>>

None == "none"

\* An archival entry: the range, and the purge whose archive it names.
Entries == [range : {RangeOf[p] : p \in Purges}, purge : Purges]

\* A detached partition, still on disk.
Held == [purge : Purges, at : 0 .. MaxTime]

Sources == [attached : SUBSET Domain, registry : SUBSET Entries, held : SUBSET Held]

Init ==
    /\ journal = [p \in Purges |-> <<>>]
    /\ entered = [p \in Purges |-> <<>>]
    /\ acting = [p \in Purges |-> None]
    /\ copy = [p \in Purges |-> "absent"]
    /\ source = [attached |-> Domain, registry |-> {}, held |-> {}]
    /\ backup = source
    /\ killed = FALSE /\ now = 0 /\ rewrites = 0 /\ crashes = 0

-----------------------------------------------------------------------------
(* The machine.                                                            *)

\* The phase that must have completed before this one may begin.
Requires(phase) ==
    CASE phase = "verified" -> "planned"
      [] phase = "gated"    -> "verified"
      [] phase = "marked"   -> "gated"
      [] phase = "detached" -> "marked"
      [] phase = "dropped"  -> "detached"
      [] phase = "recorded" -> "dropped"
      [] OTHER              -> None

\* Mutant: a machine that enters a phase again when its action is repeated.
EnteredAgain(trace, phase) == Append(trace, phase)

Entered(trace, phase) == IF Last(trace) = phase THEN trace ELSE Append(trace, phase)

\* Mutant: a resume that takes a repeated phase for a skipped one.
ReplayStrictly(trace, phase) ==
    IF trace # <<>> /\ Requires(phase) = Last(trace) THEN Append(trace, phase) ELSE <<>>

\* One journal entry, to resume: the phases entered so far, or the empty sequence
\* once the journal is refused.  A phase recorded twice in a row is passed over.
Replay(trace, phase) ==
    IF trace = <<>> \/ Last(trace) = phase THEN trace
    ELSE IF Requires(phase) = Last(trace) THEN Append(trace, phase)
    ELSE <<>>

\* resume over the journal of one purge: the phases it has entered.
Replayed(entries) == FoldLeft(Replay, <<"planned">>, entries)

Begin(p) ==
    /\ entered[p] = <<>> /\ journal[p] = <<>>
    /\ entered' = [entered EXCEPT ![p] = <<"planned">>]
    /\ UNCHANGED <<journal, acting, copy, source, backup, faults>>

\* The range is copied to the published tier, faithfully or not.
Copy(p) ==
    /\ entered[p] = <<"planned">> /\ acting[p] = None
    /\ copy[p] = "absent"
    /\ RangeOf[p] \subseteq source.attached
    /\ \E held \in {"faithful", "flawed"} : copy' = [copy EXCEPT ![p] = held]
    /\ UNCHANGED <<journal, memory, source, backup, faults>>

\* Mutant: a proof that only counted rows.
ProofByCount(p) == copy[p] # "absent" /\ RangeOf[p] \subseteq source.attached

\* A proof comes only from a comparison of source and archive that found nothing.
Proof(p) == copy[p] = "faithful" /\ RangeOf[p] \subseteq source.attached

\* transition: the entry is durable before the action is attempted.
Transition(p, next) ==
    /\ entered[p] # <<>> /\ acting[p] = None
    /\ ~killed
    /\ Requires(next) = Last(entered[p])
    /\ journal' = [journal EXCEPT ![p] = Append(@, next)]
    /\ acting' = [acting EXCEPT ![p] = next]
    /\ UNCHANGED <<entered, copy, source, backup, faults>>

Verified(p) == Proof(p) /\ Transition(p, "verified")

Entering(p) == \E next \in PhaseNames \ {"verified"} : Transition(p, next)

\* A caller that is not told its append succeeded writes the entry again.
Rewrite(p) ==
    /\ acting[p] # None /\ rewrites < MaxRewrites
    /\ journal' = [journal EXCEPT ![p] = Append(@, acting[p])]
    /\ rewrites' = rewrites + 1
    /\ UNCHANGED <<memory, copy, source, backup, killed, now, crashes>>

Crash ==
    /\ crashes < MaxCrashes
    /\ crashes' = crashes + 1
    /\ entered' = [p \in Purges |-> <<>>]
    /\ acting' = [p \in Purges |-> None]
    /\ UNCHANGED <<journal, copy, source, backup, killed, now, rewrites>>

\* The machine is rebuilt, and what its last phase may not have done is repeated.
Resume(p) ==
    /\ entered[p] = <<>> /\ journal[p] # <<>>
    /\ Replayed(journal[p]) # <<>>
    /\ entered' = [entered EXCEPT ![p] = Replayed(journal[p])]
    /\ acting' = [acting EXCEPT ![p] = Last(Replayed(journal[p]))]
    /\ UNCHANGED <<journal, copy, source, backup, faults>>

-----------------------------------------------------------------------------
(* The registry and the quarantine, both read and written in the source.   *)

EntryOf(p) == [range |-> RangeOf[p], purge |-> p]

Claims(registry, range) == {e \in registry : e.range = range}

\* Registry::record refuses a range that overlaps one already recorded.
MayRecord(registry, range) == \A e \in registry : e.range \cap range = {}

WithinGrace(h) == now < h.at + Grace

HeldFor(p) == {h \in source.held : h.purge = p}

\* Quarantine::reattach: the partition is hot again and its entry withdrawn, in one call.
Reattached(h) ==
    [attached |-> source.attached \cup RangeOf[h.purge],
     registry |-> source.registry \ Claims(source.registry, RangeOf[h.purge]),
     held     |-> source.held \ {h}]

Reattach(p) ==
    /\ \E h \in HeldFor(p) : WithinGrace(h) /\ source' = Reattached(h)
    /\ UNCHANGED <<journal, memory, copy, backup, faults>>

\* Mutant: a reaper content with any archive that touches the range.
ReleasedByOverlap(held) ==
    {h \in held : ~WithinGrace(h) /\ ~MayRecord(source.registry, RangeOf[h.purge])}

\* Quarantine::reap: what is past its grace and still claimed is released.
Released(held) == {h \in held : ~WithinGrace(h) /\ Claims(source.registry, RangeOf[h.purge]) # {}}

Reap ==
    /\ Released(source.held) # {}
    /\ source' = [source EXCEPT !.held = @ \ Released(@)]
    /\ UNCHANGED <<journal, memory, copy, backup, faults>>

(* What the caller does in each phase, and may do again after a resume.    *)

\* The entry is recorded once; a range somebody else's entry touches is refused.
Mark(p) ==
    IF EntryOf(p) \in source.registry
    THEN UNCHANGED source
    ELSE /\ MayRecord(source.registry, RangeOf[p])
         /\ source' = [source EXCEPT !.registry = @ \cup {EntryOf(p)}]

\* The attached partition leaves the live table for quarantine; one already gone stays gone.
Detach(p) ==
    IF RangeOf[p] \subseteq source.attached
    THEN source' = [source EXCEPT !.attached = @ \ RangeOf[p],
                                  !.held = @ \cup {[purge |-> p, at |-> now]}]
    ELSE UNCHANGED source

Act(p) ==
    /\ acting[p] # None
    /\ CASE acting[p] = "marked"   -> Mark(p)
         [] acting[p] = "detached" -> Detach(p)
         [] OTHER                  -> UNCHANGED source
    /\ entered' = [entered EXCEPT ![p] = Entered(@, acting[p])]
    /\ acting' = [acting EXCEPT ![p] = None]
    /\ UNCHANGED <<journal, copy, backup, faults>>

(* The world around: time, the switch, a backup of the source restored.    *)

Tick ==
    /\ now < MaxTime
    /\ now' = now + 1
    /\ UNCHANGED <<journal, memory, copy, source, backup, killed, rewrites, crashes>>

Switch ==
    /\ killed' = ~killed
    /\ UNCHANGED <<journal, memory, copy, source, backup, now, rewrites, crashes>>

BackUp ==
    /\ backup' = source
    /\ UNCHANGED <<journal, memory, copy, source, faults>>

\* The source goes back to the backup; the journal and the archives are outside it.
Restore ==
    /\ crashes < MaxCrashes
    /\ crashes' = crashes + 1
    /\ source' = backup
    /\ entered' = [p \in Purges |-> <<>>]
    /\ acting' = [p \in Purges |-> None]
    /\ UNCHANGED <<journal, copy, backup, killed, now, rewrites>>

Next ==
    \/ \E p \in Purges :
          \/ Begin(p) \/ Copy(p) \/ Verified(p) \/ Entering(p)
          \/ Rewrite(p) \/ Resume(p) \/ Act(p) \/ Reattach(p)
    \/ Crash \/ Reap \/ Tick \/ Switch \/ BackUp \/ Restore

Spec == Init /\ [][Next]_vars

-----------------------------------------------------------------------------
(* The plan of a query over both tiers, in one snapshot of the source.     *)

Covering(x) == {e \in source.registry : x \in e.range}

\* Where an ordinal is read: hot wins, and neither tier is a gap.
Read(x) ==
    IF x \in source.attached THEN "source"
    ELSE IF Covering(x) # {} THEN "archive"
    ELSE "gap"

-----------------------------------------------------------------------------
(* What must hold.                                                         *)

Traces == {SubSeq(Phases, 1, n) : n \in 0 .. 7}

\* Every variable has its type, and every purge in memory has entered a
\* prefix of the phases.
TypeOK ==
    /\ journal \in [Purges -> Seq(PhaseNames)]
    /\ entered \in [Purges -> Traces]
    /\ acting \in [Purges -> PhaseNames \cup {None}]
    /\ copy \in [Purges -> {"absent", "faithful", "flawed"}]
    /\ source \in Sources /\ backup \in Sources
    /\ killed \in BOOLEAN
    /\ now \in 0 .. MaxTime
    /\ rewrites \in 0 .. MaxRewrites /\ crashes \in 0 .. MaxCrashes

\* A journal is never behind its purge and never refused by resume: replayed,
\* it gives what the purge in memory has entered, with the phase it is acting
\* on ("the intent is durable before the action is attempted, always").
JournalLeads ==
    \A p \in Purges :
        /\ Replayed(journal[p]) # <<>>
        /\ entered[p] # <<>> =>
              Replayed(journal[p]) =
                  IF acting[p] = None THEN entered[p] ELSE Entered(entered[p], acting[p])

\* The data is never lost: an ordinal is attached, or detached and still on
\* disk, or in an archive the registry names and a comparison has proved.
NothingLost ==
    \A x \in Domain :
        \/ x \in source.attached
        \/ \E h \in source.held : x \in RangeOf[h.purge]
        \/ \E e \in source.registry : x \in e.range /\ copy[e.purge] = "faithful"

\* A query reads an ordinal from one place that has it, or fails: whatever it
\* would read from an archive has been proved, and one archive answers for it.
ReadsAreTrue ==
    \A x \in Domain : Read(x) = "archive" =>
        \E e \in source.registry : Covering(x) = {e} /\ copy[e.purge] = "faithful"

=============================================================================
