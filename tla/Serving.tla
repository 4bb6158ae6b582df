------------------------------ MODULE Serving ------------------------------
(***************************************************************************)
(* What a statement reads: the list of servable tables every statement     *)
(* refreshes and publishes, the log cache it goes through, the adoption    *)
(* of tables that appear while the server runs, and the clones that are    *)
(* created and dropped beside it.  Source: src/crates/sankhya-server/src   *)
(* (wiring.rs, warehouse.rs, adopt.rs), sankhya-table-delta/src/cache.rs,  *)
(* sankhya-readpath/src/provider.rs, sankhya-clone/src.                    *)
(*                                                                         *)
(* Abstracted: version n of an ordinary table holds the files 1 .. n; a    *)
(* clone's log holds its lineage and no file.  A lookup in the cache is    *)
(* one step: it holds the table's own lock, and a log only grows.  A call  *)
(* that fails is answered as the code answers it, which is with what it    *)
(* has.  Names, schemas and authorization are left out.                    *)
(***************************************************************************)
EXTENDS Integers

CONSTANTS
    Standing,    \* ordinary tables that are there when the server starts
    Arriving,    \* ordinary tables a feed creates while it runs
    Names,       \* the names a clone may have
    Statements,  \* statements in flight
    MaxDepth,    \* MAX_CLONE_DEPTH: how many lineages a walk follows
    MaxVersion,  \* bound: the last version of an ordinary table
    MaxDefined,  \* bound: clones asked to be created or dropped
    MaxFaults    \* bound: calls that fail

Tables == Standing \cup Arriving
Roots  == Tables \cup Names

ServingAssumption ==
    /\ Standing \cap Arriving = {} /\ Tables \cap Names = {}
    /\ MaxDepth \in Nat \ {0}
    /\ MaxVersion \in Nat /\ MaxDefined \in Nat /\ MaxFaults \in Nat

ASSUME ServingAssumption

VARIABLES
    log,      \* the log under each root: its newest version, or a clone's lineage
    cache,    \* LogCache: the replay kept for each table; a clone's holds no file
    servable, \* the list of servable tables the server holds
    at,       \* where each statement is
    list,     \* the list each statement works on
    todo,     \* the tables it has left to look at
    now,      \* the version it has just been told of
    found,    \* the tables it discovered and has not seen before, or the one it is resolving
    moved,    \* whether it has changed its list
    asked,    \* the data definition it is in the middle of
    created,  \* how often each name has been given
    defined,  \* counts the definitions that were asked for
    faults,   \* counts the calls that failed
    began,    \* history: the version each table stood at when a statement began, -1 of one
              \* that was not there or has been removed since
    failed,   \* history: the tables a call of a statement has failed on
    severed   \* history: clones from under which something was removed, or was never there

mine == <<at, list, todo, now, found, moved, asked>>
kept == <<faults, failed>>
given == <<created, defined>>
vars == <<log, cache, servable, given, mine, began, kept, severed>>

Absent == [kind |-> "absent"]
Plain  == [kind |-> "plain"]
Table(version) == [kind |-> "table", version |-> version]

\* What a clone inherits: an origin, and the version of it that it reads.
From(origin, version) == [kind |-> "clone", origin |-> origin, version |-> version]

Lineages == [kind : {"clone"}, origin : Roots, version : 0 .. MaxVersion]

\* A clone in the warehouse: its lineage; history: where its files really were when it
\* was made, and how many lineages lead there.
Cloned == [kind : {"clone"}, lineage : Lineages, root : Lineages, depth : Nat \ {0}]

Exists(r)  == log[r].kind # "absent"
IsClone(r) == log[r].kind = "clone"
Newest(r)  == CASE log[r].kind = "table" -> log[r].version
                [] log[r].kind = "clone" -> 0
                [] OTHER                 -> -1
FilesOf(r) == IF log[r].kind = "table" THEN 1 .. log[r].version ELSE {}

Cold == [version |-> -1, files |-> {}]

\* An open table: what it inherits, its own files, the version it is known at; history:
\* whether its lineage was not read, or its version was asked for after another commit.
Open == [inherited : Lineages \cup {Plain}, files : SUBSET (1 .. MaxVersion),
         resolved_at : 0 .. MaxVersion, flaw : {"none", "unread", "overtaken"}]

Unopened == [inherited |-> Plain, files |-> {}, resolved_at |-> 0, flaw |-> "none"]

TypeOK ==
    /\ log \in [Roots -> {Absent} \cup {Table(v) : v \in 0 .. MaxVersion} \cup Cloned]
    /\ cache \in [Tables -> [version : -1 .. MaxVersion, files : SUBSET (1 .. MaxVersion)]]
    /\ DOMAIN servable \subseteq Roots /\ \A r \in DOMAIN servable : servable[r] \in Open
    /\ at \in [Statements -> {"idle", "refresh", "resolve", "adopt", "version", "read",
                              "creating", "dropping"}]
    /\ \A s \in Statements :
          /\ DOMAIN list[s] \subseteq Roots
          /\ \A r \in DOMAIN list[s] : list[s][r] \in Open
          /\ todo[s] \subseteq Tables /\ DOMAIN found[s] \subseteq Roots
    /\ now \in [Statements -> 0 .. MaxVersion] /\ moved \in [Statements -> BOOLEAN]
    /\ created \in [Names -> Nat] /\ defined \in 0 .. MaxDefined /\ faults \in 0 .. MaxFaults
    /\ began \in [Statements -> [Roots -> -1 .. MaxVersion]]
    /\ failed \in [Statements -> SUBSET Roots] /\ severed \in SUBSET Names

Nothing == [r \in {} |-> Unopened]

NotBegun == [r \in Roots |-> -1]

Init ==
    /\ log = [r \in Roots |-> IF r \in Standing THEN Table(0) ELSE Absent]
    /\ cache = [t \in Tables |-> Cold]
    /\ servable = [r \in Standing |-> Unopened]
    /\ at = [s \in Statements |-> "idle"]
    /\ list = [s \in Statements |-> Nothing]
    /\ todo = [s \in Statements |-> {}]
    /\ now = [s \in Statements |-> 0]
    /\ found = [s \in Statements |-> Nothing]
    /\ moved = [s \in Statements |-> FALSE]
    /\ asked = [s \in Statements |-> Absent]
    /\ created = [n \in Names |-> 0] /\ defined = 0
    /\ faults = 0
    /\ began = [s \in Statements |-> NotBegun]
    /\ failed = [s \in Statements |-> {}]
    /\ severed = {}

\* A call of a statement fails, on some tables.
Fails(s, tables) ==
    /\ faults < MaxFaults /\ faults' = faults + 1
    /\ failed' = [failed EXCEPT ![s] = @ \cup tables]

-----------------------------------------------------------------------------
(* The log cache.                                                          *)

\* Mutant: an advance that starts one commit too late.
LookupPastOne(t) ==
    LET held == cache[t]
    IN  IF held.version > Newest(t) \/ held.version = -1
          THEN [version |-> Newest(t), files |-> FilesOf(t)]
          ELSE [version |-> Newest(t),
                files |-> held.files \cup {f \in FilesOf(t) : f > held.version + 1}]

\* What the cache holds of a table once it has looked: a replay the log is behind is
\* thrown away, any other is advanced over the commits after it.
Lookup(t) ==
    LET held == IF cache[t].version > Newest(t) THEN Cold ELSE cache[t]
    IN  [version |-> Newest(t),
         files   |-> held.files \cup {f \in FilesOf(t) : f > held.version}]

\* A look that fails answers nothing, and leaves the replay as it was or thrown away ...
LookFails(r) == cache' \in {cache, [t \in Tables |-> IF t = r THEN Cold ELSE cache[t]]}

\* ... unless it is the probe that fails, which is taken for no commit after those it
\* has: then it answers with what is kept.
LooksNoFurther(t) == t \in Tables /\ cache[t].version # -1 /\ UNCHANGED cache

-----------------------------------------------------------------------------
(* Lineages.                                                               *)

\* Walk from a lineage to where the files are: the first origin that is not a clone,
\* with so many lineages left to follow.
Rooted[left \in 0 .. MaxDepth] ==
    [l \in Lineages |->
        IF left = 0 \/ ~Exists(l.origin) THEN Plain
        ELSE IF IsClone(l.origin) THEN Rooted[left - 1][log[l.origin].lineage]
        ELSE l]

\* Mutant: one step up, wherever that is.
InheritedOneUp(r) == IF IsClone(r) THEN log[r].lineage ELSE Plain

\* What the table at r inherits; nothing when its lineage leads nowhere.
Inherited(r) == IF IsClone(r) THEN Rooted[MaxDepth][log[r].lineage] ELSE Plain

\* The clones of any of S.
ClonesOf(S) == {c \in Names : IsClone(c) /\ log[c].lineage.origin \in S}

\* Every clone of r, or of one of those, by the lineages of the tables that could be
\* read: what a walk from r over them reaches.
Dependents(r, read) ==
    {c \in read \ {r} :
        \A S \in SUBSET Names : ClonesOf(S \cup {r}) \cap read \subseteq S => c \in S}

-----------------------------------------------------------------------------
(* A statement refreshes the list, adopts what is new and publishes it.    *)

\* refreshed_servable takes the list as it is now, and looks at every table in it.  A
\* clone stays as it was resolved: its log is at version zero still, or is gone.
Begin(s) ==
    /\ at[s] = "idle"
    /\ at' = [at EXCEPT ![s] = "refresh"]
    /\ list' = [list EXCEPT ![s] = servable]
    /\ todo' = [todo EXCEPT ![s] = DOMAIN servable \cap Tables]
    /\ began' = [began EXCEPT ![s] = [r \in Roots |-> Newest(r)]]
    /\ UNCHANGED <<log, cache, servable, given, now, found, moved, asked, kept, severed>>

\* One table has been looked at: it is resolved again when its version has changed.
Looked(s, t, version) ==
    /\ IF version = list[s][t].resolved_at
       THEN /\ todo' = [todo EXCEPT ![s] = @ \ {t}]
            /\ UNCHANGED <<at, now, found>>
       ELSE /\ at' = [at EXCEPT ![s] = "resolve"]
            /\ now' = [now EXCEPT ![s] = version]
            /\ found' = [found EXCEPT ![s] = [x \in {t} |-> Unopened]]
            /\ UNCHANGED todo
    /\ UNCHANGED <<log, servable, given, list, moved, asked, began, severed>>

Refresh(s, t) ==
    /\ at[s] = "refresh" /\ t \in todo[s]
    /\ cache' = [cache EXCEPT ![t] = Lookup(t)]
    /\ Looked(s, t, Newest(t))
    /\ UNCHANGED kept

\* A table that cannot be looked at is taken to stand where it stood.
RefreshFails(s, t) ==
    /\ at[s] = "refresh" /\ t \in todo[s]
    /\ Fails(s, {t})
    /\ \/ LookFails(t) /\ Looked(s, t, list[s][t].resolved_at)
       \/ LooksNoFurther(t) /\ Looked(s, t, cache[t].version)

\* It has been tried to resolve one: whichever provider the list has now, it goes on.
Tried(s, t) ==
    /\ todo' = [todo EXCEPT ![s] = @ \ {t}]
    /\ found' = [found EXCEPT ![s] = Nothing]
    /\ now' = [now EXCEPT ![s] = 0]
    /\ at' = [at EXCEPT ![s] = "refresh"]
    /\ UNCHANGED <<log, servable, given, asked, began, severed>>

\* A table again, with these files, recorded at the version looked up before.
Again(open, files, version) ==
    [open EXCEPT !.files = files, !.resolved_at = version,
                 !.flaw = IF @ = "overtaken" THEN "none" ELSE @]

Resolved(s, t, files) ==
    /\ list' = [list EXCEPT ![s][t] = Again(@, files, now[s])]
    /\ moved' = [moved EXCEPT ![s] = TRUE]

\* resolve_cached: the table again, through the cache, recorded at the version
\* that made it look stale.
Resolve(s, t) ==
    /\ at[s] = "resolve" /\ t \in DOMAIN found[s]
    /\ cache' = [cache EXCEPT ![t] = Lookup(t)]
    /\ Resolved(s, t, Lookup(t).files)
    /\ Tried(s, t)
    /\ UNCHANGED kept

\* A table that will not resolve keeps the provider it has.
ResolveFails(s, t) ==
    /\ at[s] = "resolve" /\ t \in DOMAIN found[s]
    /\ Fails(s, {t})
    /\ \/ LookFails(t) /\ UNCHANGED <<list, moved>>
       \/ LooksNoFurther(t) /\ Resolved(s, t, cache[t].files)
    /\ Tried(s, t)

\* A table the walk has found, with what it inherits.
Seen(r) == [Unopened EXCEPT !.inherited = Inherited(r)]

\* The walk goes over everything in the warehouse, and leaves what the list has already.
Walked(s, tables) ==
    /\ at[s] = "refresh" /\ todo[s] = {}
    /\ found' = [found EXCEPT ![s] = tables]
    /\ at' = [at EXCEPT ![s] = "adopt"]
    /\ UNCHANGED <<log, cache, servable, given, list, todo, now, moved, asked, began, severed>>

Unlisted(s) == {r \in Roots : Exists(r)} \ DOMAIN list[s]

\* new_tables: walk the warehouse for tables the list does not have.
Discover(s) == Walked(s, [r \in Unlisted(s) |-> Seen(r)]) /\ UNCHANGED kept

\* The walk passes over what it cannot read, be it a table or a schema of them, and
\* takes a clone whose lineage it cannot follow for a table of its own.
DiscoverFails(s) ==
    \/ \E unread \in SUBSET Unlisted(s) :
          /\ Walked(s, [r \in Unlisted(s) \ unread |-> Seen(r)])
          /\ Fails(s, unread)
    \/ \E c \in Unlisted(s) :
          /\ IsClone(c)
          /\ Walked(s, [r \in Unlisted(s) |->
                          IF r = c THEN [Unopened EXCEPT !.flaw = "unread"] ELSE Seen(r)])
          /\ Fails(s, {})

\* One of them is dealt with, opened or refused.
WithoutFound(s, r) == [found EXCEPT ![s] = [x \in DOMAIN @ \ {r} |-> @[x]]]

\* One of them is opened with these files; its version is asked for next.
Opened(s, r, files) ==
    /\ found' = [found EXCEPT ![s][r].files = files]
    /\ todo' = [todo EXCEPT ![s] = {r}]
    /\ at' = [at EXCEPT ![s] = "version"]

\* servable: open a table.
Adopt(s, t) ==
    /\ at[s] = "adopt" /\ t \in DOMAIN found[s] \cap Tables
    /\ cache' = [cache EXCEPT ![t] = Lookup(t)]
    /\ Opened(s, t, Lookup(t).files)
    /\ UNCHANGED <<log, servable, given, list, now, moved, asked, began, kept, severed>>

\* One whose log cannot be read is refused, and so is a clone of such a one.
AdoptFails(s, r) ==
    /\ at[s] = "adopt" /\ r \in DOMAIN found[s]
    /\ Fails(s, {r})
    /\ \/ LookFails(r) /\ found' = WithoutFound(s, r) /\ UNCHANGED <<at, todo>>
       \/ LooksNoFurther(r) /\ Opened(s, r, cache[r].files)
    /\ UNCHANGED <<log, servable, given, list, now, moved, asked, began, severed>>

\* It is added to the list, opened so.
Added(s, r, opened) ==
    /\ list' = [list EXCEPT ![s] =
                  [x \in DOMAIN @ \cup {r} |-> IF x = r THEN opened ELSE @[x]]]
    /\ found' = WithoutFound(s, r)
    /\ moved' = [moved EXCEPT ![s] = TRUE]
    /\ UNCHANGED <<log, cache, servable, given, now, asked, began, severed>>

\* Mutant: a log that is gone has no version.
VersionOrNone(r) == Newest(r)

\* The version a log says it is at; one that is gone is taken to be at zero.
VersionSaid(r) == IF Exists(r) THEN Newest(r) ELSE 0

\* A table is added at this version.
AddedAt(s, t, version) ==
    /\ at[s] = "version" /\ t \in todo[s]
    /\ Added(s, t, [found[s][t] EXCEPT
                       !.resolved_at = version,
                       !.flaw = IF 1 .. version \subseteq found[s][t].files THEN @ ELSE "overtaken"])
    /\ todo' = [todo EXCEPT ![s] = {}]
    /\ at' = [at EXCEPT ![s] = "adopt"]

\* servable goes on to ask its log again which version that was.
Adopted(s, t) == AddedAt(s, t, VersionSaid(t)) /\ UNCHANGED kept

\* A log that cannot be read does not say, and is taken to be at zero too.
AdoptedUnasked(s, t) == AddedAt(s, t, 0) /\ Fails(s, {})

\* servable: open a clone.  What it inherits is a table's at one version, which nothing
\* takes away, and its own log is read for nothing but a version that stays zero.
AdoptClone(s, c) ==
    /\ at[s] = "adopt" /\ c \in DOMAIN found[s] \cap Names
    /\ Added(s, c, [found[s][c] EXCEPT !.resolved_at = VersionSaid(c)])
    /\ UNCHANGED <<at, todo, kept>>

\* The list that changed replaces the server's, whoever else has replaced it.
Publish(s) ==
    /\ at[s] = "adopt" /\ DOMAIN found[s] = {}
    /\ servable' = IF moved[s] THEN list[s] ELSE servable
    /\ at' = [at EXCEPT ![s] = "read"]
    /\ moved' = [moved EXCEPT ![s] = FALSE]
    /\ UNCHANGED <<log, cache, given, list, todo, now, found, asked, began, kept, severed>>

\* The statement has read what its list names.
Finish(s) ==
    /\ at[s] = "read"
    /\ at' = [at EXCEPT ![s] = "idle"]
    /\ list' = [list EXCEPT ![s] = Nothing]
    /\ began' = [began EXCEPT ![s] = NotBegun]
    /\ failed' = [failed EXCEPT ![s] = {}]
    /\ UNCHANGED <<log, cache, servable, given, todo, now, found, moved, asked, faults, severed>>

-----------------------------------------------------------------------------
(* Data definition: clones are created and dropped, and nothing keeps two  *)
(* statements from doing so at once.                                       *)

\* may_clone: a version the origin has reached; it retains every one.
MayClone(origin, version) == version <= Newest(origin)

\* A definition has been looked into and is about to be carried out.
Decided(s, what, step) ==
    /\ at[s] = "idle"
    /\ defined < MaxDefined /\ defined' = defined + 1
    /\ asked' = [asked EXCEPT ![s] = what]
    /\ at' = [at EXCEPT ![s] = step]
    /\ UNCHANGED <<log, cache, servable, created, list, todo, now, found, moved, began, severed>>

\* It is over.
Over(s) ==
    /\ at' = [at EXCEPT ![s] = "idle"]
    /\ asked' = [asked EXCEPT ![s] = Absent]
    /\ UNCHANGED <<cache, servable, defined, list, todo, now, found, moved>>

\* create_clone_table up to its commit: the name is free, the version exists.
Create(s, name, origin, version) ==
    /\ Exists(origin) /\ ~Exists(name) /\ MayClone(origin, version)
    /\ Decided(s, [name |-> name, lineage |-> From(origin, version)], "creating")
    /\ UNCHANGED kept

\* The clone a lineage makes.
NewClone(lineage) ==
    IF IsClone(lineage.origin)
    THEN LET above == log[lineage.origin]
         IN  [kind |-> "clone", lineage |-> lineage, root |-> above.root, depth |-> above.depth + 1]
    ELSE [kind |-> "clone", lineage |-> lineage, root |-> lineage, depth |-> 1]

\* write_clone: version zero is claimed, unless somebody has it.
Created(s) ==
    /\ at[s] = "creating"
    /\ LET name == asked[s].name
           origin == asked[s].lineage.origin
       IN  \/ /\ Exists(name)
              /\ UNCHANGED <<log, created, severed>>
           \/ /\ ~Exists(name)
              /\ created' = [created EXCEPT ![name] = @ + 1]
              /\ log' = [log EXCEPT ![name] = NewClone(asked[s].lineage)]
              /\ severed' = IF Exists(origin) /\ origin \notin severed
                            THEN severed \ {name} ELSE severed \cup {name}
    /\ Over(s)
    /\ UNCHANGED <<began, kept>>

\* may_drop: nothing that could be read is a clone of it.
MayDrop(name, read) == Dependents(name, read) = {}

\* drop_clone up to the removal.
Drop(s, name) ==
    /\ IsClone(name) /\ MayDrop(name, Names)
    /\ Decided(s, [name |-> name], "dropping")
    /\ UNCHANGED kept

\* A clone that cannot be read is passed over, and so nothing reads its origin.
DropUnseeing(s, name) ==
    /\ IsClone(name) /\ \E unread \in Names \ {name} : MayDrop(name, Names \ {unread})
    /\ Decided(s, [name |-> name], "dropping")
    /\ Fails(s, {})

\* remove_dir_all, of whatever has the name by now.
Dropped(s) ==
    /\ at[s] = "dropping"
    /\ LET name == asked[s].name
       IN  /\ log' = [log EXCEPT ![name] = Absent]
           /\ began' = [q \in Statements |-> [began[q] EXCEPT ![name] = -1]]
           /\ severed' = (severed \cup Dependents(name, Names)) \ {name}
    /\ Over(s)
    /\ UNCHANGED <<created, kept>>

\* The clone cannot be written, or cannot be removed; one that could be in part is as
\* if it could, since nothing here looks at the answer.
DefineFails(s) ==
    /\ at[s] \in {"creating", "dropping"}
    /\ Fails(s, {})
    /\ Over(s)
    /\ UNCHANGED <<log, created, began, severed>>

\* A feed commits to a table, or creates it.
Commit(t) ==
    /\ Newest(t) < MaxVersion
    /\ log' = [log EXCEPT ![t] = Table(Newest(t) + 1)]
    /\ UNCHANGED <<cache, servable, given, mine, began, kept, severed>>

Next ==
    \/ \E s \in Statements :
          \/ Begin(s) \/ Discover(s) \/ DiscoverFails(s) \/ Publish(s) \/ Finish(s)
          \/ \E t \in Tables :
                \/ Refresh(s, t) \/ RefreshFails(s, t)
                \/ Resolve(s, t) \/ ResolveFails(s, t)
                \/ Adopt(s, t) \/ Adopted(s, t) \/ AdoptedUnasked(s, t)
          \/ \E r \in Roots : AdoptFails(s, r)
          \/ Created(s) \/ Dropped(s) \/ DefineFails(s)
          \/ \E n \in Names :
                \/ AdoptClone(s, n)
                \/ Drop(s, n) \/ DropUnseeing(s, n)
                \/ \E o \in Roots, v \in 0 .. MaxVersion : Create(s, n, o, v)
    \/ \E t \in Tables : Commit(t)

Spec == Init /\ [][Next]_vars

-----------------------------------------------------------------------------
(* Properties.                                                             *)

\* There from the moment the statement began until now, and not made anew.
Throughout(s, r) == began[s][r] # -1

\* A statement reads every ordinary table whole at one version, whatever other
\* statements published meanwhile.  It reads every one that was there when it began,
\* and at a version no older than the one that stood at then, but for two: a table a
\* call has failed on, which is read as it was, or not at all; and one that was adopted
\* while a commit overtook it, until the commit after.
ReadsAreFresh ==
    \A s \in Statements : at[s] = "read" =>
        \A t \in Tables :
            /\ t \in DOMAIN list[s] =>
                  \E v \in 0 .. MaxVersion : list[s][t].files = 1 .. v
            /\ Throughout(s, t) /\ t \notin failed[s] =>
                  /\ t \in DOMAIN list[s]
                  /\ \/ list[s][t].flaw = "overtaken"
                     \/ \E v \in began[s][t] .. MaxVersion : list[s][t].files = 1 .. v

\* A statement that reads a clone reads the version of the table that holds its files
\* that the clone was made at: through any chain of clones, whatever is defined at the
\* same time, and through every refresh of the list.  That is of the first clone to have
\* its name, of which nothing was removed from under it, nor its lineage unreadable when
\* it was found, and with no longer a chain than a walk follows.
ClonesReadTheirVersion ==
    \A s \in Statements : at[s] = "read" =>
        \A c \in Names :
            /\ Throughout(s, c)
            /\ created[c] = 1 /\ c \notin severed /\ log[c].depth <= MaxDepth
            => /\ c \in DOMAIN list[s] \cup failed[s]
               /\ c \in DOMAIN list[s] =>
                     list[s][c].flaw = "unread" \/ list[s][c].inherited = log[c].root

\* No clone outlives what it reads: its origin is there as long as it is.
OriginsOutliveClones ==
    \A c \in Names : IsClone(c) => Exists(log[c].lineage.origin)
=============================================================================
