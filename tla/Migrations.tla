----------------------------- MODULE Migrations -----------------------------
(***************************************************************************)
(* Schema migrations: core/migrations.py, opened through                   *)
(* core/sqlite_policy.py and called by core/db.py at the first use of the  *)
(* database, by the lifecycle commands and by "pihole-ai db migrate".      *)
(*                                                                         *)
(* Every service, timer job and command is a migrator.  It reads the       *)
(* version outside a transaction and then applies what it found pending,   *)
(* one BEGIN IMMEDIATE transaction per version, so another migrator may be *)
(* ahead of it by then.  A transaction is one action: SQLite serialises    *)
(* them and rolls back the one whose process dies or whose call fails.     *)
(*                                                                         *)
(* Of the database the model keeps what a migration moves: one decision    *)
(* record of the old layout, imports of the old indicator table, and one   *)
(* feed with two generations.  Versions that only add tables, columns or   *)
(* indexes change nothing else.                                            *)
(*                                                                         *)
(* A definition Faulty_X is X with a fault that a change of the code could *)
(* introduce; no specification uses it.                                    *)
(***************************************************************************)
EXTENDS Naturals, FiniteSets, Sequences, FiniteSetsExt, Folds

CONSTANTS
    Migrators,      \* processes that open the database
    Supports,       \* Supports[m]: LATEST_SUPPORTED_SCHEMA_VERSION of m's code
    FirstVersions   \* schema versions the database may come with

\* Bounds on faults; every one is a guard.
CONSTANTS MaxBusy, MaxDeaths

ASSUME MigrationAssumption ==
    /\ Supports \in [Migrators -> Nat \ {0}]
    /\ FirstVersions \subseteq Nat

ASSUME MigrationBounds == {MaxBusy, MaxDeaths} \subseteq Nat

VARIABLES
    db,     \* the events database
    run,    \* migrate_connection of each process
    faults  \* how much of each bound is used

migrationVars == <<db, run, faults>>

Generations == {1, 2}
NoGeneration == 0

\* One feed source and its generations; hash 0 is the empty string.  delivered
\* lists the generations of its successful HTTP 200 updates, oldest first.
Feed == [active : Generations \cup {0}, remote : Generations \cup {0}, hash : 0 .. 2,
         hashOf : [Generations -> 1 .. 2], complete : SUBSET Generations,
         delivered : Seq(Generations)]

\* versions holds the rows of schema_migrations.  A record that is stored
\* becomes linked to its copies in decision_history; ref is the action row's
\* reference to it; imports are rows of threat_intel, adopted into a feed.
Database ==
    [versions : SUBSET (Nat \ {0}), fits : BOOLEAN, stored : BOOLEAN, linked : BOOLEAN,
     copies : Nat, ref : {"none", "legacy", "decision"},
     imports : BOOLEAN, adopted : BOOLEAN, feed : Feed]

Run == [pc : {"idle", "read", "apply", "done", "duplicate", "busy", "refused"},
        supports : Nat, next : Nat]

MigrationTypeOK ==
    /\ db \in Database
    /\ run \in [Migrators -> Run]
    /\ faults \in [busy : Nat, death : Nat]

CurrentVersion(d) == IF d.versions = {} THEN 0 ELSE Max(d.versions)

\* _valid_generation_for_source
Valid(feed, g) == g \in feed.complete

\* _latest_successful_http_generation
Candidate(feed) ==
    LET good == {i \in DOMAIN feed.delivered : Valid(feed, feed.delivered[i])}
    IN IF good = {} THEN NoGeneration ELSE feed.delivered[Max(good)]

-----------------------------------------------------------------------------
(* What the versions do to the data *)

Faulty_LinkRecord(d) ==
    IF d.stored /\ ~d.linked
    THEN [d EXCEPT !.copies = @ + 1, !.ref = IF @ = "legacy" THEN "decision" ELSE @]
    ELSE d

\* 5: the record becomes a decision of the history.
LinkRecord(d) ==
    IF d.stored /\ ~d.linked
    THEN [d EXCEPT !.linked = TRUE, !.copies = @ + 1,
                   !.ref = IF @ = "legacy" THEN "decision" ELSE @]
    ELSE d

\* 6: old imports become the generation of a feed of their own.
AdoptImports(d) == [d EXCEPT !.adopted = @ \/ d.imports]

\* 8: the generation the server last delivered is looked up by its hash.
FindRemote(d) ==
    LET matches == {g \in d.feed.complete : d.feed.hashOf[g] = d.feed.hash}
    IN IF d.feed.remote = NoGeneration /\ Cardinality(matches) = 1
       THEN [d EXCEPT !.feed.remote = CHOOSE g \in matches : TRUE]
       ELSE d

Faulty_RepairRemote(d) ==
    IF Candidate(d.feed) # NoGeneration /\ ~Valid(d.feed, d.feed.remote)
    THEN [d EXCEPT !.feed.remote = Candidate(d.feed),
                   !.feed.hash = d.feed.hashOf[Candidate(d.feed)]]
    ELSE d

\* 9: and set again where a rollback had overwritten it.
RepairRemote(d) ==
    LET feed == d.feed
        candidate == Candidate(feed)
        wrong == \/ ~Valid(feed, feed.remote)
                 \/ feed.remote = feed.active /\ candidate # feed.active
    IN IF candidate # NoGeneration /\ wrong
       THEN [d EXCEPT !.feed.remote = candidate, !.feed.hash = feed.hashOf[candidate]]
       ELSE d

Migrated(v, d) ==
    [ (CASE v = 5 -> LinkRecord(d)
         [] v = 6 -> AdoptImports(d)
         [] v = 8 -> FindRemote(d)
         [] v = 9 -> RepairRemote(d)
         [] OTHER -> d) EXCEPT !.versions = @ \cup {v}]

\* _apply_baseline refuses tables that miss a column.
Applies(v, d) == v = 1 => d.fits

-----------------------------------------------------------------------------
(* migrate_connection *)

\* A process that runs no migration, and how one ends.
NoRun == [pc |-> "idle", supports |-> 0, next |-> 0]
Ended(how) == [NoRun EXCEPT !.pc = how]

\* open_database, ensure_migration_table
Opened(v) == [pc |-> "read", supports |-> v, next |-> 0]

Open(m) ==
    /\ run[m].pc = "idle"
    /\ run' = [run EXCEPT ![m] = Opened(Supports[m])]
    /\ UNCHANGED <<db, faults>>

Faulty_AfterRead(m) ==
    LET before == CurrentVersion(db)
    IN CASE before > run[m].supports -> Ended("refused")
         [] before = run[m].supports -> Ended("done")
         [] OTHER -> [run[m] EXCEPT !.pc = "apply", !.next = Max({before, 1})]

\* What the version read says: the schema is newer, pending or done.
AfterRead(m) ==
    LET before == CurrentVersion(db)
    IN CASE before > run[m].supports -> Ended("refused")
         [] before = run[m].supports -> Ended("done")
         [] OTHER -> [run[m] EXCEPT !.pc = "apply", !.next = before + 1]

ReadVersion(m) ==
    /\ run[m].pc = "read"
    /\ run' = [run EXCEPT ![m] = AfterRead(m)]
    /\ UNCHANGED <<db, faults>>

AfterApply(m) ==
    IF run[m].next = run[m].supports THEN Ended("done")
                                     ELSE [run[m] EXCEPT !.next = @ + 1]

Apply(m) ==
    /\ run[m].pc = "apply"
    /\ run[m].next \notin db.versions
    /\ Applies(run[m].next, db)
    /\ db' = Migrated(run[m].next, db)
    /\ run' = [run EXCEPT ![m] = AfterApply(m)]
    /\ UNCHANGED faults

\* Another migrator was first: the row's primary key is taken.
Duplicate(m) ==
    /\ run[m].pc = "apply"
    /\ run[m].next \in db.versions
    /\ Applies(run[m].next, db)
    /\ run' = [run EXCEPT ![m] = Ended("duplicate")]
    /\ UNCHANGED <<db, faults>>

Incompatible(m) ==
    /\ run[m].pc = "apply"
    /\ ~Applies(run[m].next, db)
    /\ run' = [run EXCEPT ![m] = Ended("refused")]
    /\ UNCHANGED <<db, faults>>

Faulty_AfterBusy(m) ==
    IF run[m].pc = "apply" THEN AfterApply(m) ELSE Ended("busy")

\* A transaction that failed is rolled back and ends the migration; its version, or 0
\* before the first one, says where it was.
AfterBusy(m) == [Ended("busy") EXCEPT !.next = run[m].next]

\* The write lock is not free within the busy timeout.
Busy(m) ==
    /\ run[m].pc \in {"read", "apply"}
    /\ faults.busy < MaxBusy
    /\ faults' = [faults EXCEPT !.busy = @ + 1]
    /\ run' = [run EXCEPT ![m] = AfterBusy(m)]
    /\ UNCHANGED db

Die(m) ==
    /\ run[m].pc \in {"read", "apply"}
    /\ faults.death < MaxDeaths
    /\ faults' = [faults EXCEPT !.death = @ + 1]
    /\ run' = [run EXCEPT ![m] = NoRun]
    /\ UNCHANGED db

\* systemd starts a service that could not open its database again.
Restart(m) ==
    /\ run[m].pc \in {"duplicate", "busy", "refused"}
    /\ run' = [run EXCEPT ![m] = NoRun]
    /\ UNCHANGED <<db, faults>>

Migrate(m) == ReadVersion(m) \/ Apply(m) \/ Duplicate(m) \/ Incompatible(m)

-----------------------------------------------------------------------------

\* The feed as updates and rollbacks of versions 6 to 8 leave it: the hash is
\* that of the last delivery, or after a rollback that of the active generation.
FirstFeed(v) ==
    {f \in [active : Generations \cup {0}, remote : Generations \cup {0}, hash : 0 .. 2,
            hashOf : [Generations -> 1 .. 2], complete : SUBSET Generations,
            delivered : {<<>>} \cup {<<g>> : g \in Generations}
                               \cup (Generations \X Generations)] :
        /\ v \notin 6 .. 8 => f.delivered = <<>> /\ f.complete = {} /\ f.hashOf = [g \in Generations |-> 1]
        /\ v < 8 => f.remote = NoGeneration
        /\ f.active = NoGeneration <=> f.delivered = <<>>
        /\ f.delivered = <<>> => f.remote = NoGeneration
        /\ f.remote # NoGeneration => f.remote \in f.complete
        /\ f.active # NoGeneration => f.active \in f.complete
        /\ f.hash = LET of == IF f.remote # NoGeneration THEN f.remote ELSE f.active
                    IN IF of = NoGeneration THEN 0 ELSE f.hashOf[of]}

FirstDatabases ==
    {[versions |-> 1 .. v, fits |-> fits, stored |-> stored, linked |-> stored /\ v >= 5,
      copies |-> IF stored /\ v >= 5 THEN 1 ELSE 0,
      ref |-> CASE stored /\ v = 4 -> "legacy"
                [] stored /\ v > 4 -> "decision"
                [] OTHER           -> "none",
      imports |-> imports, adopted |-> imports /\ v >= 6, feed |-> f] :
        v \in FirstVersions, fits \in BOOLEAN, stored \in BOOLEAN,
        imports \in BOOLEAN, f \in UNION {FirstFeed(w) : w \in FirstVersions}}

MigrationInit ==
    /\ db \in {d \in FirstDatabases :
                   /\ d.feed \in FirstFeed(CurrentVersion(d))
                   /\ d.versions # {} => d.fits
                   /\ d.stored => CurrentVersion(d) >= 3
                   /\ d.imports => d.fits}
    /\ run = [m \in Migrators |-> NoRun]
    /\ faults = [busy |-> 0, death |-> 0]

MigrationNext ==
    \E m \in Migrators :
        \/ Open(m) \/ ReadVersion(m) \/ Apply(m) \/ Duplicate(m)
        \/ Incompatible(m) \/ Busy(m) \/ Die(m) \/ Restart(m)

\* A migrator runs until its migration ends and systemd restarts it after that.
MigrationFairness ==
    \A m \in Migrators : WF_migrationVars(Open(m) \/ Migrate(m) \/ Restart(m))

MigrationSpec == MigrationInit /\ [][MigrationNext]_migrationVars
FairMigrationSpec == MigrationSpec /\ MigrationFairness

-----------------------------------------------------------------------------
(* Properties *)

\* No version is skipped: whatever fails, dies or races, the rows of
\* schema_migrations are those of versions 1 to the current one, so the
\* version read as MAX(version) says what the schema has.
VersionsArePrefix == db.versions = 1 .. CurrentVersion(db)

\* A decision of the old layout is neither lost nor doubled by version 5, and
\* the action that was taken on it refers to its copy.
RecordLinkedOnce ==
    db.stored /\ CurrentVersion(db) >= 5
        => db.linked /\ db.copies = 1 /\ db.ref # "legacy"

\* From version 9 on a feed that has a usable delivery knows the generation its
\* server last delivered, under that generation's hash: a 304 is about it.
RemoteIsUsable ==
    CurrentVersion(db) >= 9 /\ Candidate(db.feed) # NoGeneration
        => /\ Valid(db.feed, db.feed.remote)
           /\ db.feed.hash = db.feed.hashOf[db.feed.remote]
           /\ db.feed.remote = db.feed.active => Candidate(db.feed) = db.feed.active

\* A database whose tables fit, and that no newer code wrote, reaches the
\* newest version some process supports, although the first to migrate may
\* lose races, find the database busy or die.
ReachesLatest ==
    db.fits /\ CurrentVersion(db) <= Max({Supports[m] : m \in Migrators})
        ~> CurrentVersion(db) = Max({Supports[m] : m \in Migrators})

=============================================================================
