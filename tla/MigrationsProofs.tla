-------------------------- MODULE MigrationsProofs --------------------------
(* Theorems about Migrations, for every number of migrators, every version   *)
(* their code supports and every version the database may come with.         *)
EXTENDS Migrations, FiniteSetTheorems, WellFoundedInduction, TLAPS

-----------------------------------------------------------------------------
(* Versions *)

\* MAX(version) of the rows 1 to n is n.
LEMMA MaxOfPrefix ==
    ASSUME NEW n \in Nat, NEW d, d.versions = 1 .. n
    PROVE  CurrentVersion(d) = n
<1>1. CASE n = 0
  BY <1>1 DEF CurrentVersion
<1>2. CASE n # 0
  <2>1. n \in d.versions /\ \A i \in d.versions : n >= i
    BY <1>2
  <2>2. Max(d.versions) \in d.versions /\ \A i \in d.versions : Max(d.versions) >= i
    BY <2>1 DEF Max
  <2>3. Max(d.versions) = n
    BY <2>1, <2>2
  <2> QED
    BY <1>2, <2>1, <2>3 DEF CurrentVersion
<1> QED
  BY <1>1, <1>2

\* The rows are a prefix up to some version.
Prefix(d) == \E n \in Nat : d.versions = 1 .. n

LEMMA PrefixIsVersions ==
    ASSUME NEW d, Prefix(d)
    PROVE  CurrentVersion(d) \in Nat /\ d.versions = 1 .. CurrentVersion(d)
BY MaxOfPrefix DEF Prefix

\* A migrator is never more than one version ahead of the database, and what it
\* goes on with is a version its code supports.
NextIsNear ==
    \A m \in Migrators :
        run[m].pc = "apply" =>
            /\ run[m].next \in 1 .. CurrentVersion(db) + 1
            /\ run[m].next <= run[m].supports

\* A newest version that is one further.
LEMMA PrefixGrows ==
    ASSUME NEW d, NEW e, Prefix(d), NEW v \in Nat, v \notin d.versions,
           v \in 1 .. CurrentVersion(d) + 1, e.versions = d.versions \cup {v}
    PROVE  Prefix(e) /\ CurrentVersion(e) = CurrentVersion(d) + 1 /\ v = CurrentVersion(e)
<1>1. CurrentVersion(d) \in Nat /\ d.versions = 1 .. CurrentVersion(d)
  BY PrefixIsVersions
<1>2. v = CurrentVersion(d) + 1
  BY <1>1
<1>3. e.versions = 1 .. CurrentVersion(d) + 1
  BY <1>1, <1>2
<1>4. CurrentVersion(e) = CurrentVersion(d) + 1
  BY <1>1, <1>3, MaxOfPrefix
<1> QED
  BY <1>1, <1>2, <1>3, <1>4 DEF Prefix

-----------------------------------------------------------------------------
(* Data *)

\* A set of positions of a sequence has a greatest one.
LEMMA GreatestPosition ==
    ASSUME NEW n \in Nat, NEW S \in SUBSET (1 .. n), S # {}
    PROVE  Max(S) \in S
<1> DEFINE R == OpToRel(<, Nat)
           T == {n - k : k \in S}
<1>1. \E x \in T : \A y \in T : ~(<<y, x>> \in R)
  <2>1. T \subseteq Nat /\ T # {}
    OBVIOUS
  <2>2. IsWellFoundedOn(R, Nat)
    BY NatLessThanWellFounded
  <2> HIDE DEF R, T
  <2> QED
    BY <2>1, <2>2, WFMin
<1>2. PICK x \in T : \A y \in T : ~(<<y, x>> \in R)
  BY <1>1
<1>3. PICK k \in S : x = n - k
  BY <1>2
<1>4. \A i \in S : k >= i
  <2> SUFFICES ASSUME NEW i \in S, ~(k >= i) PROVE FALSE
    OBVIOUS
  <2>1. n - i \in Nat /\ n - k \in Nat /\ n - i < n - k
    BY <1>3
  <2>2. <<n - i, n - k>> \in R
    BY <2>1 DEF OpToRel
  <2> QED
    BY <1>2, <1>3, <2>2
<1> QED
  BY <1>4 DEF Max

\* The generation an update looks up is usable, or there is none.
LEMMA CandidateValid ==
    ASSUME NEW f \in Feed
    PROVE  \/ Candidate(f) = NoGeneration
           \/ Candidate(f) \in Generations /\ Valid(f, Candidate(f))
<1> DEFINE good == {i \in DOMAIN f.delivered : Valid(f, f.delivered[i])}
<1>1. CASE good = {}
  BY <1>1 DEF Candidate
<1>2. CASE good # {}
  <2>1. PICK n \in Nat : DOMAIN f.delivered = 1 .. n
    BY DEF Feed
  <2>2. Max(good) \in good
    BY <1>2, <2>1, GreatestPosition
  <2>3. Candidate(f) = f.delivered[Max(good)]
    BY <1>2 DEF Candidate
  <2>4. \A i \in DOMAIN f.delivered : f.delivered[i] \in Generations
    BY DEF Feed
  <2> HIDE DEF good
  <2> QED
    BY <2>2, <2>3, <2>4 DEF good
<1> QED
  BY <1>1, <1>2

-----------------------------------------------------------------------------
(* What a version does to a database keeps it one *)

LEMMA LinkTyped ==
    ASSUME NEW d \in Database
    PROVE  LinkRecord(d) \in Database /\ LinkRecord(d).versions = d.versions
<1>1. (IF d.ref = "legacy" THEN "decision" ELSE d.ref) \in {"none", "legacy", "decision"}
  BY DEF Database
<1>2. d.copies + 1 \in Nat
  BY DEF Database
<1> QED
  BY <1>1, <1>2 DEF LinkRecord, Database

LEMMA DataTyped ==
    ASSUME NEW d \in Database, NEW v \in Nat \ {0}
    PROVE  Migrated(v, d) \in Database /\ Migrated(v, d).versions = d.versions \cup {v}
<1> DEFINE e == CASE v = 5 -> LinkRecord(d)
                  [] v = 6 -> AdoptImports(d)
                  [] v = 8 -> FindRemote(d)
                  [] v = 9 -> RepairRemote(d)
                  [] OTHER -> d
<1>1. d.feed \in Feed
  BY DEF Database
<1>2. LinkRecord(d) \in Database /\ LinkRecord(d).versions = d.versions
  BY LinkTyped
<1>3. AdoptImports(d) \in Database /\ AdoptImports(d).versions = d.versions
  BY DEF AdoptImports, Database
<1>4. FindRemote(d) \in Database /\ FindRemote(d).versions = d.versions
  <2> DEFINE matches == {g \in d.feed.complete : d.feed.hashOf[g] = d.feed.hash}
  <2>1. CASE d.feed.remote = NoGeneration /\ Cardinality(matches) = 1
    <3>1. matches # {} /\ matches \subseteq Generations
      <4>1. matches # {}
        BY <2>1, FS_EmptySet
      <4> QED
        BY <4>1, <1>1 DEF Feed
    <3>2. (CHOOSE g \in matches : TRUE) \in Generations
      BY <3>1
    <3> DEFINE g == CHOOSE h \in matches : TRUE
    <3>3. FindRemote(d) = [d EXCEPT !.feed.remote = g]
      BY <2>1 DEF FindRemote
    <3> HIDE DEF g, matches
    <3>4. g \in Generations
      BY <3>2 DEF g
    <3>5. [d.feed EXCEPT !.remote = g] \in Feed
      BY <1>1, <3>4 DEF Feed
    <3> QED
      BY <3>3, <3>5 DEF Database
  <2>2. CASE ~(d.feed.remote = NoGeneration /\ Cardinality(matches) = 1)
    BY <2>2 DEF FindRemote
  <2> QED
    BY <2>1, <2>2
<1>5. RepairRemote(d) \in Database /\ RepairRemote(d).versions = d.versions
  <2> DEFINE c == Candidate(d.feed)
  <2>1. CASE RepairRemote(d) = d
    BY <2>1
  <2>2. CASE RepairRemote(d) # d
    <3>1. c \in Generations
      BY <1>1, <2>2, CandidateValid DEF RepairRemote
    <3>2. RepairRemote(d) = [d EXCEPT !.feed.remote = c, !.feed.hash = d.feed.hashOf[c]]
      BY <2>2 DEF RepairRemote
    <3> HIDE DEF c
    <3>3. d.feed.hashOf[c] \in 0 .. 2
      BY <1>1, <3>1 DEF Feed
    <3>4. [[d.feed EXCEPT !.remote = c] EXCEPT !.hash = d.feed.hashOf[c]] \in Feed
      BY <1>1, <3>1, <3>3 DEF Feed
    <3> QED
      BY <3>2, <3>4 DEF Database
  <2> QED
    BY <2>1, <2>2
<1>6. e \in Database /\ e.versions = d.versions
  BY <1>2, <1>3, <1>4, <1>5
<1>7. Migrated(v, d) = [e EXCEPT !.versions = @ \cup {v}]
  BY DEF Migrated
<1> HIDE DEF e
<1> QED
  BY <1>6, <1>7 DEF Database

\* The linked record: not before version 5, once from then on.
RecordInv(d) ==
    d.stored => IF CurrentVersion(d) >= 5 THEN d.linked /\ d.copies = 1 /\ d.ref # "legacy"
                                          ELSE ~d.linked /\ d.copies = 0

LEMMA RecordMigrates ==
    ASSUME NEW d \in Database, NEW v \in Nat \ {0}, RecordInv(d), CurrentVersion(d) \in Nat,
           v = CurrentVersion(d) + 1, CurrentVersion(Migrated(v, d)) = v
    PROVE  RecordInv(Migrated(v, d))
<1> DEFINE e == Migrated(v, d)
<1>1. CASE v = 5
  <2>1. e = [LinkRecord(d) EXCEPT !.versions = @ \cup {v}]
    BY <1>1 DEF Migrated
  <2>2. LinkRecord(d) \in Database
    BY LinkTyped
  <2>3. e.stored = LinkRecord(d).stored /\ e.linked = LinkRecord(d).linked
        /\ e.copies = LinkRecord(d).copies /\ e.ref = LinkRecord(d).ref
    BY <2>1, <2>2 DEF Database
  <2>4. d.stored => ~d.linked /\ d.copies = 0
    BY <1>1 DEF RecordInv
  <2>5. d.stored => /\ LinkRecord(d).linked
                    /\ LinkRecord(d).copies = 1
                    /\ LinkRecord(d).ref # "legacy"
    BY <2>4 DEF LinkRecord, Database
  <2>6. LinkRecord(d).stored = d.stored
    BY DEF LinkRecord, Database
  <2> HIDE DEF e
  <2> QED
    BY <1>1, <2>3, <2>5, <2>6 DEF RecordInv, e
<1>2. CASE v # 5
  <2>1. e.stored = d.stored /\ e.linked = d.linked /\ e.copies = d.copies /\ e.ref = d.ref
    BY <1>2 DEF Migrated, AdoptImports, FindRemote, RepairRemote, Database
  <2>2. CurrentVersion(e) >= 5 <=> CurrentVersion(d) >= 5
    BY <1>2
  <2> HIDE DEF e
  <2> QED
    BY <2>1, <2>2 DEF RecordInv, e
<1> QED
  BY <1>1, <1>2

\* The remote generation, once it is set, is under the hash, and is usable
\* from version 9 on.
Usable(f) == /\ Valid(f, f.remote)
             /\ f.hash = f.hashOf[f.remote]
             /\ f.remote = f.active => Candidate(f) = f.active

FeedInv(d) ==
    /\ d.feed.remote # NoGeneration => d.feed.hash = d.feed.hashOf[d.feed.remote]
    /\ CurrentVersion(d) >= 9 /\ Candidate(d.feed) # NoGeneration => Usable(d.feed)

LEMMA FeedMigrates ==
    ASSUME NEW d \in Database, NEW v \in Nat \ {0}, FeedInv(d), CurrentVersion(d) \in Nat,
           v = CurrentVersion(d) + 1, CurrentVersion(Migrated(v, d)) = v
    PROVE  FeedInv(Migrated(v, d))
<1> DEFINE e == Migrated(v, d)
           c == Candidate(d.feed)
<1>1. d.feed \in Feed
  BY DEF Database
<1>2. c = NoGeneration \/ (c \in Generations /\ Valid(d.feed, c))
  BY <1>1, CandidateValid
<1>3. CASE v = 8
  <2>1. e.feed = FindRemote(d).feed
    BY <1>3 DEF Migrated, FindRemote, Database
  <2>2. e.feed.remote # NoGeneration => e.feed.hash = e.feed.hashOf[e.feed.remote]
    <3> DEFINE matches == {g \in d.feed.complete : d.feed.hashOf[g] = d.feed.hash}
               g == CHOOSE h \in matches : TRUE
    <3>1. CASE d.feed.remote = NoGeneration /\ Cardinality(matches) = 1
      <4>1. g \in matches
        <5>1. matches # {}
          <6> HIDE DEF matches, e, c
          <6> QED
            BY <3>1, FS_EmptySet
        <5> QED
          BY <5>1
      <4>2. e.feed = [d.feed EXCEPT !.remote = g]
        BY <1>1, <2>1, <3>1 DEF FindRemote, Database
      <4>3. d.feed.hashOf[g] = d.feed.hash
        BY <4>1
      <4> HIDE DEF e, g, matches
      <4> QED
        BY <1>1, <4>2, <4>3 DEF Feed
    <3>2. CASE ~(d.feed.remote = NoGeneration /\ Cardinality(matches) = 1)
      BY <2>1, <3>2 DEF FindRemote, FeedInv
    <3> QED
      BY <3>1, <3>2
  <2> HIDE DEF e
  <2> QED
    BY <1>3, <2>2 DEF FeedInv, e
<1>4. CASE v = 9
  <2>1. e.feed = RepairRemote(d).feed
    BY <1>4 DEF Migrated, RepairRemote, Database
  <2> DEFINE wrong == \/ ~Valid(d.feed, d.feed.remote)
                      \/ d.feed.remote = d.feed.active /\ c # d.feed.active
  <2>2. CASE c # NoGeneration /\ wrong
    <3>1. RepairRemote(d) = [d EXCEPT !.feed.remote = c, !.feed.hash = d.feed.hashOf[c]]
      BY <2>2 DEF RepairRemote
    <3> HIDE DEF c, e
    <3>2. e.feed = [[d.feed EXCEPT !.remote = c] EXCEPT !.hash = d.feed.hashOf[c]]
      BY <2>1, <3>1 DEF Database
    <3>3. /\ e.feed.remote = c /\ e.feed.hash = d.feed.hashOf[c]
          /\ e.feed.hashOf = d.feed.hashOf /\ e.feed.active = d.feed.active
          /\ e.feed.complete = d.feed.complete /\ e.feed.delivered = d.feed.delivered
      BY <1>1, <3>2 DEF Feed
    <3>4. Candidate(e.feed) = Candidate(d.feed)
      BY <3>3 DEF Candidate, Valid
    <3>5. Valid(e.feed, c)
      BY <1>2, <2>2, <3>3 DEF Valid
    <3>6. Candidate(e.feed) = c
      BY <3>4 DEF c
    <3> QED
      BY <3>3, <3>5, <3>6 DEF FeedInv, Usable, e
  <2>3. CASE ~(c # NoGeneration /\ wrong)
    <3>1. e.feed = d.feed
      BY <2>1, <2>3 DEF RepairRemote
    <3>2. c # NoGeneration => d.feed.remote # NoGeneration
      BY <1>1, <2>3 DEF Valid, Feed, Generations, NoGeneration
    <3> QED
      BY <2>3, <3>1, <3>2 DEF FeedInv, Usable
  <2> QED
    BY <2>2, <2>3
<1>5. CASE v \notin {8, 9}
  <2>1. e.feed = d.feed
    BY <1>5 DEF Migrated, LinkRecord, AdoptImports, Database
  <2>2. CurrentVersion(e) >= 9 => CurrentVersion(d) >= 9
    BY <1>5
  <2> HIDE DEF e
  <2> QED
    BY <2>1, <2>2 DEF FeedInv, e
<1> QED
  BY <1>3, <1>4, <1>5

-----------------------------------------------------------------------------
(* The invariant of migrate_connection *)

MigrationInv ==
    /\ MigrationTypeOK
    /\ Prefix(db)
    /\ NextIsNear
    /\ RecordInv(db)
    /\ FeedInv(db)

LEMMA NoRunTyped == /\ NoRun \in Run
                    /\ \A how \in {"done", "duplicate", "busy", "refused"} : Ended(how) \in Run
BY DEF NoRun, Ended, Run

\* A step of one migrator that leaves the database alone.
LEMMA RunStep ==
    ASSUME MigrationInv, NEW m \in Migrators, NEW r \in Run,
           run' = [run EXCEPT ![m] = r], UNCHANGED db,
           faults' \in [busy : Nat, death : Nat],
           r.pc = "apply" => r.next \in 1 .. CurrentVersion(db) + 1 /\ r.next <= r.supports
    PROVE  MigrationInv'
<1>1. MigrationTypeOK'
  BY DEF MigrationInv, MigrationTypeOK
<1>2. NextIsNear'
  BY DEF MigrationInv, MigrationTypeOK, NextIsNear, CurrentVersion
<1>3. Prefix(db)' /\ RecordInv(db)' /\ FeedInv(db)'
  BY DEF MigrationInv, Prefix, RecordInv, FeedInv, CurrentVersion, Candidate, Valid, Usable
<1> QED
  BY <1>1, <1>2, <1>3 DEF MigrationInv

\* A migration that goes on after one transaction.
LEMMA ApplyStep ==
    ASSUME MigrationInv, NEW m \in Migrators, Apply(m)
    PROVE  /\ MigrationInv'
           /\ CurrentVersion(db)' = run[m].next
           /\ CurrentVersion(db)' = CurrentVersion(db) + 1
<1> DEFINE v == run[m].next
           e == Migrated(v, db)
           n == CurrentVersion(db)
<1>1. /\ run[m] \in Run /\ db \in Database /\ run[m].pc = "apply"
      /\ v \in 1 .. n + 1 /\ v <= run[m].supports /\ v \notin db.versions
      /\ db' = e /\ run' = [run EXCEPT ![m] = AfterApply(m)] /\ UNCHANGED faults
  BY DEF MigrationInv, MigrationTypeOK, NextIsNear, Apply
<1>2. n \in Nat /\ v \in Nat \ {0}
  BY <1>1, PrefixIsVersions DEF MigrationInv
<1>3. e \in Database /\ e.versions = db.versions \cup {v}
  BY <1>1, <1>2, DataTyped
<1>4. Prefix(e) /\ CurrentVersion(e) = n + 1 /\ v = CurrentVersion(e)
  <2> HIDE DEF e, n, v
  <2>1. v \in 1 .. CurrentVersion(db) + 1
    BY <1>1 DEF n
  <2> QED
    BY <1>1, <1>2, <1>3, <2>1, PrefixGrows DEF MigrationInv, n
<1>5. RecordInv(e)
  BY <1>1, <1>2, <1>4, RecordMigrates DEF MigrationInv
<1>6. FeedInv(e)
  BY <1>1, <1>2, <1>4, FeedMigrates DEF MigrationInv
<1> HIDE DEF e
<1>7. AfterApply(m) \in Run
  BY <1>1, <1>2, NoRunTyped DEF AfterApply, Run
<1>8. MigrationTypeOK'
  BY <1>1, <1>3, <1>7 DEF MigrationInv, MigrationTypeOK
<1>9. NextIsNear'
  <2> SUFFICES ASSUME NEW q \in Migrators, run'[q].pc = "apply"
               PROVE  run'[q].next \in 1 .. n + 2 /\ run'[q].next <= run'[q].supports
    BY <1>1, <1>2, <1>4 DEF NextIsNear
  <2>1. CASE q = m
    <3>1. v # run[m].supports /\ run'[q] = [run[m] EXCEPT !.next = @ + 1]
      BY <1>1, <2>1 DEF AfterApply, Ended, NoRun, MigrationInv, MigrationTypeOK
    <3>2. run'[q].next = v + 1 /\ run'[q].supports = run[m].supports
      BY <1>1, <3>1 DEF Run
    <3>3. run[m].supports \in Nat
      BY <1>1 DEF Run
    <3> QED
      BY <1>1, <1>2, <3>1, <3>2, <3>3
  <2>2. CASE q # m
    <3>1. run'[q] = run[q]
      BY <1>1, <2>2 DEF MigrationInv, MigrationTypeOK
    <3>2. run[q].next \in 1 .. n + 1 /\ run[q].next <= run[q].supports
      BY <3>1 DEF MigrationInv, NextIsNear
    <3> QED
      BY <1>2, <3>1, <3>2
  <2> QED
    BY <2>1, <2>2
<1> QED
  BY <1>1, <1>4, <1>5, <1>6, <1>8, <1>9 DEF MigrationInv, Prefix, RecordInv, FeedInv,
     CurrentVersion, Candidate, Valid, Usable

LEMMA OpenedTyped ==
    ASSUME NEW v \in Nat
    PROVE  Opened(v) \in Run /\ Opened(v).pc = "read"
BY DEF Opened, Run

\* A migration, whatever becomes of it, keeps the invariant.
LEMMA MigrateStepKeeps ==
    ASSUME MigrationInv, NEW m \in Migrators, Migrate(m) \/ Busy(m)
    PROVE  MigrationInv'
<1>0. run[m] \in Run /\ CurrentVersion(db) \in Nat /\ faults \in [busy : Nat, death : Nat]
  BY PrefixIsVersions DEF MigrationInv, MigrationTypeOK
<1>1. CASE ReadVersion(m)
  <2>1. AfterRead(m) \in Run
    <3>1. [run[m] EXCEPT !.pc = "apply", !.next = CurrentVersion(db) + 1] \in Run
      <4>1. \A r \in Run, n \in Nat : [r EXCEPT !.pc = "apply"] \in Run
                                    /\ [r EXCEPT !.next = n] \in Run
        BY DEF Run
      <4>2. CurrentVersion(db) + 1 \in Nat
        BY <1>0
      <4> QED
        BY <1>0, <4>1, <4>2
    <3>2. Ended("refused") \in Run /\ Ended("done") \in Run
      BY NoRunTyped
    <3> QED
      BY <3>1, <3>2 DEF AfterRead
  <2>2. AfterRead(m).pc = "apply" => /\ AfterRead(m).next = CurrentVersion(db) + 1
                                     /\ AfterRead(m).next <= AfterRead(m).supports
    BY <1>0 DEF AfterRead, Run, Ended, NoRun
  <2>3. /\ run' = [run EXCEPT ![m] = AfterRead(m)] /\ UNCHANGED db
        /\ faults' \in [busy : Nat, death : Nat]
    BY <1>0, <1>1 DEF ReadVersion
  <2> DEFINE r == AfterRead(m)
  <2>4. r.pc = "apply" => r.next \in 1 .. CurrentVersion(db) + 1 /\ r.next <= r.supports
    BY <1>0, <2>2
  <2> HIDE DEF r
  <2> QED
    BY <2>1, <2>3, <2>4, RunStep DEF r
<1>2. CASE Apply(m)
  BY <1>2, ApplyStep
<1>3. CASE Duplicate(m) \/ Incompatible(m) \/ Busy(m)
  <2>1. PICK r \in {Ended("duplicate"), Ended("refused"), AfterBusy(m)} :
           run' = [run EXCEPT ![m] = r]
    BY <1>3 DEF Duplicate, Incompatible, Busy
  <2>2. UNCHANGED db /\ faults' \in [busy : Nat, death : Nat]
    BY <1>0, <1>3 DEF Duplicate, Incompatible, Busy
  <2>3. r \in Run /\ r.pc # "apply"
    <3>1. \A how \in {"duplicate", "refused", "busy"} : Ended(how) \in Run /\ Ended(how).pc = how
      BY NoRunTyped DEF Ended, NoRun
    <3>2. Ended("busy") \in Run /\ run[m].next \in Nat
      BY <1>0, <3>1 DEF Run
    <3>3. AfterBusy(m) \in Run /\ AfterBusy(m).pc = "busy"
      BY <3>1, <3>2 DEF AfterBusy, Run
    <3> QED
      BY <2>1, <3>1, <3>3
  <2> QED
    BY <2>1, <2>2, <2>3, RunStep
<1> QED
  BY <1>1, <1>2, <1>3 DEF Migrate

\* The databases a process may find.
LEMMA FirstDatabaseFits ==
    ASSUME MigrationInit
    PROVE  db \in Database /\ Prefix(db) /\ RecordInv(db) /\ FeedInv(db)
<1>1. PICK v \in FirstVersions, fits \in BOOLEAN, stored \in BOOLEAN, imports \in BOOLEAN,
           f \in UNION {FirstFeed(w) : w \in FirstVersions} :
        db = [versions |-> 1 .. v, fits |-> fits, stored |-> stored,
              linked |-> stored /\ v >= 5,
              copies |-> IF stored /\ v >= 5 THEN 1 ELSE 0,
              ref |-> CASE stored /\ v = 4 -> "legacy"
                        [] stored /\ v > 4 -> "decision"
                        [] OTHER           -> "none",
              imports |-> imports, adopted |-> imports /\ v >= 6, feed |-> f]
  BY DEF MigrationInit, FirstDatabases
<1>2. v \in Nat /\ CurrentVersion(db) = v
  <2>1. v \in Nat
    BY MigrationAssumption
  <2>2. db.versions = 1 .. v
    BY <1>1
  <2> QED
    BY <2>1, <2>2, MaxOfPrefix
<1>3. db.feed \in FirstFeed(v)
  BY <1>2 DEF MigrationInit
<1>4. db.feed \in Feed
  <2>1. \A s \in {<<>>} \cup {<<g>> : g \in Generations} \cup (Generations \X Generations) :
           s \in Seq(Generations)
    <3>1. <<>> \in Seq(Generations)
      OBVIOUS
    <3>2. \A g, h \in Generations : <<g>> \in Seq(Generations) /\ <<g, h>> \in Seq(Generations)
      OBVIOUS
    <3>3. \A s \in Generations \X Generations : s = <<s[1], s[2]>>
      OBVIOUS
    <3> QED
      BY <3>1, <3>2, <3>3, ZenonT(60)
  <2>2. db.feed.delivered \in Seq(Generations)
    BY <1>3, <2>1 DEF FirstFeed
  <2> QED
    BY <1>3, <2>2 DEF FirstFeed, Feed
<1>5. db.feed = f
  BY <1>1
<1>6. db \in Database
  <2>1. 1 .. v \in SUBSET (Nat \ {0})
    BY <1>2
  <2>2. /\ (IF stored /\ v >= 5 THEN 1 ELSE 0) \in Nat
        /\ (CASE stored /\ v = 4 -> "legacy"
              [] stored /\ v > 4 -> "decision"
              [] OTHER           -> "none") \in {"none", "legacy", "decision"}
        /\ (stored /\ v >= 5) \in BOOLEAN /\ (imports /\ v >= 6) \in BOOLEAN
    BY <1>2
  <2> QED
    BY <1>1, <1>4, <1>5, <2>1, <2>2 DEF Database
<1>7. RecordInv(db)
  <2>1. db.stored = stored /\ db.linked = (stored /\ v >= 5)
        /\ db.copies = IF stored /\ v >= 5 THEN 1 ELSE 0
    BY <1>1
  <2>2. stored /\ v >= 5 => db.ref = "decision"
    BY <1>1, <1>2
  <2> QED
    BY <1>2, <2>1, <2>2 DEF RecordInv
<1>8. FeedInv(db)
  <2>1. db.feed.remote # NoGeneration => db.feed.hash = db.feed.hashOf[db.feed.remote]
    BY <1>3 DEF FirstFeed
  <2>2. v >= 9 => Candidate(db.feed) = NoGeneration
    <3>1. v >= 9 => db.feed.delivered = <<>>
      BY <1>2, <1>3 DEF FirstFeed
    <3> QED
      BY <3>1 DEF Candidate
  <2> QED
    BY <1>2, <2>1, <2>2 DEF FeedInv
<1>9. Prefix(db)
  BY <1>1, <1>2 DEF Prefix
<1> QED
  BY <1>6, <1>7, <1>8, <1>9

LEMMA MigrationInvInit == MigrationInit => MigrationInv
<1> SUFFICES ASSUME MigrationInit PROVE MigrationInv
  OBVIOUS
<1>1. run \in [Migrators -> Run] /\ faults \in [busy : Nat, death : Nat]
  BY NoRunTyped DEF MigrationInit
<1>2. NextIsNear
  BY DEF MigrationInit, NextIsNear, NoRun
<1> QED
  BY <1>1, <1>2, FirstDatabaseFits DEF MigrationInv, MigrationTypeOK

LEMMA MigrationInvNext == MigrationInv /\ [MigrationNext]_migrationVars => MigrationInv'
<1> SUFFICES ASSUME MigrationInv, [MigrationNext]_migrationVars PROVE MigrationInv'
  OBVIOUS
<1>1. CASE UNCHANGED migrationVars
  BY <1>1 DEF migrationVars, MigrationInv, MigrationTypeOK, Prefix, NextIsNear, RecordInv,
     FeedInv, CurrentVersion, Candidate, Valid, Usable
<1>2. ASSUME NEW m \in Migrators, Migrate(m) \/ Busy(m)
      PROVE  MigrationInv'
  BY <1>2, MigrateStepKeeps
<1>3. ASSUME NEW m \in Migrators, Open(m) \/ Die(m) \/ Restart(m)
      PROVE  MigrationInv'
  <2>1. Supports[m] \in Nat
    BY MigrationAssumption
  <2>2. PICK r \in {Opened(Supports[m]), NoRun} : run' = [run EXCEPT ![m] = r]
    BY <1>3 DEF Open, Die, Restart
  <2>3. r \in Run /\ r.pc # "apply"
    BY <2>1, OpenedTyped, NoRunTyped DEF NoRun
  <2>4. UNCHANGED db /\ faults' \in [busy : Nat, death : Nat]
    BY <1>3 DEF Open, Die, Restart, MigrationInv, MigrationTypeOK
  <2> QED
    BY <2>2, <2>3, <2>4, RunStep
<1> QED
  BY <1>1, <1>2, <1>3 DEF MigrationNext, Migrate

LEMMA MigrationInvHolds == MigrationSpec => []MigrationInv
BY MigrationInvInit, MigrationInvNext, PTL DEF MigrationSpec

-----------------------------------------------------------------------------
(* Theorems *)

\* Every variable stays in its type: a repaired feed points to a generation, a
\* database never holds a version 0, a record is copied a whole number of times.
THEOREM MigrationTypes == MigrationSpec => []MigrationTypeOK
<1>1. MigrationInv => MigrationTypeOK
  BY DEF MigrationInv
<1> QED
  BY <1>1, MigrationInvHolds, PTL

\* However many processes migrate, fail, die and race for a version, none is
\* skipped: MAX(version) says what the schema has.
THEOREM VersionsHaveNoGap == MigrationSpec => []VersionsArePrefix
<1>1. MigrationInv => VersionsArePrefix
  BY PrefixIsVersions DEF MigrationInv, VersionsArePrefix
<1> QED
  BY <1>1, MigrationInvHolds, PTL

\* A record of the old layout becomes one decision of the history, whoever
\* applies version 5 and however often it is tried.
THEOREM RecordsMoveOnce == MigrationSpec => []RecordLinkedOnce
<1>1. MigrationInv => RecordLinkedOnce
  BY DEF MigrationInv, RecordInv, RecordLinkedOnce
<1> QED
  BY <1>1, MigrationInvHolds, PTL

\* What version 9 repairs stays repaired: the remote generation of a feed is
\* stored and complete and its hash is the one a 304 speaks of.
THEOREM RepairedFeedsAreUsable == MigrationSpec => []RemoteIsUsable
<1>1. MigrationInv => RemoteIsUsable
  BY DEF MigrationInv, FeedInv, Usable, RemoteIsUsable
<1> QED
  BY <1>1, MigrationInvHolds, PTL

=============================================================================
