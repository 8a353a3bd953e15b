# A TLA+ model of PiHole-AI

PiHole-AI watches the DNS queries of a Pi-hole, classifies the domains it has not
seen, records explainable decisions and, in block mode, writes a blocklist. This
directory holds TLA+ modules translated from the code, TLC configurations that
check them on small instances, and proofs that the TLA+ proof system checks.
`PROJECT.json` lists every run, mutant, theorem and the source lines each
definition stands for.

## How to read and run it

    tlasany IntelFeed.tla
    tlc -workers 2 -config IntelFeedSafety.cfg MCIntelFeed
    tlapm IntelFeedProofs.tla

The run of a configuration is the MC module of the same subject: `MCIntelFeed` for
`IntelFeed*.cfg`, `MCEventPipeline` for `EventPipeline*.cfg`, `MCDashboard` for
`Dashboard*.cfg`, `MCDecisions` for `Decisions*.cfg`, `MCMigrations`,
`MCServiceLifecycle` for `Lifecycle.cfg`. The whole set takes some ten minutes.

A definition `Faulty_X` is `X` with a fault a change of the code could introduce.
No specification uses one: it is there to show, by taking the place of `X`, that a
property can fail.

## Inventory

Four kinds of process share one SQLite database (`events.db`, WAL mode): the
collector, the engine and the dashboard, which are systemd services, and short
commands (`pihole-ai ...`, the feed update timer, maintenance). Every database call
is a transaction of its own; no handler spans its whole work with one. That is
where the hard behaviour is: any two calls of one process can have any
transaction of another between them, and a process can die between any two.

| Component | State | Operations | What makes it correct |
|---|---|---|---|
| Threat-intelligence feeds (`pihole_ai/intel.py`, `intel_feeds.py`, `core/db.py`) | sources, source state (validators, hash, active and remote generation), generations with entries, update audit | update (fetch, 304, gate, import, reactivate), rollback, source add / update / enable / remove, import-hosts | one active generation per source, last-known-good survives, a 304 refers to the right payload, a source does not get stuck |
| Decision history (`core/db.py`, `pihole_ai/feedback.py`) | decision_records, decision_history with evidence, supersedes chain, feedback, action audit | save with decision, retention, feedback, compare | history is append-only, references resolve, the newest record is the current decision |
| Event pipeline (`collector/scan.py`, `engine/engine.py`) | query cursor, events with their processed flag, analysis cache | ingest a batch, process a batch, cleanup | every query is analysed, no decision without its action |
| Classifiers and decision engine (`engine/`) | none | collect evidence, decide, aggregate | precedence: rule over reputation over feed over heuristics over AI; bounds of risk and confidence |
| AI classifier (`engine/classifiers/ai_classifier.py`) | call window, cooldown and counters in the state table | reserve a call, start a cooldown, parse, fall back | at most the configured calls per minute; AI comes back |
| Actions (`actions/`) | blocklist file, action audit | decide, apply | a block is written once and audited |
| Rules, reputation, learning | domain_rules, domain_reputation | upserts | protected domains stay allowed |
| Migrations (`core/migrations.py`) | schema version, migration table | migrate, verify | each migration once, under concurrent starts |
| Maintenance (`core/maintenance.py`) | events, decision history | cleanup, retention, vacuum | deletes only what is old |
| Dashboard (`ui/dashboard.py`, `dashboard_auth.py`) | sessions, CSRF token, login failures | login, logout, guarded writes | no write without session and token; lockout ends |
| Service lifecycle (`pihole_ai/service.py`) | units, launcher, configuration, service states, lock file | install, upgrade, uninstall, enable, actions | a failed step restores what ran before |
| Setup (`pihole_ai/setup.py`) | configuration file | evaluate, run | the stage follows from the steps |
| Health, doctor, status; configuration; explain, evaluate, export; CLI, logging, scripts | none of their own | read-only reports, parsing | - |

## What is modelled

The modules and how they use each other:

    IntelService <- IntelFeed <- IntelFeedProofs <- IntelServiceProofs
    EventPipeline <- EventPipelineProofs <- EventPipelineCountingProofs
    Migrations <- MigrationsProofs
    Migrations <- ServiceLifecycle <- ServiceLifecycleProofs (with MigrationsProofs)
    Classifiers <- Decisions <- DecisionsProofs
    DecisionHistory <- Dashboard <- DashboardProofs

`ServiceLifecycle` composes lifecycle commands and daemons with the migrations that
both run; `Dashboard` composes server and page with the decision history, its
retention and the engine that adds to it; `Decisions` composes the classifiers with
the gate in front of the local model and with learning. `EventPipeline` leaves open
what the classifiers decide, so it holds for whatever `Decisions` computes.

### IntelFeed

`IntelFeed.tla` models the managed feeds.

* `source`, `state`, `gens` and `audit` are the tables; a row of a removed source is
  `EmptyState` or `NoGeneration`, since the foreign keys cascade. `usedIds` makes
  generation ids fresh, as uuid4 does.
* `upd` is the one update run that can hold `intel_update_lock`. Its `pc` names the
  database call or HTTP request it makes next, its other fields are the local
  variables that live across calls: the source row and the state row that were read
  before the fetch (`url`, `seen`), the response and the generation chosen.
* Each call is an action. `Resolve` is the whole of `_resolve_remote_generation`,
  `CompareContent` the gate, the hash comparison and the reuse query;
  `ImportGeneration` and `Reactivate` are the two activation transactions,
  `MarkNotModified`, `MarkFailed` and `RecordAudit` the others. An exception that no
  handler catches (`ImportRefused`, `ReactivateRefused` on the 200 branch) ends the
  run without an audit row, as in the code.
* That there is one run at a time is what `intel_update_lock` is for. Its file is in
  `/run/pihole-ai`, as the lifecycle lock is, and goes with it when a unit stops (see
  ServiceLifecycle): the model assumes that none stops while a run is under way.
* The operator commands take no lock and are enabled between any two steps.
* `Crash` is a kill, a power loss or an exception out of any call.
* `Publish` is the feed server. It is external: all the model assumes of it is
  `HttpAssumption`, that on one URL one validator names one payload.

A payload, its hash and its parsed domains are one value; ETag and Last-Modified are
one value. The audit trail keeps the rows the only deciding reader looks for,
successful HTTP 200 updates, without direct repetitions.

Left out: dry runs, which write nothing; parsing (a payload has an entry count); the
legacy source behind `import-hosts`, which edits its generation in place.

### IntelService

`IntelService.tla` is what the feeds promise the classifiers: per source they read
the indicators of exactly one payload that a server once published; an update or a
rollback replaces it in one step; nothing but removing the source takes it away.
`ImplementsService` says that `IntelFeed` implements it, with `serving` and `library`
computed from the generation rows: TLC checks it and `ServiceIsKept` proves it.

### EventPipeline

`EventPipeline.tla` models what happens to a DNS query: collector, event table,
engine with its analysis cache, action policy, blocklist, rules command and event
cleanup.

* `queries` is Pi-hole's table (external), `cursor` the key
  `collector.last_query_id`; `events`, `analysis`, `rules`, `reputation` and `audit`
  are the tables, `blocklist` counts the lines of `blocklist.txt` per domain.
  `history` lists the decisions: the n-th is decision n.
* `collector`, `engine`, `operator` and `cleaning` are the processes. `pc` names the
  database call or file write that is due, the other fields are the local
  variables that live across calls: the batch in hand, the row, the decision id, the
  result and the verdict of the policy.
* Every call is an action. `SaveAnalysis` is the one transaction that writes cache row
  and decision; `AppendLine` and `RecordWritten` are the two writes of `block`;
  `CountEvents` and `DeleteEvents` the two transactions of `cleanup_old_events`.
* `EngineFault` is an exception of the call that is due, with the three ways the code
  takes it: recorded as failed in `block`, swallowed in learning, and on to the next
  domain elsewhere. `CollectorDies`, `EngineDies` and `CommandFails` are deaths; the
  collector catches nothing, so an exception is a death too.
* `ingested` and `settled` are history variables: how often each query was ingested,
  and which decisions the policy is done with. In an audit row `decision` is the
  decision acted on, kept for the properties, and `ref` the `decision_ref` written.

What the classifiers decide is left open: `Outcomes` allows every level of risk with
and without confidence, and what an active rule decides. That is more than the code
can produce, so the properties hold for whatever the classifiers do.

Left out: a second engine (`engine-once`) beside the service; domain metadata, query
counts and devices; the parse-error branch of `process_once`, which tests for a model
name that the decision engine never puts into a result; upper-case names (the
pipeline writes names in lower case but marks events under the name it read; Pi-hole
stores lower case).

### Migrations

`Migrations.tla` models `core/migrations.py` as every process runs it that opens the
database.

* `db` is the database as far as a migration moves it: the rows of
  `schema_migrations`, one decision record of the old layout with its copies and the
  action row that refers to it, imports of the old indicator table, and one feed with
  two generations. `run` is `migrate_connection` of each process, with the version it
  read before its first transaction.
* A transaction is one action: `ReadVersion`, then `Apply` for each version it found
  missing. `Migrated(v, d)` is what version `v` does to the data (`LinkRecord` of 5,
  `AdoptImports` of 6, `FindRemote` of 8, `RepairRemote` of 9); versions that only
  add tables and columns change nothing else.
* `Duplicate` is the primary key refusing a version another process has committed
  meanwhile, `Incompatible` the check of version 1 against tables it does not know,
  `Busy` the error of a locked database, `Die` a death before a commit.

A process that loses the race gets an integrity error, which the caller reports as
"not a valid SQLite database" (`core/sqlite_policy.py`): misleading, and its next
try succeeds.

### ServiceLifecycle

`ServiceLifecycle.tla` models `pihole_ai/service.py`: commands of several
administrators over unit files, launcher, systemd and the lifecycle lock, while
daemons start, migrate and die. It extends `Migrations`: commands and daemons are the
migrators.

* `Program(cmd)` is the sequence of calls of a command in the order of the code, with
  its loops unrolled; `op[p].todo` is what is left of it. A call is an action of its
  own: `Preflight`, `Ask` (the states an upgrade will restore), `TakeLock`, `WriteFile`,
  `RemoveFile`, the systemctl calls, the migration, `Unlock`.
* `Fail` is an exception of the call that is due; of an upgrade it starts `Recovery`.
  `Kill` ends a command without one, and its lock file closes. `InstallWheel` is the
  package manager, between any two calls.
* Release 0 of a file means there is none, and `Foreign` that it is not managed by
  the program, which refuses to replace it.

The lock is the file `/run/pihole-ai/lifecycle.lock`, and every generated unit has
`RuntimeDirectory=pihole-ai` without `RuntimeDirectoryPreserve` (`service.py:367`): when
a unit stops or starts again, systemd removes the directory and the file in it. Whoever
had locked it holds a deleted file from then on, and the next command creates and locks
a new one (`service.py:1286-1291`). `lock` is the holder of the file that is there;
every action that stops a unit sets it to `Nobody` (`LockAfterStop`, `StartAgain`,
`DaemonDies`, and `UpdateEnds` for the unit that a timer starts). So two commands may be
in their locked parts at once, with the lock or without.

The lock covers what `lifecycle_lock` covers. The recovery of an upgrade runs
outside it (`service.py:1967`), and the service states to restore are read before it
is taken (`service.py:1900`), so another administrator's command can run in between.
`alone` notes that no other command overlapped one, `disturbed` that a command which was
overlapped acted without the lock. An upgrade does not restart daemons that run. A
failed upgrade leaves units behind that did not exist before. Uninstall unlinks a unit
without the check that it is managed. `install --no-enable` with `--no-start` is not a
command of its own: it is an install that has come as far as its migration. A member of
`Timers` stands for a timer and the service it starts, which are written and removed
together; `systemctl enable` names only the timer (`ENABLE_UNIT_NAMES`).

### Classifiers and Decisions

`Classifiers.tla` holds the classifiers and the decision engine as operators: the
evidence of each for a profile of the domain (`RuleEvidence`, `ReputationEvidence`,
`IntelEvidence`, `HeuristicEvidence`, `AIItem`, `AISkipItem`), `SkipsAI`, `Decisions`
with precedence, mean and conflict, and `Learned`. Arithmetic is that of the code,
rounding to even included; categories, words and weights are cut down to those that
decisions tell apart.

`Decisions.tla` runs them.

* `engine` is one analysis: the evidence so far, the classifiers that raised, the
  decision. `Collect` is the round up to the step to the model, `TakeAIEvidence` its
  end, `BusyDatabase` a classifier that finds the database locked, `Learn` what is
  kept for the next round.
* `age`, `windowCalls`, `cooldown` are the rows of the gate, as times relative to the
  clock. `call[p]` is a process on its way through it; every read and every write of
  a row is an action, and `lag` is how old the clock reading is that it compares with.
* `Others` are benchmarks and engines started by hand, which share the gate.
  `ClockBack` sets the clock back, `Die` ends a process anywhere.
* `made` and `hot` are history variables: calls since the window began, calls begun
  while the model cools down.

### DecisionHistory and Dashboard

`DecisionHistory.tla` is the history of one domain: `SaveDecision` is the one
transaction of `save_analysis_with_decision`, `CleanUp` the one of
`cleanup_decision_history` with its order by stamp, its protected rows, its batch
and its relinking row by row. Stamps need not grow, because a clock may be set back.
All domains share a batch, so of this domain it may take any number of rows up to
`BatchSize` (`Batches`). `audit.refs` are the decisions that rows of feedback refer to.

`Dashboard.tla` puts the server and the page on top of it. `request[t]` is a request
with the transactions its handler has still to do and what it has read; `Accept` is
the security gate and the entry of `readonly_database()`, `Answer` its exit, and
`readonly` the variable of the process that it switches. Answers reach the page in any
order. `failures` and `session` are the login throttle and the cookie; `Restart` loses
what the process held. An answer renews the cookie, so the one to a request that was
under way during a logout may bring the session back. Left out is that the login page,
when it is opened with such a cookie, leads home without a login.

## Runs

| Run | Instance | What it shows |
|---|---|---|
| feed_safety | one source, one URL, three payloads (one a truncated feed), four ids; two publications, two commands of any kind, one error, one crash | types, pointer and status agree, rollback pointers resolve, the state row describes what is stored, `IntelService` is implemented |
| feed_converge | two URLs, no crash and no rollback, update / URL edit / enable | a 304 means the payload its validator names, one generation per payload, every source converges |
| feed_rollback_304 | the smallest instance with rollback | disagreement 1 below |
| pipeline_rules | one domain, one query, block mode, any rule from before; one expiry, rule command, cleanup, failed call and death, each at any point | cache and history agree, nothing is marked before its decision, a decision is acted on once, actions and blocklist lines go astray only by as many faults as there were |
| pipeline_queue | two domains, three queries, batches of two (collector) and one (engine), one cleanup that keeps two events, one death of either, fair | no query is lost behind the cursor, a death repeats at most one batch, every query is ingested, every waiting domain is handled, the cleanup keeps the newest although events come in between its count and its delete |
| migrations | two processes of this release and one of the one before; an empty database, versions 4 and 7 and one newer than both; a locked database and a death anywhere | versions stay contiguous, records and feeds are carried over once and usable, the newest version is reached |
| lifecycle | two administrators, a daemon, a timer, two releases of which the second brings two schema versions; two of all ten commands, one failure, kill, death or end of an update | the daemon comes up on a schema it knows, nothing is left without its unit unless a command acts without the lock, an upgrade that fails alone restores, no lock is left behind |
| decisions | five kinds of domain, one benchmark beside the engine, limit, window and cooldown of one, one mishap | a rule decides but on infrastructure names, an unanswered model decides nothing, the gate's limits hold as far as they do, the gate opens again |
| decisions_intel | the same without mishaps | disagreement 2 below |
| history | four decisions with any stamps, retention at any time, feedback, explanations and comparisons | one chain from the newest to the oldest, evidence kept with its decision, decisions that feedback refers to kept, no explanation with later evidence |
| dashboard | two requests under way, one write, two wrong logins at a limit of two, one restart, fair | the page catches up with tables that rest, a user who keeps trying gets in |
| dashboard_readonly | two overlapping reads | disagreement 3 below |

Bounds. They are guards, named in the CONSTANTS of each module.

* Feeds: two publications give A, B and A again on one URL, which is what reuse,
  rollback and 304 need; two commands can enclose one step of a run (remove and add
  again, two rollbacks); a crash and an error can come at any step; four ids leave one
  more than the imports these bounds allow. Ids are symmetric.
* Pipeline: three queries are a full batch and a rest, of which the last may come in
  between count and delete of a cleanup that keeps two, and with two domains and engine
  batches of one a domain waits behind the other; a single query with an expiry is
  analysed twice, which is what cache, history and repeated actions need. A second
  fault would be handled by the same branches; the bounds on lost actions are stated
  in the number of faults.
* Migrations: a race needs two processes, the third brings older code that stops
  earlier; the four first versions are before, between and after the versions that
  move data.
* Lifecycle: all ten commands are in; two overlap in every way, since each call is a
  step, and one trouble takes an upgrade into its recovery from every call. A second one,
  within the recovery, is left to the proofs: `missed` notes the units whose rewrite
  failed there. One daemon and one timer make a unit that stops and one that does not
  run; what depends on their number is the length of the loops, and the theorems hold for
  any. Two commands and the daemon race for versions; a locked database and deaths within
  a migration are in the migrations run (`MaxBusy` and `MaxDeaths` are 0 here).
  Administrators are symmetric.
* Decisions: the five kinds are a plain domain, a local name under a rule, a rule
  against signals, a rule against a feed hit, and a feed hit with signals. The gate's
  comparisons distinguish only before, at and after the limit, so a window, a
  cooldown and a limit of one reach each outcome; the bound on the calls of a window
  was also met exactly at limits two to four.
* History: of four decisions one can be deleted between two kept ones, twice, which
  relinking one row over another needs; two stamps make ties and a clock set back.

Pipeline, migrations and lifecycle end when their bounds are used up, so the deadlock
check is off there.

Fairness. A started update keeps taking steps and the timer
(`pihole-ai-intel-update.timer`, `Persistent=true`) starts another. Collector and
engine are weakly fair: their loops go on after every pass and systemd starts them
again (`Restart=always`). A migrator goes on, and starts again after an error. An
analysis and a way through the gate go on, since a call of the model ends by its time
limit; the clock goes on unless it makes no difference any more. Requests are
answered; each poll is strongly fair, since its timer fires whenever a thread is
free; the user tries again. Nothing is assumed of operators, feed servers, deaths or
faults, and `FetchNotModified` is never forced.

The validators of the two URLs differ in feed_converge; with equal ones the race of
a URL edit told below would let a stale validator be answered by the new URL.

## Where code and documentation disagree

Shown by a run:

1. **A 304 after rollback** (feed_rollback_304). `docs/ARCHITECTURE.md` says that hash,
   validators and remote generation describe the last fetched representation.
   Import A, import B, roll back to A, the server returns to A (HTTP 200, content
   unchanged): the validators and `remote_generation_id` become those of A, the
   hash stays B's. The next 304, which says A is current, reactivates B.
2. **A feed hit does not decide** (decisions_intel). `README.md` says high-confidence
   feed hits are decisive. `engine/classifiers/threat_intel.py:87` calls `get` on a
   `sqlite3.Row`, which has no such method; the pipeline records the classifier as
   failed and decides without the hit. The constant `RowHasGet` is that fact.
3. **Read-only mode stays on** (dashboard_readonly). `readonly_database()` saves and
   restores a variable of the process, while requests run in threads. A second read
   that begins within the first and ends after it puts back `TRUE`; from then on every
   write of the dashboard fails until a restart.

Met while modelling, and not the subject of a run:

4. **A 304 after a crash.** If the process dies between an activation and its audit row,
   the audit trail names the generation before; the next 304 prefers the trail and
   goes back to the old payload. This is why feed_converge has no crash.
5. **A URL edit during an update.** `README.md` says that an edit clears the validators so
   that the next update fetches again. An update in flight writes the old URL's
   validators after the edit. `intel source add` of an existing id keeps them too.
6. **A source removed and added again during an update.** Between the resolution of a 304
   and `mark_intel_update_not_modified` the source may go and come back; its fresh
   state row then gets the validators of the old payload, of which no generation is
   left. Every later request is answered 304 and resolves to nothing, until the
   server publishes something else. This is why feed_converge has no removal.
7. **The decision behind a block.** ADR 0002 says that action audit rows record the exact
   decision id. `block` writes its row without one, so the row of an enforced block
   names no decision. Rows of failed blocks, suggestions, alerts and reviews do.
8. **Two cleanups at once.** `cleanup_old_events` promises to keep the newest records.
   Count and delete are two transactions without a lock; the daily timer and a
   command by hand that overlap delete the same surplus twice.
9. **Two commands at once.** `lifecycle_lock` is to "hold an exclusive OS lock for mutating
   lifecycle operations" (`service.py:1277`), and `test_service.py:451` tests that it
   does while no unit stops. A unit that stops removes the lock file (`service.py:367`).
   An uninstall does that itself, with `disable --now`: an install that begins then
   finds no lock, writes, enables and starts, and the uninstall goes on to remove the
   files. What is left are daemons that run without unit files. Nor does the lock cover
   the recovery of an upgrade; see ServiceLifecycle. `NothingLeftWithoutUnit` therefore
   holds until a command acts without the lock while another one overlaps it, and
   `LockHolderRuns` does not say that a command in its locked part has the lock. The
   update lock of the feeds is a file in the same directory.
10. **Learning from learned reputation.** `pihole_ai/learn.py:175` is to leave a decision of
    the local reputation alone, but decisions carry the model name `decision-engine`,
    so the guard never holds and a reputation feeds on itself.
11. **Calls per minute.** The window's start, its count and the reservation are separate
    transactions, so `ai_max_calls_per_minute` is exceeded when a benchmark runs beside
    the engine: by lost updates up to half of M(M + 5) calls (`CallsAreBounded`).
12. **Rules on infrastructure names.** `docs/ARCHITECTURE.md:29-34` lets manual block and
    allow win before local infrastructure, and `README.md:91` names manual rules first.
    `ClassifierPipeline` asks `RuleEngine` first, which is the classifier of
    infrastructure names, and its decisive evidence ends the analysis
    (`pipeline.py:37-49`, `129-140`): a rule on a `.local` or `.arpa` name is never read.
    `RuleDecides` states both halves.
13. **Feedback on a decision that goes.** `cleanup_decision_history` is to preserve what
    feedback refers to (`db.py:1371`), and keeps what the rows of its transaction name
    (`HistoryIsWhole`). Feedback reads the decision and writes its row in two
    transactions; retention in between can delete the decision, once a newer one is
    there, and the row then refers to nothing.

## What is proved

For every value of the constants that satisfies the named assumptions of each module.

**Feeds.** `IntelFeedProofs` proves `TypeOK`, `PointerNamesTheActiveGeneration`,
`RollbackPointersResolve` and `StateRowDescribesGenerations`, and on conditions
`PayloadStoredOnce` and `NotModifiedMeansValidatedPayload`; `IntelServiceProofs` proves that
`IntelFeed` implements `IntelService`. `HttpAssumption` is not used.

`TypeOK` is not inductive: what a field of the run holds depends on the step it is at.
`RunTyped` says so, and `TypeInv == TypeOK /\ RunTyped` is inductive. The three
properties need each other and two facts more. `StoredRowsAreWhole`: every stored row
belongs to a configured source, has all its entries, at least one, and an id that was
drawn; this is why a fresh id is free and why a removal leaves nothing behind.
`RunPrepared`: what a run decided in an earlier step still holds when it writes,
although commands may have come in between; a payload about to be imported has
entries, and a generation about to be recorded as the remote one is valid while the
source serves anything. Import, reactivation and rollback are one argument,
`SwitchKeeps`: the source goes to a whole generation of its own, every other active one
of it becomes inactive, the pointers of the rest stay. The other writes only edit rows
(`RowEditKeeps`).

`PayloadsAreStoredOnce` assumes that no rollback is issued (`NoRollback`); crashes, removals
and additions may come at any step. `OnceInv`: what a run has read of a source that
still serves something is what it serves (`SeenIsActive`), so the hash it compared and
the reuse query it made are still true when it imports (`ImportIsNew`). A rollback in
between is what makes them stale, and TLC finds the payload stored twice.

`NotModifiedIsUnderstood` assumes `NoRollback`, no crash (`MaxCrashes = 0`) and that two
URLs share no validator (`ValidatorsNameUrls`). Without the first a 304 goes wrong as in
disagreement 1 above, without the second as in 4; without the third a race of 5 lets
the new URL answer the old one's validator. On these conditions state row and audit
trail name the active generation (`StateNamesActive`, `AuditNamesActive`), and a source
that is gone and back has none, so whatever row a run resolves a 304 to holds the
payload its validator was sent with. Errors, edits, removals and additions are allowed.

The refinement adds `OfferedInv`: what servers offer, what is stored and what a run
carries was published. Each switch then is an update or a rollback of the service
(`UpdateActivates`, `RollbackGoesBack`), a removal forgets one source
(`RemovalForgets`), a publication adds to what was published, and all else stutters
(`SameService`).

**Pipeline.** `EventPipelineProofs` proves `TypeOK`, `NoQueryLost`, `ProcessedIsDecided`,
`ActedOnce` and `CacheIsNewestDecision`, for any domains, maintenance runs, batch
sizes, modes and bounds. All but the last are parts of one inductive invariant `IInv`:

* `Placed`: what a process holds at its step (a row between fetch and mark, a verdict
  with a status where it is recorded); typing depends on it.
* `IsFiniteSet(events)`, without which the count of `cleanup_old_events` means nothing.
* `CollectorInv`: the rows of the batch before `next` are ingested, and `last` is the
  saved cursor; so the cursor that is saved after the batch has no gap behind it.
* `EngineInv`: from the save to the mark the domain has a decision in the cache; marking
  then keeps `ProcessedIsDecided`. Expiry and later decisions never take one away.
* `AuditInv`: rows name settled decisions, settled decisions exist, and the decision
  in hand is not settled before its row. A new decision is therefore unsettled, and
  a row for it is the first. After a fault or a death the engine drops the decision
  number, which is why a retry cannot repeat the row.

`EngineUntouched`, `CollectorUntouched` and `EngineSteps` sort the actions by what each
part of `IInv` reads, so that every part is proved over its own few cases.
`CacheIsNewestDecision` is inductive beside `IInv`: only a save touches the history,
and it writes the row with the number it appends (`WhoTouchesTheCache`).

`EventPipelineCountingProofs` proves the four properties that count. They are stated
with the cardinality of the sets of lost decisions, repeated queries and lines without
a row, and their proofs follow one member at a time into and out of these sets:

* `LostActionsAreBounded`: a decision leaves the engine's hand either settled, or in a
  fault or a death that `spent` counts.
* `RepeatsAreBounded`: a query that was ingested and lies ahead of the collector will be
  ingested again (`Exposed`); it is at most one batch beyond the cursor (`BatchInv`). The
  invariant bounds repeats and exposed queries together: a pass turns the one into the
  other, and only a death exposes new ones, a batch at most.
* `BlocklistMatchesAudit`: lines without a row are those between the two writes of an
  engine or operator that is there now, and those of a fault or death there. Event ids,
  batches and modes play no part.
* `CleanupKeepsNewest`, for configurations with one cleanup at a time (`OneRunAtATime`;
  disagreement 8 is what happens otherwise): while a run is between count and delete,
  its surplus and the rows to keep still fit into the events (`CountInv`), since
  meanwhile events only come in.

**Migrations.** `MigrationsProofs` proves the types, `VersionsArePrefix`, `RecordLinkedOnce`
and `RemoteIsUsable` for any number of processes, of any releases, and any faults.
`MigrationInv` adds to them that the rows are a prefix of the versions (`Prefix`), that
a process is never more than one version ahead of the rows (`NextIsNear`), because a
commit of its own or a refusal by the primary key is behind it, and that record and
feed are in the shape the versions so far give them (`RecordInv`, `FeedInv`).

**Lifecycle.** `ServiceLifecycleProofs` proves the types, `NoDaemonOnOldSchema` and
`LockHolderRuns` for any administrators, daemons, timers and releases. The invariant
is `MigrationInv` with `CommandsInv`, `DaemonsInv` and `RestInv`. `CommandsInv` relates
what is left of a program to the lock: it still contains the step `lock`, or it is in
its locked part and this process may hold the lock, or it is past the lock or in the
recovery of an upgrade, and does not. `DaemonsInv` says that a daemon that came up has
migrated with a release whose schema the database has; versions never go back.

`NothingLeftWithoutUnit` rests on `UnitsInv`: an uninstall either has the disabling of
all units before it or only removes files (`PlansInv`), other programs remove none, and
while an uninstall that still has its lock, or that nothing overlapped, only removes
files, nothing runs or is enabled (`QuietInv`). Both hold only until a command that was
overlapped acts without the lock (`disturbed`); from then on nothing is claimed
(disagreement 9). Start order and timers must name each unit once, which
`LifecycleAssumption` says of the tuples in the code. `FailedUpgradeRestores` is an
action property, of the step with which a failed upgrade ends. `UpgradeInv`: while an
upgrade goes forward, each unit is as it was found or saved, and those still to be
updated are as they were found; in its recovery each unit is restored, missed, or has
its rewrite before it, which comes before the calls of systemctl. A command that is over
keeps nothing but its result and what its recovery missed, which keeps the state space
small; the proofs recall the rest from the step before (`Recall`).

**Decisions.** `DecisionsProofs` proves `CooldownIsKept`, `RuleDecides`, `CallsAreBounded` and
`UnaskedAIChangesNothing`, for any profiles, answers, analyzers, limits and mishaps.

* `GateInv`: an analyzer between the cooldown check and its call has made no call in the
  present cooldown, and after the call it comes back to the check.
* `RuleInv`: the evidence of infrastructure is decisive and comes first; of any other name
  the evidence of a rule is, so the classifiers behind it are skipped, the model is not
  asked, and the decision comes from it.
* `CountInv`: `TwiceLeft(x) == (M - x)(M - x + 3)` is twice the calls two analyzers can
  still begin when one of them holds the number `x`. For every number a reservation may
  start from, calls made and calls left stay within M(M + 5), but for what the row is
  ahead of that number. An old number written back takes the row down, and with it the
  calls left up, by less than what the calls on the way there have used.
* `EvidenceInv`: the evidence in front of the model is a finite set of items with integer
  weights, none of them decisive and none the model's, and a learned row is a pair of
  numbers. An item without confidence then leaves the influence as it is
  (`NoWeightNoInfluence`), and with it risk, category and verdict (`UnaskedOutcome`).

The influence is a fold over a set in an order nobody chose. That the order does not
matter is proved without induction over sets, which the provers cannot do, by looking at
the smallest set for which it would (`SmallestNumber`, from the library's
well-foundedness of the numbers; `AnyOrder`, `SumsAgree`).

**History and dashboard.** `DashboardProofs` proves `HistoryIsChained`, `HistoryIsWhole` and
`ExplanationIsSound`, for any number of decisions and threads, any stamps and any batch
size of the retention. Retention relinks row by row with a recursive function; what it
ends with is found as above, by the smallest record for which it would be wrong. `ChainInv`
says that each record supersedes the newest kept one before it and that nothing is
newer than the last number given. `DashboardInv` adds the requests: `ReadersInv` relates
what a handler has read, step by step, to the history and to what retention may have
taken from it since, and `AnswersInv` says that it answers when it has read all.

## What is only model-checked

All liveness properties: `FeedsConverge`, `PendingIsHandled`, `QueriesAreIngested`,
`ReachesLatest`, `AIIsAskedAgain`, `PanelCatchesUp`, `LoginSucceeds`; the prover has no
ENABLED. Every safety property of a passing run is proved, three of them on the
conditions named above. The runs with an expected violation show what happens beyond
such conditions.

## Not modelled

* Feed parsing, dry runs, and the legacy source of `import-hosts`, which edits its one
  generation in place.
* A second engine (`engine-once`) beside the service; devices, domain metadata, query
  counts; the alert printer; the rebuild of all reputations; vacuum.
* The prompt for the model, its HTTP retries, and the counters for the status page.
* Dashboard settings, which are written without regard to a command that edits the
  same file, session expiry, a second tab, and the other panels, whose handlers are
  like the two polls.
* Of the lifecycle: the choice of the interpreter, accounts and permissions, the text
  of units, and effects of a systemctl call on some of its units only.
* Setup, health, doctor and status, reports, configuration, command line, logging and
  release scripts. They probe, parse and print, or call operations that are modelled
  in their own component; they keep no state that several steps share.
