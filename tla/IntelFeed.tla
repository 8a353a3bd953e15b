------------------------------ MODULE IntelFeed ------------------------------
(***************************************************************************)
(* The managed threat-intelligence feeds: pihole_ai/intel.py (the update   *)
(* handler), pihole_ai/intel_feeds.py (fetch and quality gate) and the     *)
(* generation store of core/db.py.                                         *)
(*                                                                         *)
(* An update run holds intel_update_lock (a non-blocking flock, released   *)
(* when the process dies), so at most one run exists at a time: upd is     *)
(* that run.  The lock file is in a runtime directory that systemd removes *)
(* when a unit stops; no unit does so here while a run is under way.       *)
(* One run handles several sources; for each source it makes a chain of    *)
(* separate database calls and one HTTP request, and each call is one      *)
(* action here.  Operator commands (rollback, source add / update /        *)
(* enable / disable / remove) take no lock and run between any two of      *)
(* these steps; each is one SQLite transaction, one action.                *)
(*                                                                         *)
(* Payload bytes, their sha256 and the domains parsed from them are one    *)
(* value of Contents.  ETag and Last-Modified are one value of Validators. *)
(* Dry runs write nothing and are left out.                                *)
(*                                                                         *)
(* A definition Faulty_X is X with a fault that a change of the code could *)
(* introduce; no specification uses it.  Each property of this module is   *)
(* known to fail when one of them takes the place of X.                    *)
(***************************************************************************)
EXTENDS Naturals, FiniteSets, Sequences

CONSTANTS
    Sources,       \* feed source identifiers
    Urls,          \* URLs a source can be configured with
    Contents,      \* payloads a server can publish
    GenIds,        \* generation ids (uuid4 in the code: never reused)
    Validators,    \* values of the ETag / Last-Modified response headers
    None,          \* the empty string or NULL of the schema
    EntryCount,    \* [Contents -> Nat]: accepted domains of a payload
    ValidatorOf,   \* <<url, content>> -> the validator the server sends
    Operations     \* the operator commands of this instance

\* Bounds on what the environment does; every one is a guard.
CONSTANTS MaxPublishes, MaxCommands, MaxFetchErrors, MaxCrashes

ASSUME NoneAssumption ==
    None \notin Sources \cup Urls \cup Contents \cup GenIds \cup Validators

ASSUME PayloadAssumption ==
    /\ EntryCount \in [Contents -> Nat]
    /\ ValidatorOf \in [Urls \X Contents -> Validators \cup {None}]

ASSUME BoundsAssumption ==
    /\ MaxPublishes \in Nat
    /\ MaxCommands \in Nat
    /\ MaxFetchErrors \in Nat
    /\ MaxCrashes \in Nat

\* What HTTP promises of validators: on one URL, one validator names one payload.
ASSUME HttpAssumption ==
    \A u \in Urls, c, d \in Contents :
        ValidatorOf[<<u, c>>] = ValidatorOf[<<u, d>>]
            => c = d \/ ValidatorOf[<<u, c>>] = None

VARIABLES
    source,   \* threat_intel_sources
    state,    \* threat_intel_source_state
    gens,     \* threat_intel_generations with their entries
    usedIds,  \* generation ids drawn so far
    audit,    \* threat_intel_update_audit, see AuditOk
    upd,      \* the update run that holds the lock
    remote,   \* what each URL serves now
    offered,  \* every payload some URL has served
    spent     \* how much of each bound is used

vars == <<source, state, gens, usedIds, audit, upd, remote, offered, spent>>

GenStatus == {"absent", "inactive", "active"}

SourceRow == [present : BOOLEAN, enabled : BOOLEAN, url : Urls]

StateRow ==
    [status : {"unknown", "active", "failed"},
     etag   : Validators \cup {None},
     sha    : Contents \cup {None},
     count  : Nat,
     active : GenIds \cup {None},
     remote : GenIds \cup {None}]

GenRow ==
    [status   : GenStatus,
     source   : Sources \cup {None},
     sha      : Contents \cup {None},
     count    : Nat,
     stored   : Nat,
     previous : GenIds \cup {None}]

Steps == {"idle", "next", "state", "fetch", "resolve", "compare",
          "mark", "reactivate", "import", "fail", "audit"}

UpdateRun ==
    [pc      : Steps,
     todo    : SUBSET Sources,
     src     : Sources \cup {None},
     url     : Urls \cup {None},
     seen    : StateRow,
     http    : {"none", "ok", "not modified"},
     content : Contents \cup {None},
     target  : GenIds \cup {None},
     ok      : BOOLEAN]

Counters == [publish : Nat, command : Nat, error : Nat, crash : Nat]

EmptyState == [status |-> "unknown", etag |-> None, sha |-> None, count |-> 0,
               active |-> None, remote |-> None]

NoGeneration == [status |-> "absent", source |-> None, sha |-> None,
                 count |-> 0, stored |-> 0, previous |-> None]

NoRun == [pc |-> "idle", todo |-> {}, src |-> None, url |-> None,
          seen |-> EmptyState, http |-> "none", content |-> None,
          target |-> None, ok |-> FALSE]

TypeOK ==
    /\ source \in [Sources -> SourceRow]
    /\ state \in [Sources -> StateRow]
    /\ gens \in [GenIds -> GenRow]
    /\ usedIds \subseteq GenIds
    /\ audit \in [Sources -> Seq(GenIds)]
    /\ upd \in UpdateRun
    /\ remote \in [Urls -> Contents]
    /\ offered \subseteq Contents
    /\ spent \in Counters

-----------------------------------------------------------------------------
(* What the queries of core/db.py see.                                      *)

Stored(s, g) == gens[g].status # "absent" /\ gens[g].source = s

ActiveOf(s) == {g \in GenIds : gens[g].status = "active" /\ gens[g].source = s}

\* The state row exists exactly while its source does (foreign key, cascade).
StateOf(s) == IF source[s].present THEN state[s] ELSE EmptyState

\* Every stored generation has activated_at set: it is inserted ("staging") and
\* activated in one transaction.  `stored or -1` makes an empty one invalid.
IsValidRemote(s, g) ==
    /\ g \in GenIds
    /\ Stored(s, g)
    /\ gens[g].stored = gens[g].count
    /\ gens[g].stored # 0

\* Faults: the filter on the source, or on the right status, is missing.
Faulty_ReusableAnySource(s, c) ==
    {g \in GenIds : gens[g].sha = c /\ gens[g].status = "inactive"}

Faulty_ReusableActive(s, c) ==
    {g \in GenIds : Stored(s, g) /\ gens[g].sha = c /\ gens[g].status = "active"}

\* The rows the query sorts by activated_at: all carry the same payload, and
\* the newest is taken; here any of them.
Reusable(s, c) ==
    {g \in GenIds : /\ Stored(s, g)
                    /\ gens[g].sha = c
                    /\ gens[g].status = "inactive"
                    /\ gens[g].stored = gens[g].count}

\* Fault: the sort order of the audit query is lost.
Faulty_LatestRemote(s) ==
    LET oldest(i) == /\ IsValidRemote(s, audit[s][i])
                     /\ \A j \in 1..Len(audit[s]) :
                            j < i => ~IsValidRemote(s, audit[s][j])
    IN  IF \E i \in 1..Len(audit[s]) : oldest(i)
        THEN audit[s][CHOOSE i \in 1..Len(audit[s]) : oldest(i)]
        ELSE None

\* The newest HTTP 200 audit row whose generation is still valid.
LatestRemote(s) ==
    LET newest(i) == /\ IsValidRemote(s, audit[s][i])
                     /\ \A j \in 1..Len(audit[s]) :
                            i < j => ~IsValidRemote(s, audit[s][j])
    IN  IF \E i \in 1..Len(audit[s]) : newest(i)
        THEN audit[s][CHOOSE i \in 1..Len(audit[s]) : newest(i)]
        ELSE None

Gate(n, previous) ==
    /\ n > 0
    /\ ~(previous >= 100 /\ 10 * n < previous)
    /\ ~(previous > 0 /\ n > 10 * previous)

\* Which generation a 304 stands for, from the state row as it was read before
\* the request and the generations and audit rows as they are now.  One step:
\* what the later reads see differs from the first only by rollbacks, which
\* change no answer of the first read, or by a removal, which empties them all.
ResolveRemote(s, seen) ==
    LET latest == LatestRemote(s)
    IN  IF /\ IsValidRemote(s, seen.remote)
           /\ seen.remote = seen.active
           /\ latest \notin {None, seen.remote}
        THEN {latest}
        ELSE IF /\ IsValidRemote(s, seen.remote)
                /\ \/ seen.remote # seen.active
                   \/ seen.sha \in {None, gens[seen.remote].sha}
        THEN {seen.remote}
        ELSE IF seen.sha # None /\ Reusable(s, seen.sha) # {}
        THEN Reusable(s, seen.sha)
        ELSE IF latest # None
        THEN {latest}
        ELSE IF /\ IsValidRemote(s, seen.active)
                /\ seen.sha = gens[seen.active].sha
        THEN {seen.active}
        ELSE {None}

-----------------------------------------------------------------------------
Init ==
    /\ source \in [Sources -> [present : BOOLEAN, enabled : {TRUE}, url : Urls]]
    /\ state = [s \in Sources |-> EmptyState]
    /\ gens = [g \in GenIds |-> NoGeneration]
    /\ usedIds = {}
    /\ audit = [s \in Sources |-> <<>>]
    /\ upd = NoRun
    /\ remote \in [Urls -> Contents]
    /\ offered = {remote[u] : u \in Urls}
    /\ spent = [publish |-> 0, command |-> 0, error |-> 0, crash |-> 0]

\* The feed server replaces the payload of a URL.
Publish(u, c) ==
    /\ spent.publish < MaxPublishes
    /\ c # remote[u]
    /\ remote' = [remote EXCEPT ![u] = c]
    /\ offered' = offered \cup {c}
    /\ spent' = [spent EXCEPT !.publish = @ + 1]
    /\ UNCHANGED <<source, state, gens, usedIds, audit, upd>>

-----------------------------------------------------------------------------
(* The update run.                                                          *)

EnabledSources == {s \in Sources : source[s].present /\ source[s].enabled}

Goto(step) == upd' = [upd EXCEPT !.pc = step]

\* The next source of the loop: the per-source variables of update_source die.
NextInLoop == upd' = [NoRun EXCEPT !.pc = "next", !.todo = upd.todo]

\* update_sources: takes the lock, then lists the sources of the run.
StartRun(todo) ==
    /\ upd.pc = "idle"
    /\ upd' = [NoRun EXCEPT !.pc = "next", !.todo = todo]
    /\ UNCHANGED <<source, state, gens, usedIds, audit, remote, offered>>

\* The systemd timer runs `intel update --all`.
TimerUpdate ==
    /\ StartRun(EnabledSources)
    /\ UNCHANGED spent

\* One operator command out of the bounded number of this instance.
Command(op) ==
    /\ op \in Operations
    /\ spent.command < MaxCommands
    /\ spent' = [spent EXCEPT !.command = @ + 1]

\* `intel update --source s` with any id, or the sources that are due.
CommandUpdate(todo) ==
    /\ Command("intel update")
    /\ todo \subseteq EnabledSources \/ Cardinality(todo) = 1
    /\ StartRun(todo)

FinishUpdate ==
    /\ upd.pc = "next"
    /\ upd.todo = {}
    /\ upd' = NoRun
    /\ UNCHANGED <<source, state, gens, usedIds, audit, remote, offered, spent>>

\* get_intel_source: a source removed or disabled by now ends its turn here.
ReadSource(s) ==
    /\ upd.pc = "next"
    /\ s \in upd.todo
    /\ upd' = IF s \in EnabledSources
              THEN [NoRun EXCEPT !.pc = "state", !.todo = upd.todo \ {s},
                                 !.src = s, !.url = source[s].url]
              ELSE [NoRun EXCEPT !.pc = "next", !.todo = upd.todo \ {s}]
    /\ UNCHANGED <<source, state, gens, usedIds, audit, remote, offered, spent>>

ReadState ==
    /\ upd.pc = "state"
    /\ upd' = [upd EXCEPT !.pc = "fetch", !.seen = StateOf(upd.src)]
    /\ UNCHANGED <<source, state, gens, usedIds, audit, remote, offered, spent>>

ServerValidator == ValidatorOf[<<upd.url, remote[upd.url]>>]

\* fetch_feed, HTTP 304: only when the request carried the current validator.
FetchNotModified ==
    /\ upd.pc = "fetch"
    /\ upd.seen.etag # None
    /\ upd.seen.etag = ServerValidator
    /\ upd' = [upd EXCEPT !.pc = "resolve", !.http = "not modified"]
    /\ UNCHANGED <<source, state, gens, usedIds, audit, remote, offered, spent>>

\* fetch_feed, HTTP 200: a server may also ignore the validator it was sent.
FetchContent ==
    /\ upd.pc = "fetch"
    /\ upd' = [upd EXCEPT !.pc = "compare", !.http = "ok",
                          !.content = remote[upd.url]]
    /\ UNCHANGED <<source, state, gens, usedIds, audit, remote, offered, spent>>

\* fetch_feed raises FeedError: status, size, content type, timeout, network.
FetchError ==
    /\ upd.pc = "fetch"
    /\ spent.error < MaxFetchErrors
    /\ Goto("fail")
    /\ spent' = [spent EXCEPT !.error = @ + 1]
    /\ UNCHANGED <<source, state, gens, usedIds, audit, remote, offered>>

\* The validators of the response; a 304 echoes those of the request.
ResponseValidator ==
    IF upd.http = "not modified" THEN upd.seen.etag ELSE ValidatorOf[<<upd.url, upd.content>>]

\* The 304 branch chooses between reactivation and "not modified".
Resolve ==
    /\ upd.pc = "resolve"
    /\ \E g \in ResolveRemote(upd.src, upd.seen) :
          upd' = [upd EXCEPT !.target = g,
                             !.pc = IF g = None THEN "audit"
                                    ELSE IF upd.seen.active \notin {None, g}
                                    THEN "reactivate"
                                    ELSE "mark"]
    /\ UNCHANGED <<source, state, gens, usedIds, audit, remote, offered, spent>>

\* The 200 branch: quality gate against the entry count read before the fetch,
\* then unchanged, reactivation or import.
RejectContent ==
    /\ upd.pc = "compare"
    /\ ~Gate(EntryCount[upd.content], upd.seen.count)
    /\ Goto("fail")
    /\ UNCHANGED <<source, state, gens, usedIds, audit, remote, offered, spent>>

ContentIsActive ==
    /\ upd.seen.active # None
    /\ Stored(upd.src, upd.seen.active)
    /\ gens[upd.seen.active].sha = upd.content

CompareContent ==
    /\ upd.pc = "compare"
    /\ Gate(EntryCount[upd.content], upd.seen.count)
    /\ \/ /\ ContentIsActive
          /\ upd' = [upd EXCEPT !.pc = "mark", !.target = upd.seen.active]
       \/ /\ ~ContentIsActive
          /\ \E g \in Reusable(upd.src, upd.content) :
                upd' = [upd EXCEPT !.pc = "reactivate", !.target = g]
       \/ /\ ~ContentIsActive
          /\ Reusable(upd.src, upd.content) = {}
          /\ Goto("import")
    /\ UNCHANGED <<source, state, gens, usedIds, audit, remote, offered, spent>>

\* An exception other than FeedError leaves update_sources: the loop is gone,
\* the lock is released, nothing is recorded.
Abandon == upd' = NoRun

\* Faults: the row read before the fetch is trusted; the wrong column is read.
Faulty_CurrentActive(s) == upd.seen.active
Faulty_CurrentColumn(s) == StateOf(s).sha

\* Both activations read the active generation again in their transaction.
CurrentActive(s) == StateOf(s).active

\* activate_intel_generation; the foreign keys reject a source removed meanwhile.
ImportGeneration ==
    /\ upd.pc = "import"
    /\ source[upd.src].present
    /\ \E g \in GenIds \ usedIds :
          LET s        == upd.src
              previous == CurrentActive(s)
              n        == EntryCount[upd.content]
              row      == [status |-> "active", source |-> s, sha |-> upd.content,
                           count |-> n, stored |-> n, previous |-> previous]
          IN  /\ gens' = [h \in GenIds |->
                            IF h = g THEN row
                            ELSE IF h = previous
                            THEN [gens[h] EXCEPT !.status = "inactive"]
                            ELSE gens[h]]
              /\ state' = [state EXCEPT ![s] =
                            [status |-> "active", etag |-> ResponseValidator,
                             sha |-> upd.content, count |-> n,
                             active |-> g, remote |-> g]]
              /\ usedIds' = usedIds \cup {g}
              /\ upd' = [upd EXCEPT !.pc = "audit", !.target = g, !.ok = TRUE]
    /\ UNCHANGED <<source, audit, remote, offered, spent>>

ImportRefused ==
    /\ upd.pc = "import"
    /\ ~source[upd.src].present
    /\ Abandon
    /\ UNCHANGED <<source, state, gens, usedIds, audit, remote, offered, spent>>

\* The checks of activate_existing_threat_intel_generation, in its transaction.
MayReactivate(s, g, previous) ==
    /\ previous \in {None, CurrentActive(s)}
    /\ g \in Reusable(s, gens[g].sha)

\* Every active row of the source becomes inactive, then g active.
Reactivate ==
    /\ upd.pc = "reactivate"
    /\ MayReactivate(upd.src, upd.target, upd.seen.active)
    /\ LET s == upd.src
           g == upd.target
       IN  /\ gens' = [h \in GenIds |->
                         IF h = g THEN [gens[g] EXCEPT !.status = "active",
                                                       !.previous = CurrentActive(s)]
                         ELSE IF h \in ActiveOf(s)
                         THEN [gens[h] EXCEPT !.status = "inactive"]
                         ELSE gens[h]]
           /\ state' = [state EXCEPT ![s] =
                         [status |-> "active", etag |-> ResponseValidator,
                          sha |-> gens[g].sha, count |-> gens[g].count,
                          active |-> g, remote |-> g]]
    /\ upd' = [upd EXCEPT !.pc = "audit", !.ok = TRUE]
    /\ UNCHANGED <<source, usedIds, audit, remote, offered, spent>>

\* Its ValueError is caught and audited on the 304 branch only.
ReactivateRefused ==
    /\ upd.pc = "reactivate"
    /\ ~MayReactivate(upd.src, upd.target, upd.seen.active)
    /\ IF upd.http = "not modified" THEN Goto("audit") ELSE Abandon
    /\ UNCHANGED <<source, state, gens, usedIds, audit, remote, offered, spent>>

\* The content hash is not written, an empty validator keeps the stored one.
NotModifiedRow(row) ==
    [row EXCEPT !.status = IF row.active = None THEN "unknown" ELSE "active",
                !.etag   = IF ResponseValidator = None THEN @ ELSE ResponseValidator,
                !.remote = upd.target]

\* mark_intel_update_not_modified; a removed source has no row to update.
MarkNotModified ==
    /\ upd.pc = "mark"
    /\ state' = IF source[upd.src].present
                THEN [state EXCEPT ![upd.src] = NotModifiedRow(@)]
                ELSE state
    /\ upd' = [upd EXCEPT !.pc = "audit", !.ok = TRUE]
    /\ UNCHANGED <<source, gens, usedIds, audit, remote, offered, spent>>

\* Fault: the validators of the response are stored, although it was rejected.
Faulty_FailedRow(row) ==
    [row EXCEPT !.status = "failed",
                !.etag   = IF upd.content = None THEN @ ELSE ResponseValidator]

FailedRow(row) == [row EXCEPT !.status = "failed"]

\* mark_intel_update_failed; its insert is refused for a removed source.
MarkFailed ==
    /\ upd.pc = "fail"
    /\ IF source[upd.src].present
       THEN /\ state' = [state EXCEPT ![upd.src] = FailedRow(@)]
            /\ upd' = [upd EXCEPT !.pc = "audit", !.http = "none"]
       ELSE /\ Abandon
            /\ UNCHANGED state
    /\ UNCHANGED <<source, gens, usedIds, audit, remote, offered, spent>>

\* record_intel_update_audit.  The only reader of these rows that decides
\* anything looks for the newest valid generation of a successful HTTP 200, so
\* those are the rows kept, and a row that repeats the one before is not added.
AuditOk(s, g) ==
    IF audit[s] # <<>> /\ audit[s][Len(audit[s])] = g
    THEN audit
    ELSE [audit EXCEPT ![s] = Append(@, g)]

RecordAudit ==
    /\ upd.pc = "audit"
    /\ audit' = IF upd.http = "ok" /\ upd.ok THEN AuditOk(upd.src, upd.target)
                ELSE audit
    /\ NextInLoop
    /\ UNCHANGED <<source, state, gens, usedIds, remote, offered, spent>>

\* SIGKILL, power loss, or DatabaseBusyError out of any database call.
Crash ==
    /\ upd.pc # "idle"
    /\ spent.crash < MaxCrashes
    /\ Abandon
    /\ spent' = [spent EXCEPT !.crash = @ + 1]
    /\ UNCHANGED <<source, state, gens, usedIds, audit, remote, offered>>

-----------------------------------------------------------------------------
(* Operator commands, between any two steps of a run.                       *)

\* `intel source add`: an upsert.  An existing source keeps its state row, the
\* validators of its old URL included.
AddSource(s, u, on) ==
    /\ Command("source add")
    /\ source' = [source EXCEPT ![s] = [present |-> TRUE, enabled |-> on, url |-> u]]
    /\ state' = [state EXCEPT ![s] = StateOf(s)]
    /\ UNCHANGED <<gens, usedIds, audit, upd, remote, offered>>

\* `intel source update` of the URL or another fetch setting.
UpdateFetchSettings(s, u) ==
    /\ Command("source update")
    /\ source[s].present
    /\ source' = [source EXCEPT ![s].url = u]
    /\ state' = [state EXCEPT ![s].etag = None]
    /\ UNCHANGED <<gens, usedIds, audit, upd, remote, offered>>

\* `intel source enable`, `disable`.
SetEnabled(s, on) ==
    /\ Command("source enable")
    /\ source[s].present
    /\ source' = [source EXCEPT ![s].enabled = on]
    /\ UNCHANGED <<state, gens, usedIds, audit, upd, remote, offered>>

\* `intel source remove`: the cascade deletes the state row and every generation
\* with its entries; audit rows have no foreign key and stay.
RemoveSource(s) ==
    /\ Command("source remove")
    /\ source[s].present
    /\ source' = [source EXCEPT ![s].present = FALSE, ![s].enabled = TRUE]
    /\ state' = [state EXCEPT ![s] = EmptyState]
    /\ gens' = [g \in GenIds |-> IF gens[g].source = s THEN NoGeneration ELSE gens[g]]
    /\ UNCHANGED <<usedIds, audit, upd, remote, offered>>

\* Fault: the entry count stays that of the generation left.
Faulty_RolledBackRow(row, g) == [row EXCEPT !.active = g, !.status = "active"]

RolledBackRow(row, g) ==
    [row EXCEPT !.active = g, !.count = gens[g].count, !.status = "active"]

\* `intel rollback`: validators, content hash and remote generation stay.  Its
\* own audit row has no HTTP status, see AuditOk.
Rollback(s) ==
    LET current  == state[s].active
        previous == gens[current].previous
    IN  /\ Command("rollback")
        /\ current # None
        /\ previous # None
        /\ gens[previous].status # "absent"
        /\ gens' = [g \in GenIds |->
                      IF g = previous THEN [gens[g] EXCEPT !.status = "active"]
                      ELSE IF g = current THEN [gens[g] EXCEPT !.status = "inactive"]
                      ELSE gens[g]]
        /\ state' = [state EXCEPT ![s] = RolledBackRow(@, previous)]
        /\ UNCHANGED <<source, usedIds, audit, upd, remote, offered>>

-----------------------------------------------------------------------------
\* The steps of a run that has the lock, the way the process takes them.
RunStep ==
    \/ FinishUpdate
    \/ \E s \in Sources : ReadSource(s)
    \/ ReadState
    \/ FetchNotModified \/ FetchContent \/ FetchError
    \/ Resolve
    \/ RejectContent \/ CompareContent
    \/ ImportGeneration \/ ImportRefused
    \/ Reactivate \/ ReactivateRefused
    \/ MarkNotModified \/ MarkFailed
    \/ RecordAudit

OperatorStep ==
    \/ \E todo \in SUBSET Sources : CommandUpdate(todo)
    \/ \E s \in Sources, u \in Urls, on \in BOOLEAN : AddSource(s, u, on)
    \/ \E s \in Sources, u \in Urls : UpdateFetchSettings(s, u)
    \/ \E s \in Sources, on \in BOOLEAN : SetEnabled(s, on)
    \/ \E s \in Sources : RemoveSource(s)
    \/ \E s \in Sources : Rollback(s)

Next ==
    \/ TimerUpdate
    \/ RunStep
    \/ Crash
    \/ OperatorStep
    \/ \E u \in Urls, c \in Contents : Publish(u, c)

Spec == Init /\ [][Next]_vars

\* A started process keeps running, and the timer comes back.
FairSpec == Spec /\ WF_vars(RunStep) /\ WF_vars(TimerUpdate)

-----------------------------------------------------------------------------
(* Properties.                                                              *)

\* Readers find the active generation by its status, writers by the state row's
\* pointer, and an import only resets the generation the pointer names: whatever
\* runs, crashes and operators do, the two name the same generation, so no two
\* generations of a source are ever classified against together.
PointerNamesTheActiveGeneration ==
    \A s \in Sources :
        ActiveOf(s) = IF state[s].active = None THEN {} ELSE {state[s].active}

\* The rollback pointer of every stored generation leads to another stored
\* generation of the same source, though previous_generation is rewritten by
\* every reactivation and the pointers may form cycles.
RollbackPointersResolve ==
    \A s \in Sources, g \in GenIds :
        Stored(s, g) /\ gens[g].previous # None
            => gens[g].previous # g /\ Stored(s, gens[g].previous)

\* While a source serves indicators, its state row describes them: the entry
\* count the next quality gate compares with is that of the active generation,
\* and the generation the validators stand for exists and is of this source.
StateRowDescribesGenerations ==
    \A s \in Sources :
        state[s].active # None =>
            /\ state[s].count = gens[state[s].active].count
            /\ IsValidRemote(s, state[s].active)
            /\ IsValidRemote(s, state[s].remote)
            /\ state[s].sha # None

\* What the classifiers read of each source and what is stored for it.
Serving == [s \in Sources |-> {gens[g].sha : g \in ActiveOf(s)}]
Library == [s \in Sources |-> {gens[g].sha : g \in {h \in GenIds : Stored(s, h)}}]

Service == INSTANCE IntelService WITH serving <- Serving, library <- Library

\* The generation store, with its interrupted and interleaved updates, keeps the
\* promise of IntelService: activation is atomic and last-known-good survives.
ImplementsService == Service!Spec

\* A 304 says that the payload the stored validators name is current: the
\* generation the handler takes it to mean must hold that payload.
NotModifiedMeansValidatedPayload ==
    /\ upd.pc \in {"mark", "reactivate"}
    /\ upd.http = "not modified"
    /\ gens[upd.target].status # "absent"
    => ValidatorOf[<<upd.url, gens[upd.target].sha>>] = upd.seen.etag

\* A payload is stored once per source: updates that bring back an old payload
\* reactivate its generation, also after crashed and refused updates.
PayloadStoredOnce ==
    \A s \in Sources, g \in GenIds, h \in GenIds :
        Stored(s, g) /\ Stored(s, h) /\ gens[g].sha = gens[h].sha => g = h

\* With the environment quiet (its bounds are finite), every configured source
\* ends up serving what its URL publishes, unless the quality gate keeps
\* refusing it: no sequence of failed, raced or repeated updates leaves a
\* source stuck on an old payload.
FeedsConverge ==
    \A s \in Sources :
        <>[](\/ s \notin EnabledSources
             \/ Serving[s] = {remote[source[s].url]}
             \/ ~Gate(EntryCount[remote[source[s].url]], state[s].count))

=============================================================================
