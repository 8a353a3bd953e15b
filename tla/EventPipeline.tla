---------------------------- MODULE EventPipeline ----------------------------
(***************************************************************************)
(* The event pipeline: collector/scan.py, the event tables of core/db.py,  *)
(* engine/engine.py with its analysis cache, actions/policy.py and         *)
(* actions/blocklist.py, pihole_ai/rules.py and event cleanup of           *)
(* core/maintenance.py.                                                    *)
(*                                                                         *)
(* Collector, engine, maintenance and an operator are processes that share *)
(* the SQLite database.  Every call of core.db is one transaction and one  *)
(* action; between any two of them the others run, and the process may     *)
(* die (systemd starts collector and engine again).  A Fault is an         *)
(* exception of the call that is due, a busy database for example.         *)
(*                                                                         *)
(* What the classifiers make of a domain is not computed: Save takes any   *)
(* level of risk and any confidence.  The n-th decision has the number n   *)
(* where the code draws dec_<uuid4>; 0 stands for none.  Domain names are  *)
(* in lower case, as Pi-hole stores them.                                  *)
(*                                                                         *)
(* A definition Faulty_X is X with a fault that a change of the code could *)
(* introduce; no specification uses it.                                    *)
(***************************************************************************)
EXTENDS Naturals, FiniteSets, Sequences, FiniteSetsExt

CONSTANTS
    Domains,       \* domain names clients ask for
    None,          \* no domain
    Cleaners,      \* maintenance runs: the daily timer, an administrator
    ActionMode,    \* settings.action_mode
    CollectBatch,  \* settings.collect_batch_size
    EngineBatch,   \* settings.engine_batch_size
    KeepLatest,    \* settings.keep_latest_events
    FirstRules     \* the rules a domain may have from before

\* Bounds on what the environment does; every one is a guard.
CONSTANTS MaxQueries, MaxExpiries, MaxCommands, MaxCleanups, MaxFaults, MaxCrashes

ASSUME SettingsAssumption ==
    /\ None \notin Domains
    /\ ActionMode \in {"off", "dry-run", "block"}
    /\ CollectBatch \in Nat \ {0}
    /\ EngineBatch \in Nat \ {0}
    /\ KeepLatest \in Nat \ {0}
    /\ FirstRules \subseteq {"none", "allow", "block"}

ASSUME PipelineBounds ==
    /\ {MaxQueries, MaxExpiries, MaxCommands} \subseteq Nat
    /\ {MaxCleanups, MaxFaults, MaxCrashes} \subseteq Nat

VARIABLES
    queries,    \* Pi-hole's table: the n-th query has id n
    cursor,     \* app_state: collector.last_query_id
    events,     \* events
    lastEvent,  \* the AUTOINCREMENT counter of events
    analysis,   \* analysis: the latest row of each domain, the cache
    history,    \* decision_history: history[n] is decision n
    reputation, \* domain_reputation: the decision learned from
    rules,      \* domain_rules
    blocklist,  \* how many lines of blocklist.txt name the domain
    audit,      \* action_audit
    collector,  \* the collector process
    engine,     \* the engine process
    cleaning,   \* for each maintenance run the rows it is about to delete
    operator,   \* the operator's rules command
    ingested,   \* history: how often each query became an event
    settled,    \* history: decisions the action policy is done with
    spent       \* how much of each bound is used

tables == <<events, lastEvent, analysis, history, reputation, rules, audit>>
vars == <<queries, cursor, tables, blocklist, collector, engine, cleaning,
          operator, ingested, settled, spent>>

Event == [id : Nat \ {0}, domain : Domains, processed : BOOLEAN]

Risk == {"low", "alert", "high"}   \* below, at alert_threshold, at high_risk_threshold

\* What the cache check reads of a row: confidence > 0, and age within the TTL.
Analysis == [decision : Nat, confident : BOOLEAN, fresh : BOOLEAN]

Result == [risk : Risk, confident : BOOLEAN, manual : BOOLEAN]

Action == {"none", "allow", "block", "suggest_block", "alert", "review"}

Status == {"rule_match", "low_confidence", "pending", "dry_run", "logged",
           "written", "failed", "rule_saved", "removed"}

\* decision is the decision acted on; ref is what the row records of it.
AuditRow ==
    [domain   : Domains,
     action   : (Action \ {"none"}) \cup {"remove_rule"},
     status   : Status,
     ref      : Nat,
     decision : Nat]

Collector == [pc : {"down", "idle", "insert", "save"}, last : Nat, next : Nat, end : Nat]

\* todo holds the rows of get_unprocessed_domains not yet looked at.
Engine ==
    [pc       : {"idle", "lookup", "analyze", "learn", "decide", "append",
                 "written", "failed", "record", "mark"},
     todo     : SUBSET [id : Nat \ {0}, domain : Domains],
     cur      : [id : Nat, domain : Domains \cup {None}],
     decision : Nat,
     result   : Result,
     verdict  : [action : Action, status : Status \cup {"none"}]]

Rule == {"none", "allow", "block"}

Operator == [pc : {"idle", "audit", "append", "written"}, domain : Domains \cup {None},
             rule : Rule, apply : BOOLEAN]

Counters == [expiry : Nat, command : Nat, cleanup : Nat, fault : Nat, crash : Nat]

NoAnalysis == [decision |-> 0, confident |-> FALSE, fresh |-> FALSE]
NoResult == [risk |-> "low", confident |-> FALSE, manual |-> FALSE]
NoVerdict == [action |-> "none", status |-> "none"]
IdleEngine == [pc |-> "idle", todo |-> {}, cur |-> [id |-> 0, domain |-> None],
               decision |-> 0, result |-> NoResult, verdict |-> NoVerdict]
IdleOperator == [pc |-> "idle", domain |-> None, rule |-> "none", apply |-> FALSE]
CollectorDown == [pc |-> "down", last |-> 0, next |-> 0, end |-> 0]

Init ==
    /\ queries = <<>>
    /\ cursor = 0
    /\ events = {}
    /\ lastEvent = 0
    /\ analysis = [d \in Domains |-> NoAnalysis]
    /\ history = <<>>
    /\ reputation = [d \in Domains |-> 0]
    /\ rules \in [Domains -> FirstRules]
    /\ blocklist = [d \in Domains |-> 0]
    /\ audit = <<>>
    /\ collector = CollectorDown
    /\ engine = IdleEngine
    /\ cleaning = [c \in Cleaners |-> 0]
    /\ operator = IdleOperator
    /\ ingested = [q \in 1 .. MaxQueries |-> 0]
    /\ settled = {}
    /\ spent = [expiry |-> 0, command |-> 0, cleanup |-> 0, fault |-> 0, crash |-> 0]

-----------------------------------------------------------------------------
(* Pi-hole and the collector *)

NewQuery(d) ==
    /\ Len(queries) < MaxQueries
    /\ queries' = Append(queries, d)
    /\ UNCHANGED <<cursor, tables, blocklist, collector, engine, cleaning,
                   operator, ingested, settled, spent>>

\* main: load_last_query_id, once per start.
LoadCursor ==
    /\ collector.pc = "down"
    /\ collector' = [pc |-> "idle", last |-> cursor, next |-> 0, end |-> 0]
    /\ UNCHANGED <<queries, cursor, tables, blocklist, engine, cleaning, operator,
                   ingested, settled, spent>>

\* fetch: the ids after the last one, at most a batch of them.
Faulty_BatchEnd ==
    IF collector.last + CollectBatch <= Len(queries) THEN collector.last + CollectBatch
    ELSE collector.last
BatchEnd == Min({Len(queries), collector.last + CollectBatch})

Fetch ==
    /\ collector.pc = "idle"
    /\ collector.last < BatchEnd
    /\ collector' = [pc |-> "insert", last |-> collector.last,
                      next |-> collector.last + 1, end |-> BatchEnd]
    /\ UNCHANGED <<queries, cursor, tables, blocklist, engine, cleaning, operator,
                   ingested, settled, spent>>

Faulty_LastRow == collector.next + 1 >= collector.end
LastRow == collector.next = collector.end

InsertEvent ==
    /\ collector.pc = "insert"
    /\ lastEvent' = lastEvent + 1
    /\ events' = events \cup
            {[id |-> lastEvent', domain |-> queries[collector.next], processed |-> FALSE]}
    /\ ingested' = [ingested EXCEPT ![collector.next] = @ + 1]
    /\ collector' = [pc |-> IF LastRow THEN "save" ELSE "insert", last |-> collector.last,
                      next |-> collector.next + 1, end |-> collector.end]
    /\ UNCHANGED <<queries, cursor, analysis, history, reputation, rules, audit,
                   blocklist, engine, cleaning, operator, settled, spent>>

\* save_last_query_id, once per batch.
Faulty_CursorAfterBatch == cursor
CursorAfterBatch == collector.end

SaveCursor ==
    /\ collector.pc = "save"
    /\ cursor' = CursorAfterBatch
    /\ collector' = [pc |-> "idle", last |-> collector.end, next |-> 0, end |-> 0]
    /\ UNCHANGED <<queries, tables, blocklist, engine, cleaning, operator, ingested,
                   settled, spent>>

\* Nothing is caught in the collector: an exception ends the process as well.
CollectorDies ==
    /\ collector.pc # "down"
    /\ spent.crash < MaxCrashes
    /\ spent' = [spent EXCEPT !.crash = @ + 1]
    /\ collector' = CollectorDown
    /\ UNCHANGED <<queries, cursor, tables, blocklist, engine, cleaning, operator,
                   ingested, settled>>

-----------------------------------------------------------------------------
(* The engine: process_once *)

Faulty_Waits(e) == ~e.processed /\ analysis[e.domain].decision = 0
Waits(e) == ~e.processed

\* One row for each domain with unprocessed events, under its oldest id.
PendingRows ==
    {[id |-> e.id, domain |-> e.domain] : e \in
        {f \in events : /\ Waits(f)
                        /\ \A g \in events :
                              Waits(g) /\ g.domain = f.domain => f.id <= g.id}}

\* The rows of S with the n smallest ids.
Oldest(n, S) == {r \in S : Cardinality({s \in S : s.id < r.id}) < n}

\* is_cache_usable
Usable(a) == a.decision # 0 /\ a.confident /\ a.fresh

EngineOnly == <<queries, cursor, blocklist, collector, cleaning, operator, ingested>>

\* The loop of process_once over the rows still to do.
NextDomain(rows) ==
    \/ rows = {} /\ engine' = IdleEngine
    \/ \E r \in Oldest(1, rows) :
          engine' = [IdleEngine EXCEPT !.pc = "lookup", !.cur = r, !.todo = rows \ {r}]

GetUnprocessedDomains ==
    /\ engine.pc = "idle"
    /\ PendingRows # {}
    /\ NextDomain(Oldest(EngineBatch, PendingRows))
    /\ UNCHANGED <<EngineOnly, tables, settled, spent>>

Cur == engine.cur.domain

LookUp ==
    /\ engine.pc = "lookup"
    /\ engine' = [engine EXCEPT !.pc = IF Usable(analysis[Cur]) THEN "mark" ELSE "analyze"]
    /\ UNCHANGED <<EngineOnly, tables, settled, spent>>

\* Analyzer.analyze: anything, or what a manual rule that is active now decides.
Outcomes(d) ==
    [risk : Risk, confident : BOOLEAN, manual : {FALSE}] \cup
    {[risk |-> IF r = "block" THEN "high" ELSE "low", confident |-> TRUE, manual |-> TRUE] :
        r \in {rules[d]} \ {"none"}}

\* The row of the cache after decision n, by _insert_analysis.
Faulty_CacheRow(row, n, result) ==
    IF row.decision # 0 THEN row
    ELSE [decision |-> n, confident |-> result.confident, fresh |-> TRUE]
CacheRow(row, n, result) == [decision |-> n, confident |-> result.confident, fresh |-> TRUE]

\* save_analysis_with_decision: cache row, decision and history in one transaction.
SaveAnalysis ==
    /\ engine.pc = "analyze"
    /\ \E result \in Outcomes(Cur) :
        LET n == Len(history) + 1 IN
        /\ analysis' = [analysis EXCEPT ![Cur] = CacheRow(@, n, result)]
        /\ history' = Append(history, Cur)
        /\ engine' = [engine EXCEPT !.pc = "learn", !.decision = n,
                         !.result = result]
    /\ UNCHANGED <<EngineOnly, events, lastEvent, reputation, rules, audit, settled, spent>>

\* update_reputation_from_analysis
Learn ==
    /\ engine.pc = "learn"
    /\ reputation' = IF engine.result.confident /\ ~engine.result.manual
                     THEN [reputation EXCEPT ![Cur] = engine.decision] ELSE reputation
    /\ engine' = [engine EXCEPT !.pc = "decide"]
    /\ UNCHANGED <<EngineOnly, events, lastEvent, analysis, history, rules, audit,
                   settled, spent>>

Verdict(action, status) == [action |-> action, status |-> status]

\* decide_action
DecideAction(result, rule) ==
    CASE ActionMode = "off"           -> NoVerdict
      [] ActionMode # "off" /\ rule # "none" -> Verdict(rule, "rule_match")
      [] OTHER ->
         IF ~result.confident THEN Verdict("review", "low_confidence")
         ELSE IF result.risk = "high"
              THEN IF ActionMode = "block" THEN Verdict("block", "pending")
                   ELSE Verdict("suggest_block", "dry_run")
         ELSE IF result.risk = "alert" THEN Verdict("alert", "logged")
         ELSE NoVerdict

\* What apply_action_policy does next with a verdict.
Faulty_StepForDropsReview(v) ==
    IF v.action \in {"none", "review"} THEN "mark"
    ELSE IF v.action = "block" /\ ActionMode = "block" THEN "append" ELSE "record"
Faulty_StepForRecordsNone(v) ==
    IF v.action = "block" /\ ActionMode = "block" THEN "append" ELSE "record"
StepFor(v) ==
    IF v.action = "none" THEN "mark"
    ELSE IF v.action = "block" /\ ActionMode = "block" THEN "append" ELSE "record"

\* apply_action_policy up to its first write.
DecideStep ==
    /\ engine.pc = "decide"
    /\ LET v == DecideAction(engine.result, rules[Cur]) IN
       /\ engine' = [engine EXCEPT !.verdict = v, !.result = NoResult,
                        !.pc = StepFor(v)]
       /\ settled' = IF v.action = "none" THEN settled \cup {engine.decision} ELSE settled
    /\ UNCHANGED <<EngineOnly, tables, spent>>

\* The lines of a domain after block.
Faulty_Appended(lines) == 1
Appended(lines) == lines + 1

\* block: the line first, its audit row next.
AppendLine ==
    /\ engine.pc = "append"
    /\ blocklist' = [blocklist EXCEPT ![Cur] = Appended(@)]
    /\ engine' = [engine EXCEPT !.pc = "written"]
    /\ UNCHANGED <<queries, cursor, tables, collector, cleaning, operator, ingested,
                   settled, spent>>

Row(domain, action, status, ref, decision) ==
    [domain |-> domain, action |-> action, status |-> status, ref |-> ref,
     decision |-> decision]

\* The last write of apply_action_policy: its row, and what it names as decision_ref.
RecordRow(row) ==
    /\ audit' = Append(audit, row)
    /\ settled' = settled \cup {engine.decision}
    /\ engine' = [engine EXCEPT !.pc = "mark"]
    /\ UNCHANGED <<EngineOnly, events, lastEvent, analysis, history, reputation, rules,
                   spent>>

\* block passes no decision_ref.
RecordWritten ==
    /\ engine.pc = "written"
    /\ RecordRow(Row(Cur, "block", "written", 0, engine.decision))

RecordFailed ==
    /\ engine.pc = "failed"
    /\ RecordRow(Row(Cur, "block", "failed", engine.decision, engine.decision))

RecordVerdict ==
    /\ engine.pc = "record"
    /\ RecordRow(Row(Cur, engine.verdict.action, engine.verdict.status, engine.decision,
                     engine.decision))

\* mark_processed_by_domain: every event of the domain, the newest included.
MarkProcessed ==
    /\ engine.pc = "mark"
    /\ events' = {[e EXCEPT !.processed = @ \/ e.domain = Cur] : e \in events}
    /\ NextDomain(engine.todo)
    /\ UNCHANGED <<EngineOnly, lastEvent, analysis, history, reputation, rules, audit,
                   settled, spent>>

\* The call that is due raises.  In block it is caught and recorded as failed, in
\* learning it is swallowed; elsewhere the engine goes on to the next domain.
Faulty_AfterFaultMarks == engine' = [engine EXCEPT !.pc = "mark"]
Faulty_AfterFaultRetries ==
    IF engine.pc = "mark" /\ engine.decision # 0 THEN engine' = [engine EXCEPT !.pc = "decide"]
    ELSE NextDomain(engine.todo)
AfterFault ==
    CASE engine.pc \in {"append", "written"} -> engine' = [engine EXCEPT !.pc = "failed"]
      [] engine.pc = "learn" -> engine' = [engine EXCEPT !.pc = "decide"]
      [] OTHER -> NextDomain(engine.todo)

EngineFault ==
    /\ engine.pc # "idle"
    /\ spent.fault < MaxFaults
    /\ spent' = [spent EXCEPT !.fault = @ + 1]
    /\ AfterFault
    /\ UNCHANGED <<EngineOnly, tables, settled>>

EngineDies ==
    /\ engine.pc # "idle"
    /\ spent.crash < MaxCrashes
    /\ spent' = [spent EXCEPT !.crash = @ + 1]
    /\ engine' = IdleEngine
    /\ UNCHANGED <<EngineOnly, tables, settled>>

-----------------------------------------------------------------------------
(* Time, the operator and maintenance *)

\* The cached analysis becomes older than settings.cache_ttl.
Expire(d) ==
    /\ analysis[d].fresh
    /\ spent.expiry < MaxExpiries
    /\ spent' = [spent EXCEPT !.expiry = @ + 1]
    /\ analysis' = [analysis EXCEPT ![d].fresh = FALSE]
    /\ UNCHANGED <<EngineOnly, events, lastEvent, history, reputation, rules, audit, engine,
                   settled>>

Others == <<queries, cursor, events, lastEvent, analysis, history, reputation, collector,
            engine, cleaning, ingested, settled>>

\* add_rule and remove_rule, up to the audit row; "none" removes the rule.
ChangeRule(d, rule, apply) ==
    /\ operator.pc = "idle"
    /\ rule # "none" \/ rules[d] # "none"
    /\ apply => rule = "block"
    /\ spent.command < MaxCommands
    /\ spent' = [spent EXCEPT !.command = @ + 1]
    /\ rules' = [rules EXCEPT ![d] = rule]
    /\ operator' = [pc |-> "audit", domain |-> d, rule |-> rule, apply |-> apply]
    /\ UNCHANGED <<Others, blocklist, audit>>

AuditRule ==
    /\ operator.pc = "audit"
    /\ audit' = Append(audit,
            IF operator.rule = "none"
            THEN Row(operator.domain, "remove_rule", "removed", 0, 0)
            ELSE Row(operator.domain, operator.rule, "rule_saved", 0, 0))
    /\ operator' = IF operator.apply THEN [operator EXCEPT !.pc = "append"] ELSE IdleOperator
    /\ UNCHANGED <<Others, blocklist, rules, spent>>

ApplyRule ==
    /\ operator.pc = "append"
    /\ blocklist' = [blocklist EXCEPT ![operator.domain] = Appended(@)]
    /\ operator' = [operator EXCEPT !.pc = "written"]
    /\ UNCHANGED <<Others, rules, audit, spent>>

RecordApplied ==
    /\ operator.pc = "written"
    /\ audit' = Append(audit, Row(operator.domain, "block", "written", 0, 0))
    /\ operator' = IdleOperator
    /\ UNCHANGED <<Others, blocklist, rules, spent>>

\* An exception ends the command, and so does the operator.
CommandFails ==
    /\ operator.pc # "idle"
    /\ spent.crash < MaxCrashes
    /\ spent' = [spent EXCEPT !.crash = @ + 1]
    /\ operator' = IdleOperator
    /\ UNCHANGED <<Others, blocklist, rules, audit>>

Faulty_Overflow == (Cardinality(events) - KeepLatest) + 1
Overflow == Cardinality(events) - KeepLatest

\* cleanup_old_events counts in one transaction ...
CountEvents(c) ==
    /\ cleaning[c] = 0
    /\ Cardinality(events) > KeepLatest
    /\ spent.cleanup < MaxCleanups
    /\ spent' = [spent EXCEPT !.cleanup = @ + 1]
    /\ cleaning' = [cleaning EXCEPT ![c] = Overflow]
    /\ UNCHANGED <<queries, cursor, tables, blocklist, collector, engine, operator,
                   ingested, settled>>

\* ... and deletes that many in the next, processed or not.
DeleteEvents(c) ==
    /\ cleaning[c] > 0
    /\ events' = events \ Oldest(cleaning[c], events)
    /\ cleaning' = [cleaning EXCEPT ![c] = 0]
    /\ UNCHANGED <<queries, cursor, lastEvent, analysis, history, reputation, rules, audit,
                   blocklist, collector, engine, operator, ingested, settled, spent>>

-----------------------------------------------------------------------------
CollectorStep == LoadCursor \/ Fetch \/ InsertEvent \/ SaveCursor

EngineStep ==
    \/ GetUnprocessedDomains \/ LookUp \/ SaveAnalysis \/ Learn \/ DecideStep
    \/ AppendLine \/ RecordWritten \/ RecordFailed \/ RecordVerdict \/ MarkProcessed

OperatorStep == AuditRule \/ ApplyRule \/ RecordApplied

Next ==
    \/ CollectorStep
    \/ CollectorDies
    \/ EngineStep
    \/ EngineFault
    \/ EngineDies
    \/ OperatorStep
    \/ CommandFails
    \/ \E d \in Domains : NewQuery(d) \/ Expire(d)
    \/ \E d \in Domains, rule \in Rule, apply \in BOOLEAN : ChangeRule(d, rule, apply)
    \/ \E c \in Cleaners : CountEvents(c) \/ DeleteEvents(c)

Spec == Init /\ [][Next]_vars

\* The loops of both services go on after every pass, and systemd starts a
\* service that died again (Restart=always).  Operator and maintenance may stop.
FairSpec == Spec /\ WF_vars(CollectorStep) /\ WF_vars(EngineStep)

-----------------------------------------------------------------------------
(* Properties *)

\* Every variable keeps the shape of its table or process.
TypeOK ==
    /\ queries \in Seq(Domains)
    /\ cursor \in Nat
    /\ events \in SUBSET Event
    /\ lastEvent \in Nat
    /\ analysis \in [Domains -> Analysis]
    /\ history \in Seq(Domains)
    /\ reputation \in [Domains -> Nat]
    /\ rules \in [Domains -> Rule]
    /\ blocklist \in [Domains -> Nat]
    /\ audit \in Seq(AuditRow)
    /\ collector \in Collector
    /\ engine \in Engine
    /\ cleaning \in [Cleaners -> Nat]
    /\ operator \in Operator
    /\ ingested \in [1 .. MaxQueries -> Nat]
    /\ settled \in SUBSET Nat
    /\ spent \in Counters

\* The saved cursor never runs ahead of the events: whenever the collector
\* dies, no query at or below the cursor is missing (process_batch saves the
\* cursor after the whole batch).
NoQueryLost == \A q \in 1 .. cursor : ingested[q] >= 1

\* The events that are not the first of their query: <<q, k>> is the k-th event of q.
Repeats == UNION {{q} \X (2 .. ingested[q]) : q \in 1 .. MaxQueries}

\* The price: a query can be ingested again, but each death of the collector
\* repeats at most one batch.
RepeatsAreBounded == Cardinality(Repeats) <= spent.crash * CollectBatch

\* No event counts as processed before a decision about its domain is stored,
\* whichever call of the engine failed on the way and however many events the
\* collector added meanwhile.
ProcessedIsDecided ==
    \A e \in events : e.processed => analysis[e.domain].decision # 0

\* The cached row and the history belong together: the cache names a decision
\* of that very domain, and its newest.
CacheIsNewestDecision ==
    \A d \in Domains :
        LET mine == {n \in DOMAIN history : history[n] = d} IN
        analysis[d].decision = IF mine = {} THEN 0 ELSE Max(mine)

\* A decision is acted on once: retries, restarts and cache hits never add a
\* second row of the action policy for it.
ActedOnce ==
    \A i, j \in DOMAIN audit :
        audit[i].decision # 0 /\ audit[i].decision = audit[j].decision => i = j

\* A decision the engine is still acting on.
Underway(n) ==
    engine.decision = n /\ engine.pc \in {"learn", "decide", "append", "written", "failed", "record"}

\* The action of a decision can be lost for good, because the next pass finds
\* the cache filled, but only by a crash or a failed call, one decision each.
LostActionsAreBounded ==
    Cardinality({n \in DOMAIN history : n \notin settled /\ ~Underway(n)})
        <= spent.crash + spent.fault

\* The rows that say a line was written, and the lines: <<d, k>> is the k-th line of d.
WrittenRows == {i \in DOMAIN audit : audit[i].status = "written"}
Lines == UNION {{d} \X (1 .. blocklist[d]) : d \in Domains}

\* A process that has written the line and not yet its row.
BetweenLineAndRow ==
    {w \in [by : {"engine"}, domain : {Cur}] : engine.pc = "written"} \cup
    {w \in [by : {"operator"}, domain : {operator.domain}] : operator.pc = "written"}

\* The audit trail claims no block that is not in blocklist.txt, the rows that are due
\* included, and what the file blocks without a row was left so by a crash or a
\* failed call.
BlocklistMatchesAudit ==
    /\ \A d \in Domains :
          Cardinality({i \in WrittenRows : audit[i].domain = d})
            + Cardinality({w \in BetweenLineAndRow : w.domain = d}) <= blocklist[d]
    /\ Cardinality(Lines) <= Cardinality(WrittenRows) + Cardinality(BetweenLineAndRow)
                               + spent.crash + spent.fault

\* Cleanup deletes the oldest events and leaves keep_latest of them, although
\* the collector inserts between its count and its delete.
CleanupKeepsNewest ==
    [][events' \subseteq events /\ Cardinality(events') < Cardinality(events)
          => /\ Cardinality(events') >= KeepLatest
             /\ \A e \in events \ events', f \in events' : e.id < f.id]_vars

Pending(d) == \E e \in events : e.domain = d /\ ~e.processed

\* A domain that waits is analysed in the end (or its events are cleaned up).
PendingIsHandled == \A d \in Domains : Pending(d) ~> ~Pending(d)

\* Every query Pi-hole logs becomes an event in the end.
QueriesAreIngested ==
    \A q \in 1 .. MaxQueries : Len(queries) >= q ~> ingested[q] >= 1
=============================================================================
