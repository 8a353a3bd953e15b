-------------------------- MODULE EventPipelineProofs --------------------------
(***************************************************************************)
(* Proofs about EventPipeline for every number of domains, queries and     *)
(* maintenance runs, every batch size and every bound.  IInv strengthens   *)
(* the invariants until they are inductive: Placed says what a process     *)
(* holds at each of its steps, CollectorInv which queries the batch in     *)
(* hand has ingested, EngineInv what was stored before the step at hand    *)
(* and AuditInv which decisions rows may name.                             *)
(***************************************************************************)
EXTENDS EventPipeline, SequenceTheorems, FiniteSetTheorems, TLAPS

\* What the processes hold where they are.
Placed ==
    /\ Len(queries) <= MaxQueries
    /\ collector.pc = "insert" => collector.next \in 1 .. Len(queries)
    /\ engine.pc # "idle" => engine.cur \in [id : Nat \ {0}, domain : Domains]
    /\ engine.pc = "record" => /\ engine.verdict.action # "none"
                               /\ engine.verdict.status # "none"
    /\ operator.pc # "idle" => operator.domain \in Domains

\* The steps between the save of a decision and the end of its action.
Acting == {"learn", "decide", "append", "written", "failed", "record"}

\* Everything up to the cursor, and of the batch everything before next, is ingested.
CollectorInv ==
    /\ collector.pc # "down" => collector.last = cursor
    /\ \A q \in 1 .. cursor : ingested[q] >= 1
    /\ collector.pc \in {"insert", "save"} => \A q \in 1 .. (collector.next - 1) : ingested[q] >= 1
    /\ collector.pc = "insert" => collector.next <= collector.end
    /\ collector.pc = "save" => collector.next = collector.end + 1
    /\ collector.end <= Len(queries)
    /\ cursor <= Len(queries)

\* Past the save the domain has a decision, so its events may be marked.
EngineInv ==
    /\ ProcessedIsDecided
    /\ engine.pc \in Acting \cup {"mark"} => analysis[Cur].decision # 0

\* Rows name settled decisions only; the one in hand is not settled before its row.
AuditInv ==
    /\ ActedOnce
    /\ settled \subseteq 1 .. Len(history)
    /\ \A i \in DOMAIN audit : audit[i].decision # 0 => audit[i].decision \in settled
    /\ engine.pc \in Acting => engine.decision \in (1 .. Len(history)) \ settled

IInv ==
    /\ TypeOK /\ Placed
    /\ IsFiniteSet(events)
    /\ CollectorInv /\ EngineInv /\ AuditInv

LEMMA MinOfTwo ==
    ASSUME NEW a \in Nat, NEW b \in Nat
    PROVE  /\ Min({a, b}) \in {a, b}
           /\ Min({a, b}) <= a
           /\ Min({a, b}) <= b
  <1>1. \E x \in {a, b} : \A y \in {a, b} : x <= y
    OBVIOUS
  <1> QED BY <1>1 DEF Min

\* The tables are empty and the processes idle.
LEMMA InitInv == Init => IInv
<1> SUFFICES ASSUME Init PROVE IInv
  OBVIOUS
<1>1. TypeOK
  <2>1. analysis \in [Domains -> Analysis]
    BY DEF Init, Analysis, NoAnalysis
  <2>2. collector \in Collector
    BY DEF Init, Collector, CollectorDown
  <2>3. engine \in Engine
    BY DEF Init, Engine, IdleEngine, Result, NoResult, NoVerdict, Action, Status, Risk
  <2>4. operator \in Operator
    BY DEF Init, Operator, IdleOperator, Rule
  <2>5. rules \in [Domains -> Rule]
    BY SettingsAssumption DEF Init, Rule
  <2>6. spent \in Counters
    BY DEF Init, Counters
  <2>7. /\ queries \in Seq(Domains)
        /\ history \in Seq(Domains)
        /\ audit \in Seq(AuditRow)
    BY DEF Init
  <2>8. /\ cursor \in Nat
        /\ events \in SUBSET Event
        /\ lastEvent \in Nat
        /\ reputation \in [Domains -> Nat]
        /\ blocklist \in [Domains -> Nat]
        /\ cleaning \in [Cleaners -> Nat]
        /\ ingested \in [1 .. MaxQueries -> Nat]
        /\ settled \in SUBSET Nat
    BY DEF Init
  <2> QED
    BY <2>1, <2>2, <2>3, <2>4, <2>5, <2>6, <2>7, <2>8 DEF TypeOK
<1>2. Placed
  BY PipelineBounds DEF Init, Placed, CollectorDown, IdleEngine, IdleOperator
<1>3. CollectorInv
  BY DEF Init, CollectorInv, CollectorDown
<1>4. EngineInv
  BY DEF Init, EngineInv, ProcessedIsDecided, IdleEngine, Acting
<1>5. AuditInv
  BY DEF Init, AuditInv, ActedOnce, IdleEngine, Acting
<1>6. IsFiniteSet(events)
  BY FS_EmptySet DEF Init
<1> QED
  BY <1>1, <1>2, <1>3, <1>4, <1>5, <1>6 DEF IInv

-----------------------------------------------------------------------------
(* Type correctness, one lemma per process *)

\* One more of anything bounded.
LEMMA CountersType ==
    ASSUME NEW c \in Counters
    PROVE  /\ [c EXCEPT !.expiry = @ + 1] \in Counters
           /\ [c EXCEPT !.command = @ + 1] \in Counters
           /\ [c EXCEPT !.cleanup = @ + 1] \in Counters
           /\ [c EXCEPT !.fault = @ + 1] \in Counters
           /\ [c EXCEPT !.crash = @ + 1] \in Counters
BY DEF Counters

LEMMA CollectorTypes ==
    ASSUME TypeOK, Placed, CollectorInv,
           \/ \E d \in Domains : NewQuery(d)
           \/ CollectorStep \/ CollectorDies
    PROVE  TypeOK' /\ Placed'
<1>1. /\ collector.pc \in {"down", "idle", "insert", "save"}
      /\ collector.last \in Nat /\ collector.next \in Nat /\ collector.end \in Nat
  BY DEF TypeOK, Collector
<1>2. cursor \in Nat /\ lastEvent \in Nat /\ queries \in Seq(Domains) /\ MaxQueries \in Nat
  BY PipelineBounds DEF TypeOK
<1>3. Len(queries) \in Nat
  BY <1>2
<1>4. CASE \E d \in Domains : NewQuery(d)
  <2>1. PICK d \in Domains : NewQuery(d)
    BY <1>4
  <2>2. queries' = Append(queries, d) /\ Len(queries) < MaxQueries
    BY <2>1 DEF NewQuery
  <2>3. queries' \in Seq(Domains) /\ Len(queries') = Len(queries) + 1
    BY <1>2, <2>2
  <2>4. Len(queries') <= MaxQueries /\ 1 .. Len(queries) \subseteq 1 .. Len(queries')
    BY <1>2, <1>3, <2>2, <2>3
  <2> QED
    BY <2>1, <2>3, <2>4 DEF TypeOK, Placed, NewQuery, tables
<1>5. CASE LoadCursor
  <2>1. collector' \in Collector /\ collector'.pc # "insert"
    BY <1>2, <1>5 DEF LoadCursor, Collector
  <2> QED
    BY <1>5, <2>1 DEF TypeOK, Placed, LoadCursor, tables
<1>6. CASE Fetch
  <2>1. collector.last + CollectBatch \in Nat
    BY <1>1, SettingsAssumption
  <2>2. BatchEnd \in Nat /\ BatchEnd <= Len(queries)
    BY <1>3, <2>1, MinOfTwo DEF BatchEnd
  <2>3. collector' = [pc |-> "insert", last |-> collector.last,
                      next |-> collector.last + 1, end |-> BatchEnd]
        /\ collector.last < BatchEnd
    BY <1>6 DEF Fetch
  <2>4. collector' \in Collector /\ collector'.next \in 1 .. Len(queries)
    BY <1>1, <1>3, <2>2, <2>3 DEF Collector
  <2> QED
    BY <1>6, <2>4 DEF TypeOK, Placed, Fetch, tables
<1>7. CASE InsertEvent
  <2>1. collector.next \in 1 .. Len(queries) /\ Len(queries) <= MaxQueries
    BY <1>7 DEF Placed, InsertEvent
  <2>2. queries[collector.next] \in Domains /\ collector.next \in 1 .. MaxQueries
    BY <1>2, <1>3, <2>1
  <2>3. lastEvent' \in Nat /\ lastEvent' # 0
    BY <1>2, <1>7 DEF InsertEvent
  <2>4. [id |-> lastEvent', domain |-> queries[collector.next], processed |-> FALSE] \in Event
    BY <2>2, <2>3 DEF Event
  <2>5. events' \in SUBSET Event
    BY <1>7, <2>4 DEF TypeOK, InsertEvent
  <2>6. ingested \in [1 .. MaxQueries -> Nat]
        /\ ingested' = [ingested EXCEPT ![collector.next] = @ + 1]
    BY <1>7 DEF TypeOK, InsertEvent
  <2>7. ingested' \in [1 .. MaxQueries -> Nat]
    BY <2>2, <2>6
  <2>8. collector' = [pc |-> IF LastRow THEN "save" ELSE "insert", last |-> collector.last,
                      next |-> collector.next + 1, end |-> collector.end]
    BY <1>7 DEF InsertEvent
  <2>9. collector' \in Collector
    BY <1>1, <2>8 DEF Collector
  <2>10. collector.next <= collector.end /\ collector.end <= Len(queries)
    BY <1>7 DEF CollectorInv, InsertEvent
  <2>11. collector'.pc = "insert" => collector'.next \in 1 .. Len(queries)
    BY <1>1, <1>3, <2>8, <2>10 DEF LastRow
  <2> QED
    BY <1>7, <2>3, <2>5, <2>7, <2>9, <2>11 DEF TypeOK, Placed, InsertEvent
<1>8. CASE SaveCursor
  <2>1. collector' \in Collector /\ collector'.pc # "insert" /\ cursor' \in Nat
    BY <1>1, <1>8 DEF SaveCursor, Collector, CursorAfterBatch
  <2> QED
    BY <1>8, <2>1 DEF TypeOK, Placed, SaveCursor, tables
<1>9. CASE CollectorDies
  <2>1. collector' \in Collector /\ collector'.pc # "insert"
    BY <1>9 DEF CollectorDies, CollectorDown, Collector
  <2>2. spent' \in Counters
    BY <1>9, CountersType DEF TypeOK, CollectorDies
  <2> QED
    BY <1>9, <2>1, <2>2 DEF TypeOK, Placed, CollectorDies, tables
<1> QED
  BY <1>4, <1>5, <1>6, <1>7, <1>8, <1>9 DEF CollectorStep

DomainRow == [id : Nat \ {0}, domain : Domains]

\* The loop starts with a row of the batch, or ends.
LEMMA NextDomainTypes ==
    ASSUME NEW rows \in SUBSET DomainRow, NextDomain(rows)
    PROVE  /\ engine' \in Engine
           /\ engine'.pc \in {"idle", "lookup"}
           /\ engine'.pc # "idle" => engine'.cur \in DomainRow
<1>1. IdleEngine \in Engine /\ IdleEngine.pc = "idle"
  BY DEF Engine, IdleEngine, NoResult, NoVerdict, Result, Risk, Action, Status
<1>2. ASSUME NEW r \in Oldest(1, rows),
             engine' = [IdleEngine EXCEPT !.pc = "lookup", !.cur = r, !.todo = rows \ {r}]
      PROVE  engine' \in Engine /\ engine'.pc = "lookup" /\ engine'.cur \in DomainRow
  <2>1. r \in DomainRow
    BY <1>2 DEF Oldest
  <2>2. engine' = [pc |-> "lookup", todo |-> rows \ {r}, cur |-> r, decision |-> 0,
                   result |-> NoResult, verdict |-> NoVerdict]
    BY <1>2 DEF IdleEngine
  <2>3. r \in [id : Nat, domain : Domains \cup {None}]
    BY <2>1 DEF DomainRow
  <2> QED
    BY <2>1, <2>2, <2>3 DEF Engine, DomainRow, NoResult, NoVerdict, Result, Risk, Action, Status
<1>3. CASE rows = {} /\ engine' = IdleEngine
  BY <1>1, <1>3
<1>4. CASE \E r \in Oldest(1, rows) :
            engine' = [IdleEngine EXCEPT !.pc = "lookup", !.cur = r, !.todo = rows \ {r}]
  <2>1. PICK r \in Oldest(1, rows) :
            engine' = [IdleEngine EXCEPT !.pc = "lookup", !.cur = r, !.todo = rows \ {r}]
    BY <1>4
  <2>2. engine' \in Engine /\ engine'.pc = "lookup" /\ engine'.cur \in DomainRow
    BY <1>2, <2>1
  <2> QED
    BY <2>2
<1> QED
  BY <1>3, <1>4 DEF NextDomain

LEMMA PendingRowsType ==
    ASSUME TypeOK
    PROVE  PendingRows \in SUBSET DomainRow
BY DEF TypeOK, PendingRows, Event, DomainRow

\* A step of the engine that moves within one domain.
LEMMA EngineMoves ==
    ASSUME NEW e \in Engine, e.pc # "idle",
           NEW pc \in {"lookup", "analyze", "learn", "decide", "append", "written", "failed",
                       "record", "mark"}
    PROVE  /\ [e EXCEPT !.pc = pc] \in Engine
           /\ [e EXCEPT !.pc = pc].pc = pc
           /\ [e EXCEPT !.pc = pc].cur = e.cur
           /\ [e EXCEPT !.pc = pc].decision = e.decision
           /\ [e EXCEPT !.pc = pc].verdict = e.verdict
           /\ [e EXCEPT !.pc = pc].result = e.result
BY DEF Engine

LEMMA DecideActionType ==
    ASSUME NEW result \in Result, NEW rule \in Rule
    PROVE  /\ DecideAction(result, rule) \in [action : Action, status : Status \cup {"none"}]
           /\ DecideAction(result, rule).action # "none" =>
                 DecideAction(result, rule).status # "none"
BY DEF DecideAction, Verdict, NoVerdict, Result, Rule, Action, Status, Risk

\* A row of the audit is typed when its parts are.
LEMMA RecordRowTypes ==
    ASSUME TypeOK, engine.pc # "idle", NEW row \in AuditRow, RecordRow(row)
    PROVE  /\ engine' \in Engine
           /\ engine'.pc = "mark" /\ engine'.cur = engine.cur
           /\ audit' \in Seq(AuditRow)
           /\ settled' \in SUBSET Nat
<1>1. engine' = [engine EXCEPT !.pc = "mark"] /\ audit' = Append(audit, row)
      /\ settled' = settled \cup {engine.decision}
  BY DEF RecordRow
<1>2. engine \in Engine /\ audit \in Seq(AuditRow) /\ settled \in SUBSET Nat
  BY DEF TypeOK
<1>3. engine' \in Engine /\ engine'.pc = "mark" /\ engine'.cur = engine.cur
  BY <1>1, <1>2, EngineMoves
<1>4. audit' \in Seq(AuditRow)
  BY <1>1, <1>2
<1>5. engine.decision \in Nat
  BY <1>2 DEF Engine
<1> QED
  BY <1>1, <1>2, <1>3, <1>4, <1>5

\* What is left of a batch or of the queue is a set of rows.
LEMMA OldestSubset ==
    ASSUME NEW n \in Nat, NEW S
    PROVE  Oldest(n, S) \subseteq S
BY DEF Oldest

LEMMA EngineTypes ==
    ASSUME TypeOK, Placed, EngineStep \/ EngineFault \/ EngineDies
    PROVE  TypeOK' /\ Placed'
<1>1. engine \in Engine /\ engine.todo \in SUBSET DomainRow
  BY DEF TypeOK, Engine, DomainRow
<1>2. engine.pc # "idle" => engine.cur \in DomainRow /\ Cur \in Domains
  BY DEF Placed, Cur, DomainRow
<1>3. engine.decision \in Nat /\ engine.result \in Result
      /\ engine.verdict \in [action : Action, status : Status \cup {"none"}]
  BY <1>1 DEF Engine
<1>4. IdleEngine \in Engine /\ IdleEngine.pc = "idle"
  BY DEF Engine, IdleEngine, NoResult, NoVerdict, Result, Risk, Action, Status
<1>5. NextDomain(engine.todo) => /\ engine' \in Engine
                                 /\ engine'.pc \in {"idle", "lookup"}
                                 /\ engine'.pc # "idle" => engine'.cur \in DomainRow
  BY <1>1, NextDomainTypes
<1> DEFINE EngineOK ==
             /\ engine' \in Engine
             /\ engine'.pc # "idle" => engine'.cur \in DomainRow
             /\ engine'.pc = "record" => /\ engine'.verdict.action # "none"
                                        /\ engine'.verdict.status # "none"
<1>6. ASSUME EngineOK, UNCHANGED <<queries, collector, operator>>
      PROVE  Placed'
  BY <1>6 DEF Placed, DomainRow
<1>7. CASE GetUnprocessedDomains
  <2>1. Oldest(EngineBatch, PendingRows) \in SUBSET DomainRow
    BY PendingRowsType, OldestSubset, SettingsAssumption
  <2>2. NextDomain(Oldest(EngineBatch, PendingRows))
    BY <1>7 DEF GetUnprocessedDomains
  <2>3. EngineOK
    BY <2>1, <2>2, NextDomainTypes
  <2> QED
    BY <1>6, <1>7, <2>3 DEF TypeOK, GetUnprocessedDomains, EngineOnly, tables
<1>8. CASE LookUp
  <2>1. engine.pc = "lookup"
        /\ engine' = [engine EXCEPT !.pc = IF Usable(analysis[Cur]) THEN "mark" ELSE "analyze"]
    BY <1>8 DEF LookUp
  <2>2. EngineOK
    <3>1. CASE Usable(analysis[Cur])
      <4>1. engine.pc # "idle" /\ engine' = [engine EXCEPT !.pc = "mark"]
        BY <2>1, <3>1
      <4> QED
        BY <1>1, <1>2, <4>1, EngineMoves
    <3>2. CASE ~Usable(analysis[Cur])
      <4>1. engine.pc # "idle" /\ engine' = [engine EXCEPT !.pc = "analyze"]
        BY <2>1, <3>2
      <4> QED
        BY <1>1, <1>2, <4>1, EngineMoves
    <3> QED
      BY <3>1, <3>2
  <2> QED
    BY <1>6, <1>8, <2>2 DEF TypeOK, LookUp, EngineOnly, tables
<1>9. CASE SaveAnalysis
  <2>1. PICK result \in Outcomes(Cur) :
          /\ analysis' = [analysis EXCEPT ![Cur] = CacheRow(@, Len(history) + 1, result)]
          /\ history' = Append(history, Cur)
          /\ engine' = [engine EXCEPT !.pc = "learn", !.decision = Len(history) + 1,
                           !.result = result]
    BY <1>9 DEF SaveAnalysis
  <2>2. engine.pc = "analyze" /\ Cur \in Domains
    BY <1>2, <1>9 DEF SaveAnalysis
  <2>3. history \in Seq(Domains) /\ Len(history) + 1 \in Nat
    BY DEF TypeOK
  <2>4. result \in Result
    <3>1. CASE result \in [risk : Risk, confident : BOOLEAN, manual : {FALSE}]
      BY <3>1 DEF Result
    <3>2. CASE \E r \in {rules[Cur]} \ {"none"} :
                 result = [risk |-> IF r = "block" THEN "high" ELSE "low",
                           confident |-> TRUE, manual |-> TRUE]
      BY <3>2 DEF Result, Risk
    <3> QED
      BY <2>1, <3>1, <3>2 DEF Outcomes
  <2>5. CacheRow(analysis[Cur], Len(history) + 1, result) \in Analysis
    BY <2>3, <2>4 DEF CacheRow, Analysis, Result
  <2>6. analysis' \in [Domains -> Analysis]
    BY <2>1, <2>2, <2>5 DEF TypeOK
  <2>7. history' \in Seq(Domains)
    BY <2>1, <2>2, <2>3
  <2>8. EngineOK
    <3>1. engine' \in Engine
      BY <1>1, <2>1, <2>3, <2>4 DEF Engine
    <3>2. engine'.pc = "learn" /\ engine'.cur = engine.cur
      BY <1>1, <2>1 DEF Engine
    <3> QED
      BY <1>2, <2>2, <3>1, <3>2
  <2> QED
    BY <1>6, <1>9, <2>6, <2>7, <2>8 DEF TypeOK, SaveAnalysis, EngineOnly
<1>10. CASE Learn
  <2>1. engine.pc = "learn" /\ Cur \in Domains /\ engine' = [engine EXCEPT !.pc = "decide"]
    BY <1>2, <1>10 DEF Learn
  <2>2. EngineOK
    BY <1>1, <1>2, <2>1, EngineMoves
  <2>3. reputation' \in [Domains -> Nat]
    BY <1>3, <1>10, <2>1 DEF TypeOK, Learn
  <2> QED
    BY <1>6, <1>10, <2>2, <2>3 DEF TypeOK, Learn, EngineOnly
<1>11. CASE DecideStep
  <2> DEFINE v == DecideAction(engine.result, rules[Cur])
  <2>1. engine.pc = "decide" /\ Cur \in Domains
    BY <1>2, <1>11 DEF DecideStep
  <2>2. engine' = [engine EXCEPT !.verdict = v, !.result = NoResult, !.pc = StepFor(v)]
        /\ settled' = IF v.action = "none" THEN settled \cup {engine.decision} ELSE settled
    BY <1>11 DEF DecideStep
  <2>3. rules[Cur] \in Rule
    BY <2>1 DEF TypeOK
  <2>4. v \in [action : Action, status : Status \cup {"none"}]
        /\ (v.action # "none" => v.status # "none")
    BY <1>3, <2>3, DecideActionType
  <2>5. NoResult \in Result /\ StepFor(v) \in {"mark", "append", "record"}
        /\ (StepFor(v) = "record" => v.action # "none")
    BY DEF NoResult, Result, Risk, StepFor
  <2> HIDE DEF v
  <2>6. engine' \in Engine /\ engine'.pc = StepFor(v) /\ engine'.verdict = v
        /\ engine'.cur = engine.cur
    BY <1>1, <2>2, <2>4, <2>5 DEF Engine
  <2>7. EngineOK
    BY <1>2, <2>1, <2>4, <2>5, <2>6
  <2>8. settled' \in SUBSET Nat
    BY <1>3, <2>2 DEF TypeOK
  <2> QED
    BY <1>6, <1>11, <2>7, <2>8 DEF TypeOK, DecideStep, EngineOnly, tables
<1>12. CASE AppendLine
  <2>1. engine.pc = "append" /\ Cur \in Domains /\ engine' = [engine EXCEPT !.pc = "written"]
    BY <1>2, <1>12 DEF AppendLine
  <2>2. EngineOK
    BY <1>1, <1>2, <2>1, EngineMoves
  <2>3. blocklist' \in [Domains -> Nat]
    BY <1>12, <2>1 DEF TypeOK, AppendLine, Appended
  <2> QED
    BY <1>6, <1>12, <2>2, <2>3 DEF TypeOK, AppendLine, tables
<1>13. ASSUME NEW row \in AuditRow, RecordRow(row), engine.pc # "idle"
       PROVE  TypeOK' /\ Placed'
  <2>1. EngineOK /\ audit' \in Seq(AuditRow) /\ settled' \in SUBSET Nat
    BY <1>2, <1>13, RecordRowTypes
  <2> QED
    BY <1>6, <1>13, <2>1 DEF TypeOK, RecordRow, EngineOnly
<1>14. CASE RecordWritten
  <2>1. engine.pc = "written" /\ RecordRow(Row(Cur, "block", "written", 0, engine.decision))
    BY <1>14 DEF RecordWritten
  <2>2. Row(Cur, "block", "written", 0, engine.decision) \in AuditRow
    BY <1>2, <1>3, <2>1 DEF Row, AuditRow, Action, Status
  <2> QED
    BY <1>13, <2>1, <2>2
<1>15. CASE RecordFailed
  <2>1. engine.pc = "failed"
        /\ RecordRow(Row(Cur, "block", "failed", engine.decision, engine.decision))
    BY <1>15 DEF RecordFailed
  <2>2. Row(Cur, "block", "failed", engine.decision, engine.decision) \in AuditRow
    BY <1>2, <1>3, <2>1 DEF Row, AuditRow, Action, Status
  <2> QED
    BY <1>13, <2>1, <2>2
<1>16. CASE RecordVerdict
  <2>1. engine.pc = "record"
        /\ RecordRow(Row(Cur, engine.verdict.action, engine.verdict.status, engine.decision,
                         engine.decision))
    BY <1>16 DEF RecordVerdict
  <2>2. engine.verdict.action \in Action \ {"none"} /\ engine.verdict.status \in Status
    BY <1>3, <2>1 DEF Placed
  <2>3. Row(Cur, engine.verdict.action, engine.verdict.status, engine.decision,
            engine.decision) \in AuditRow
    BY <1>2, <1>3, <2>1, <2>2 DEF Row, AuditRow
  <2> QED
    BY <1>13, <2>1, <2>3
<1>17. CASE MarkProcessed
  <2>1. EngineOK
    BY <1>5, <1>17 DEF MarkProcessed
  <2>2. ASSUME NEW e \in Event
        PROVE  [e EXCEPT !.processed = @ \/ e.domain = Cur] \in Event
    BY DEF Event
  <2>3. events' = {[e EXCEPT !.processed = @ \/ e.domain = Cur] : e \in events}
    BY <1>17 DEF MarkProcessed
  <2>4. events' \in SUBSET Event
    BY <2>2, <2>3 DEF TypeOK
  <2> QED
    BY <1>6, <1>17, <2>1, <2>4 DEF TypeOK, MarkProcessed, EngineOnly
<1>18. CASE EngineFault
  <2>1. engine.pc # "idle" /\ AfterFault
    BY <1>18 DEF EngineFault
  <2>2. EngineOK
    <3>1. CASE engine.pc \in {"append", "written"}
      <4>1. engine' = [engine EXCEPT !.pc = "failed"]
        BY <2>1, <3>1 DEF AfterFault
      <4> QED
        BY <1>1, <1>2, <2>1, <4>1, EngineMoves
    <3>2. CASE engine.pc = "learn"
      <4>1. engine' = [engine EXCEPT !.pc = "decide"]
        BY <2>1, <3>2 DEF AfterFault
      <4> QED
        BY <1>1, <1>2, <2>1, <4>1, EngineMoves
    <3>3. CASE engine.pc \notin {"append", "written", "learn"}
      BY <1>5, <2>1, <3>3 DEF AfterFault
    <3> QED
      BY <3>1, <3>2, <3>3
  <2>3. spent' \in Counters
    BY <1>18, CountersType DEF TypeOK, EngineFault
  <2> QED
    BY <1>6, <1>18, <2>2, <2>3 DEF TypeOK, EngineFault, EngineOnly, tables
<1>19. CASE EngineDies
  <2>1. EngineOK
    BY <1>4, <1>19 DEF EngineDies
  <2>2. spent' \in Counters
    BY <1>19, CountersType DEF TypeOK, EngineDies
  <2> QED
    BY <1>6, <1>19, <2>1, <2>2 DEF TypeOK, EngineDies, EngineOnly, tables
<1> QED
  BY <1>7, <1>8, <1>9, <1>10, <1>11, <1>12, <1>14, <1>15, <1>16, <1>17, <1>18, <1>19
     DEF EngineStep

\* Time, the operator and maintenance.
LEMMA OtherTypes ==
    ASSUME TypeOK, Placed, IsFiniteSet(events),
           \/ OperatorStep \/ CommandFails
           \/ \E d \in Domains : Expire(d)
           \/ \E d \in Domains, rule \in Rule, apply \in BOOLEAN : ChangeRule(d, rule, apply)
           \/ \E c \in Cleaners : CountEvents(c) \/ DeleteEvents(c)
    PROVE  TypeOK' /\ Placed'
<1>1. operator \in Operator /\ (operator.pc # "idle" => operator.domain \in Domains)
  BY DEF TypeOK, Placed
<1>2. IdleOperator \in Operator /\ IdleOperator.pc = "idle"
  BY DEF IdleOperator, Operator, Rule
<1>3. ASSUME NEW d \in Domains, Expire(d)
      PROVE  TypeOK' /\ Placed'
  <2>1. spent' \in Counters
    BY <1>3, CountersType DEF TypeOK, Expire
  <2>2. analysis' = [analysis EXCEPT ![d].fresh = FALSE] /\ analysis \in [Domains -> Analysis]
    BY <1>3 DEF TypeOK, Expire
  <2>3. [analysis[d] EXCEPT !.fresh = FALSE] \in Analysis
    BY <1>3, <2>2 DEF Analysis
  <2>4. analysis' = [analysis EXCEPT ![d] = [analysis[d] EXCEPT !.fresh = FALSE]]
    BY <2>2
  <2>5. analysis' \in [Domains -> Analysis]
    BY <2>2, <2>3, <2>4
  <2> QED
    BY <1>3, <2>1, <2>5 DEF TypeOK, Placed, Expire, EngineOnly
<1>4. ASSUME NEW d \in Domains, NEW rule \in Rule, NEW apply \in BOOLEAN,
             ChangeRule(d, rule, apply)
      PROVE  TypeOK' /\ Placed'
  <2>1. spent' \in Counters /\ rules' \in [Domains -> Rule]
    BY <1>4, CountersType DEF TypeOK, ChangeRule
  <2>2. operator' = [pc |-> "audit", domain |-> d, rule |-> rule, apply |-> apply]
    BY <1>4 DEF ChangeRule
  <2>3. operator' \in Operator /\ operator'.domain \in Domains
    BY <2>2 DEF Operator
  <2> QED
    BY <1>4, <2>1, <2>3 DEF TypeOK, Placed, ChangeRule, Others
<1>5. CASE AuditRule
  <2>1. operator.pc = "audit" /\ operator.domain \in Domains /\ operator.rule \in Rule
    BY <1>1, <1>5 DEF AuditRule, Operator
  <2>2. Row(operator.domain, "remove_rule", "removed", 0, 0) \in AuditRow
    BY <2>1 DEF Row, AuditRow, Action, Status
  <2>3. operator.rule # "none" => Row(operator.domain, operator.rule, "rule_saved", 0, 0) \in AuditRow
    BY <2>1 DEF Row, AuditRow, Action, Status, Rule
  <2>4. PICK row \in AuditRow : audit' = Append(audit, row)
    <3>1. CASE operator.rule = "none"
      BY <1>5, <2>2, <3>1 DEF AuditRule
    <3>2. CASE operator.rule # "none"
      BY <1>5, <2>3, <3>2 DEF AuditRule
    <3> QED
      BY <3>1, <3>2
  <2>5. audit' \in Seq(AuditRow)
    BY <2>4 DEF TypeOK
  <2>6. operator' = [operator EXCEPT !.pc = "append"] \/ operator' = IdleOperator
    BY <1>5 DEF AuditRule
  <2>7. operator' \in Operator /\ (operator'.pc # "idle" => operator'.domain \in Domains)
    <3>1. CASE operator' = IdleOperator
      BY <1>2, <3>1
    <3>2. CASE operator' = [operator EXCEPT !.pc = "append"]
      BY <1>1, <2>1, <3>2 DEF Operator
    <3> QED
      BY <2>6, <3>1, <3>2
  <2> QED
    BY <1>5, <2>5, <2>7 DEF TypeOK, Placed, AuditRule, Others
<1>6. CASE ApplyRule
  <2>1. operator.pc = "append" /\ operator.domain \in Domains
        /\ operator' = [operator EXCEPT !.pc = "written"]
    BY <1>1, <1>6 DEF ApplyRule
  <2>2. operator' \in Operator /\ operator'.domain \in Domains
    BY <1>1, <2>1 DEF Operator
  <2>3. blocklist' \in [Domains -> Nat]
    BY <1>6, <2>1 DEF TypeOK, ApplyRule, Appended
  <2> QED
    BY <1>6, <2>2, <2>3 DEF TypeOK, Placed, ApplyRule, Others
<1>7. CASE RecordApplied
  <2>1. Row(operator.domain, "block", "written", 0, 0) \in AuditRow
    BY <1>1, <1>7 DEF RecordApplied, Row, AuditRow, Action, Status
  <2>2. audit' \in Seq(AuditRow)
    BY <1>7, <2>1 DEF TypeOK, RecordApplied
  <2> QED
    BY <1>2, <1>7, <2>2 DEF TypeOK, Placed, RecordApplied, Others
<1>8. CASE CommandFails
  <2>1. spent' \in Counters
    BY <1>8, CountersType DEF TypeOK, CommandFails
  <2> QED
    BY <1>2, <1>8, <2>1 DEF TypeOK, Placed, CommandFails, Others
<1>9. ASSUME NEW c \in Cleaners, CountEvents(c)
      PROVE  TypeOK' /\ Placed'
  <2>1. spent' \in Counters
    BY <1>9, CountersType DEF TypeOK, CountEvents
  <2>2. Overflow \in Nat
    BY <1>9, FS_CardinalityType, SettingsAssumption DEF CountEvents, Overflow
  <2>3. cleaning' \in [Cleaners -> Nat]
    BY <1>9, <2>2 DEF TypeOK, CountEvents
  <2> QED
    BY <1>9, <2>1, <2>3 DEF TypeOK, Placed, CountEvents, tables
<1>10. ASSUME NEW c \in Cleaners, DeleteEvents(c)
       PROVE  TypeOK' /\ Placed'
  <2>1. cleaning' \in [Cleaners -> Nat] /\ events' \in SUBSET Event
    BY <1>10 DEF TypeOK, DeleteEvents
  <2> QED
    BY <1>10, <2>1 DEF TypeOK, Placed, DeleteEvents
<1> QED
  BY <1>3, <1>4, <1>5, <1>6, <1>7, <1>8, <1>9, <1>10 DEF OperatorStep

-----------------------------------------------------------------------------
(* The steps keep IInv *)

\* An action of the engine, of the operator or of time leaves the collector alone.
LEMMA CollectorUntouched ==
    ASSUME Next
    PROVE  \/ (\E d \in Domains : NewQuery(d)) \/ CollectorStep \/ CollectorDies
           \/ UNCHANGED <<queries, cursor, collector, ingested>>
<1>1. CASE EngineStep
  BY <1>1 DEF EngineStep, GetUnprocessedDomains, LookUp, SaveAnalysis, Learn, DecideStep,
              AppendLine, RecordWritten, RecordFailed, RecordVerdict, RecordRow,
              MarkProcessed, EngineOnly
<1>2. CASE EngineFault \/ EngineDies
  BY <1>2 DEF EngineFault, EngineDies, EngineOnly
<1>3. CASE OperatorStep \/ CommandFails
  BY <1>3 DEF OperatorStep, AuditRule, ApplyRule, RecordApplied, CommandFails, Others
<1>4. CASE \E d \in Domains : Expire(d)
  BY <1>4 DEF Expire, EngineOnly
<1>5. CASE \E d \in Domains, rule \in Rule, apply \in BOOLEAN : ChangeRule(d, rule, apply)
  BY <1>5 DEF ChangeRule, Others
<1>6. CASE \E c \in Cleaners : CountEvents(c) \/ DeleteEvents(c)
  BY <1>6 DEF CountEvents, DeleteEvents
<1> QED
  BY <1>1, <1>2, <1>3, <1>4, <1>5, <1>6 DEF Next

LEMMA CollectorKeeps ==
    ASSUME IInv, Next
    PROVE  CollectorInv'
<1>1. /\ collector.pc \in {"down", "idle", "insert", "save"}
      /\ collector.last \in Nat /\ collector.next \in Nat /\ collector.end \in Nat
      /\ cursor \in Nat /\ Len(queries) \in Nat /\ MaxQueries \in Nat
      /\ ingested \in [1 .. MaxQueries -> Nat]
  BY PipelineBounds DEF IInv, TypeOK, Collector
<1>2. CollectorInv /\ Len(queries) <= MaxQueries
  BY DEF IInv, Placed
<1>3. CASE \E d \in Domains : NewQuery(d)
  <2>1. Len(queries') = Len(queries) + 1
    BY <1>3 DEF IInv, TypeOK, NewQuery
  <2> QED
    BY <1>1, <1>2, <1>3, <2>1 DEF NewQuery, CollectorInv
<1>4. CASE LoadCursor
  BY <1>1, <1>2, <1>4 DEF LoadCursor, CollectorInv
<1>5. CASE Fetch
  <2>1. BatchEnd \in Nat /\ BatchEnd <= Len(queries)
    <3>1. collector.last + CollectBatch \in Nat
      BY <1>1, SettingsAssumption
    <3> QED
      BY <1>1, <3>1, MinOfTwo DEF BatchEnd
  <2>2. collector.last = cursor /\ collector.last < BatchEnd
    BY <1>2, <1>5 DEF Fetch, CollectorInv
  <2> QED
    BY <1>1, <1>2, <1>5, <2>1, <2>2 DEF Fetch, CollectorInv
<1>6. CASE InsertEvent
  <2>1. collector.next \in 1 .. MaxQueries
    BY <1>1, <1>6 DEF IInv, Placed, InsertEvent
  <2>2. \A q \in 1 .. MaxQueries : ingested[q] >= 1 \/ q = collector.next => ingested'[q] >= 1
    BY <1>1, <1>6, <2>1 DEF InsertEvent
  <2>3. \A q \in 1 .. (collector.next - 1) : ingested[q] >= 1
    BY <1>2, <1>6 DEF InsertEvent, CollectorInv
  <2>4. \A q \in 1 .. collector.next : ingested'[q] >= 1
    BY <1>1, <2>1, <2>2, <2>3
  <2>5. \A q \in 1 .. cursor : ingested'[q] >= 1
    BY <1>1, <1>2, <2>2 DEF CollectorInv
  <2>6. /\ collector'.pc = IF LastRow THEN "save" ELSE "insert"
        /\ collector'.last = collector.last
        /\ collector'.next = collector.next + 1
        /\ collector'.end = collector.end
        /\ cursor' = cursor /\ queries' = queries
    BY <1>6 DEF InsertEvent
  <2>7. /\ collector.pc = "insert"
        /\ collector.last = cursor
        /\ collector.next <= collector.end
        /\ collector.end <= Len(queries)
        /\ cursor <= Len(queries)
    BY <1>2, <1>6 DEF InsertEvent, CollectorInv
  <2> QED
    BY <1>1, <2>4, <2>5, <2>6, <2>7 DEF CollectorInv, LastRow
<1>7. CASE SaveCursor
  BY <1>1, <1>2, <1>7 DEF SaveCursor, CollectorInv, CursorAfterBatch
<1>8. CASE CollectorDies
  BY <1>1, <1>2, <1>8 DEF CollectorDies, CollectorDown, CollectorInv
<1>9. CASE UNCHANGED <<queries, cursor, collector, ingested>>
  BY <1>2, <1>9 DEF CollectorInv
<1> QED
  BY <1>3, <1>4, <1>5, <1>6, <1>7, <1>8, <1>9, CollectorUntouched DEF CollectorStep

\* Only the collector, the mark and cleanup touch the events.
LEMMA WhoTouchesEvents ==
    ASSUME Next
    PROVE  \/ InsertEvent \/ MarkProcessed
           \/ \E c \in Cleaners : DeleteEvents(c)
           \/ UNCHANGED events
<1>1. CASE CollectorStep \/ CollectorDies
  BY <1>1 DEF CollectorStep, CollectorDies, LoadCursor, Fetch, SaveCursor, tables
<1>2. CASE EngineStep
  BY <1>2 DEF EngineStep, GetUnprocessedDomains, LookUp, SaveAnalysis, Learn, DecideStep,
              AppendLine, RecordWritten, RecordFailed, RecordVerdict, RecordRow, tables
<1>3. CASE EngineFault \/ EngineDies
  BY <1>3 DEF EngineFault, EngineDies, tables
<1>4. CASE OperatorStep \/ CommandFails
  BY <1>4 DEF OperatorStep, AuditRule, ApplyRule, RecordApplied, CommandFails, Others
<1>5. CASE \E d \in Domains : NewQuery(d) \/ Expire(d)
  BY <1>5 DEF NewQuery, Expire, tables
<1>6. CASE \E d \in Domains, rule \in Rule, apply \in BOOLEAN : ChangeRule(d, rule, apply)
  BY <1>6 DEF ChangeRule, Others
<1>7. CASE \E c \in Cleaners : CountEvents(c) \/ DeleteEvents(c)
  BY <1>7 DEF CountEvents, tables
<1> QED
  BY <1>1, <1>2, <1>3, <1>4, <1>5, <1>6, <1>7 DEF Next

\* Marking changes events in place: as many as before.
LEMMA EventsStayFinite ==
    ASSUME IsFiniteSet(events), Next
    PROVE  IsFiniteSet(events')
<1>1. CASE InsertEvent
  BY <1>1, FS_AddElement DEF InsertEvent
<1>2. CASE MarkProcessed
  <2> DEFINE Marked(e) == [e EXCEPT !.processed = @ \/ e.domain = Cur]
             f == [e \in events |-> Marked(e)]
  <2>1. events' = {Marked(e) : e \in events}
    BY <1>2 DEF MarkProcessed
  <2> HIDE DEF Marked
  <2>2. f \in Surjection(events, events')
    BY <2>1 DEF Surjection
  <2> QED
    BY <2>2, FS_Surjection
<1>3. CASE \E c \in Cleaners : DeleteEvents(c)
  <2>1. events' \in SUBSET events
    BY <1>3 DEF DeleteEvents
  <2> QED
    BY <2>1, FS_Subset
<1>4. CASE UNCHANGED events
  BY <1>4
<1> QED
  BY <1>1, <1>2, <1>3, <1>4, WhoTouchesEvents

\* The steps of the engine as its invariants see them.
LEMMA EngineSteps ==
    ASSUME IInv, EngineStep \/ EngineFault \/ EngineDies
    PROVE  \/ engine'.pc \in {"idle", "lookup"}
           \/ LookUp \/ SaveAnalysis
           \/ /\ engine.pc \in Acting
              /\ engine'.pc \in Acting \cup {"mark"}
              /\ engine'.cur = engine.cur /\ engine'.decision = engine.decision
              /\ UNCHANGED <<events, analysis>>
<1>1. engine \in Engine /\ engine.todo \in SUBSET DomainRow
  BY DEF IInv, TypeOK, Engine, DomainRow
<1>2. NextDomain(engine.todo) => engine'.pc \in {"idle", "lookup"}
  BY <1>1, NextDomainTypes
<1>3. CASE GetUnprocessedDomains
  <2>1. Oldest(EngineBatch, PendingRows) \in SUBSET DomainRow
    BY PendingRowsType, OldestSubset, SettingsAssumption DEF IInv
  <2> QED
    BY <1>3, <2>1, NextDomainTypes DEF GetUnprocessedDomains
<1>4. CASE Learn
  BY <1>1, <1>4, EngineMoves DEF Learn, Acting
<1>5. CASE DecideStep
  <2> DEFINE v == DecideAction(engine.result, rules[Cur])
  <2>1. /\ engine.pc = "decide" /\ UNCHANGED <<events, analysis>>
        /\ engine' = [engine EXCEPT !.verdict = v, !.result = NoResult, !.pc = StepFor(v)]
    BY <1>5 DEF DecideStep, tables
  <2>2. StepFor(v) \in {"mark", "append", "record"}
    BY DEF StepFor
  <2> HIDE DEF v
  <2>3. engine'.pc = StepFor(v) /\ engine'.cur = engine.cur /\ engine'.decision = engine.decision
    BY <1>1, <2>1 DEF Engine
  <2> QED
    BY <2>1, <2>2, <2>3 DEF Acting
<1>6. CASE AppendLine
  BY <1>1, <1>6, EngineMoves DEF AppendLine, Acting, tables
<1>7. CASE RecordWritten
  BY <1>1, <1>7, EngineMoves DEF RecordWritten, RecordRow, Acting
<1>8. CASE RecordFailed
  BY <1>1, <1>8, EngineMoves DEF RecordFailed, RecordRow, Acting
<1>9. CASE RecordVerdict
  BY <1>1, <1>9, EngineMoves DEF RecordVerdict, RecordRow, Acting
<1>10. CASE MarkProcessed
  BY <1>2, <1>10 DEF MarkProcessed
<1>11. CASE EngineFault
  <2>1. engine.pc # "idle" /\ AfterFault /\ UNCHANGED <<events, analysis>>
    BY <1>11 DEF EngineFault, tables
  <2>2. CASE engine.pc \in {"append", "written"}
    <3>1. engine' = [engine EXCEPT !.pc = "failed"]
      BY <2>1, <2>2 DEF AfterFault
    <3> QED
      BY <1>1, <2>1, <2>2, <3>1, EngineMoves DEF Acting
  <2>3. CASE engine.pc = "learn"
    <3>1. engine' = [engine EXCEPT !.pc = "decide"]
      BY <2>1, <2>3 DEF AfterFault
    <3> QED
      BY <1>1, <2>1, <2>3, <3>1, EngineMoves DEF Acting
  <2>4. CASE engine.pc \notin {"append", "written", "learn"}
    BY <1>2, <2>1, <2>4 DEF AfterFault
  <2> QED
    BY <2>2, <2>3, <2>4
<1>12. CASE EngineDies
  BY <1>12 DEF EngineDies, IdleEngine
<1> QED
  BY <1>3, <1>4, <1>5, <1>6, <1>7, <1>8, <1>9, <1>10, <1>11, <1>12 DEF EngineStep

\* Of the others only the collector, time and maintenance touch what EngineInv reads,
\* and no one but the engine has decisions of its own.
LEMMA EngineUntouched ==
    ASSUME Next
    PROVE  \/ EngineStep \/ EngineFault \/ EngineDies
           \/ /\ UNCHANGED <<engine, history, settled>>
              /\ \/ InsertEvent /\ UNCHANGED <<analysis, audit>>
                 \/ (\E d \in Domains : Expire(d)) /\ UNCHANGED <<events, audit>>
                 \/ (\E c \in Cleaners : DeleteEvents(c)) /\ UNCHANGED <<analysis, audit>>
                 \/ UNCHANGED <<events, analysis, audit>>
                 \/ AuditRule /\ UNCHANGED <<events, analysis>>
                 \/ RecordApplied /\ UNCHANGED <<events, analysis>>
<1>1. CASE CollectorStep \/ CollectorDies
  BY <1>1 DEF CollectorStep, CollectorDies, LoadCursor, Fetch, InsertEvent, SaveCursor, tables
<1>2. CASE OperatorStep \/ CommandFails
  BY <1>2 DEF OperatorStep, AuditRule, ApplyRule, RecordApplied, CommandFails, Others
<1>3. CASE \E d \in Domains : NewQuery(d) \/ Expire(d)
  BY <1>3 DEF NewQuery, Expire, tables
<1>4. CASE \E d \in Domains, rule \in Rule, apply \in BOOLEAN : ChangeRule(d, rule, apply)
  BY <1>4 DEF ChangeRule, Others
<1>5. CASE \E c \in Cleaners : CountEvents(c) \/ DeleteEvents(c)
  BY <1>5 DEF CountEvents, DeleteEvents, tables
<1> QED
  BY <1>1, <1>2, <1>3, <1>4, <1>5 DEF Next

LEMMA EngineKeeps ==
    ASSUME IInv, Next
    PROVE  EngineInv'
<1>1. /\ events \in SUBSET Event
      /\ analysis \in [Domains -> Analysis]
      /\ engine \in Engine
      /\ EngineInv
      /\ engine.pc # "idle" => Cur \in Domains
  BY DEF IInv, TypeOK, Placed, Cur
<1>2. Cur' = engine'.cur.domain /\ Cur = engine.cur.domain
  BY DEF Cur
<1>3. \A d \in Domains : analysis[d].decision # 0 => analysis'[d].decision # 0
  <2>1. CASE UNCHANGED analysis
    BY <2>1
  <2>2. CASE \E d \in Domains : Expire(d)
    <3>1. PICK d \in Domains : analysis' = [analysis EXCEPT ![d].fresh = FALSE]
      BY <2>2 DEF Expire
    <3> QED
      BY <1>1, <3>1 DEF Analysis
  <2>3. CASE SaveAnalysis
    <3>1. PICK result \in Outcomes(Cur) :
            analysis' = [analysis EXCEPT ![Cur] = CacheRow(@, Len(history) + 1, result)]
      BY <2>3 DEF SaveAnalysis
    <3>2. Len(history) + 1 # 0
      BY DEF IInv, TypeOK
    <3> QED
      BY <1>1, <3>1, <3>2 DEF CacheRow
  <2>4. SaveAnalysis \/ (\E d \in Domains : Expire(d)) \/ UNCHANGED analysis
    <3>1. CASE EngineStep
      BY <3>1 DEF EngineStep, GetUnprocessedDomains, LookUp, Learn, DecideStep, AppendLine,
                  RecordWritten, RecordFailed, RecordVerdict, RecordRow, MarkProcessed, tables
    <3>2. CASE EngineFault \/ EngineDies
      BY <3>2 DEF EngineFault, EngineDies, tables
    <3> QED
      BY <3>1, <3>2, EngineUntouched
  <2> QED
    BY <2>1, <2>2, <2>3, <2>4
<1>4. ASSUME NEW e \in events', e.processed
      PROVE  e.domain \in Domains /\ analysis[e.domain].decision # 0
  <2>1. CASE MarkProcessed
    <3>1. PICK f \in events : e = [f EXCEPT !.processed = @ \/ f.domain = Cur]
      BY <1>4, <2>1 DEF MarkProcessed
    <3>2. f \in Event
      BY <1>1
    <3>3. e.domain = f.domain /\ f.domain \in Domains
      BY <3>1, <3>2 DEF Event
    <3>4. e.processed = (f.processed \/ f.domain = Cur)
      BY <3>1, <3>2 DEF Event
    <3>5. f.processed \/ f.domain = Cur
      BY <1>4, <3>4
    <3>6. analysis[Cur].decision # 0
      BY <1>1, <2>1 DEF EngineInv, MarkProcessed
    <3>7. f.processed => analysis[f.domain].decision # 0
      BY <1>1 DEF EngineInv, ProcessedIsDecided
    <3> QED
      BY <3>3, <3>5, <3>6, <3>7
  <2>2. CASE e \in events
    BY <1>1, <1>4, <2>2 DEF EngineInv, ProcessedIsDecided, Event
  <2>3. CASE InsertEvent /\ e \notin events
    <3>1. e.processed = FALSE
      BY <1>4, <2>3 DEF InsertEvent
    <3> QED
      BY <1>4, <3>1
  <2>4. MarkProcessed \/ InsertEvent \/ events' \subseteq events
    <3>1. CASE EngineStep
      BY <3>1 DEF EngineStep, GetUnprocessedDomains, LookUp, SaveAnalysis, Learn, DecideStep,
                  AppendLine, RecordWritten, RecordFailed, RecordVerdict, RecordRow, tables
    <3>2. CASE EngineFault \/ EngineDies
      BY <3>2 DEF EngineFault, EngineDies, tables
    <3>3. CASE \E c \in Cleaners : DeleteEvents(c)
      BY <3>3 DEF DeleteEvents
    <3> QED
      BY <3>1, <3>2, <3>3, EngineUntouched
  <2> QED
    BY <1>4, <2>1, <2>2, <2>3, <2>4
<1>5. ProcessedIsDecided'
  BY <1>3, <1>4 DEF ProcessedIsDecided
<1>6. engine'.pc \in Acting \cup {"mark"} => analysis'[engine'.cur.domain].decision # 0
  <2>1. CASE engine'.pc \in {"idle", "lookup"}
    BY <2>1 DEF Acting
  <2>2. CASE UNCHANGED engine
    BY <1>1, <1>2, <1>3, <2>2 DEF EngineInv, Acting
  <2>3. CASE LookUp
    <3>1. engine.pc = "lookup" /\ UNCHANGED analysis
          /\ engine' = [engine EXCEPT !.pc = IF Usable(analysis[Cur]) THEN "mark" ELSE "analyze"]
      BY <2>3 DEF LookUp, tables
    <3>2. engine'.pc = (IF Usable(analysis[Cur]) THEN "mark" ELSE "analyze")
          /\ engine'.cur = engine.cur
      BY <1>1, <3>1 DEF Engine
    <3>3. Usable(analysis[Cur]) => analysis[Cur].decision # 0
      BY DEF Usable
    <3> QED
      BY <1>2, <3>1, <3>2, <3>3 DEF Acting
  <2>4. CASE SaveAnalysis
    <3>1. PICK result \in Outcomes(Cur) :
            /\ analysis' = [analysis EXCEPT ![Cur] = CacheRow(@, Len(history) + 1, result)]
            /\ engine' = [engine EXCEPT !.pc = "learn", !.decision = Len(history) + 1,
                             !.result = result]
      BY <2>4 DEF SaveAnalysis
    <3>2. Len(history) + 1 # 0 /\ engine.pc = "analyze"
      BY <2>4 DEF IInv, TypeOK, SaveAnalysis
    <3>3. engine'.cur = engine.cur
      BY <1>1, <3>1 DEF Engine
    <3>4. analysis'[Cur].decision = Len(history) + 1
      BY <1>1, <3>1, <3>2 DEF CacheRow
    <3> QED
      BY <1>2, <3>2, <3>3, <3>4
  <2>5. CASE /\ engine.pc \in Acting
             /\ engine'.cur = engine.cur
             /\ UNCHANGED <<events, analysis>>
    BY <1>1, <1>2, <2>5 DEF EngineInv
  <2> QED
    BY <2>1, <2>2, <2>3, <2>4, <2>5, EngineSteps, EngineUntouched
<1> QED
  BY <1>2, <1>5, <1>6 DEF EngineInv

\* The settled decisions and what the rows may name, apart from the decision in hand.
Recorded ==
    /\ ActedOnce
    /\ settled \subseteq 1 .. Len(history)
    /\ \A i \in DOMAIN audit : audit[i].decision # 0 => audit[i].decision \in settled

\* A row for no decision, or for one that was not settled before.
LEMMA AppendKeepsRecorded ==
    ASSUME TypeOK, Recorded, NEW row \in AuditRow,
           audit' = Append(audit, row),
           history' = history,
           \/ row.decision = 0 /\ settled' = settled
           \/ /\ row.decision \in (1 .. Len(history)) \ settled
              /\ settled' = settled \cup {row.decision}
    PROVE  Recorded'
<1> DEFINE n == Len(audit)
<1>1. audit \in Seq(AuditRow) /\ n \in Nat
  BY DEF TypeOK
<1>2. /\ DOMAIN audit' = 1 .. (n + 1)
      /\ audit'[n + 1] = row
      /\ \A i \in 1 .. n : audit'[i] = audit[i]
  BY <1>1
<1>3. DOMAIN audit = 1 .. n
  BY <1>1
<1> HIDE DEF n
<1>4. settled \subseteq settled'
  OBVIOUS
<1>5. settled' \subseteq 1 .. Len(history')
  BY DEF Recorded
<1>6. ASSUME NEW i \in 1 .. (n + 1), audit'[i].decision # 0
      PROVE  audit'[i].decision \in settled'
  <2>1. CASE i = n + 1
    BY <1>2, <1>6, <2>1
  <2>2. CASE i \in 1 .. n
    BY <1>2, <1>3, <1>4, <1>6, <2>2 DEF Recorded
  <2>3. i = n + 1 \/ i \in 1 .. n
    BY <1>1, SMT
  <2> QED
    BY <2>1, <2>2, <2>3
<1>7. ASSUME NEW i \in 1 .. n, audit'[i].decision # 0, audit'[i].decision = row.decision
      PROVE  FALSE
  <2>1. audit[i].decision \in settled
    BY <1>2, <1>3, <1>7 DEF Recorded
  <2> QED
    BY <1>2, <1>7, <2>1
<1>8. ASSUME NEW i \in 1 .. (n + 1), NEW j \in 1 .. (n + 1),
             audit'[i].decision # 0, audit'[i].decision = audit'[j].decision
      PROVE  i = j
  <2>1. CASE i \in 1 .. n /\ j \in 1 .. n
    BY <1>2, <1>3, <1>8, <2>1 DEF Recorded, ActedOnce
  <2>2. CASE i \in 1 .. n /\ j = n + 1
    BY <1>2, <1>7, <1>8, <2>2
  <2>3. CASE i = n + 1 /\ j \in 1 .. n
    BY <1>2, <1>7, <1>8, <2>3
  <2>4. CASE i = n + 1 /\ j = n + 1
    BY <2>4
  <2> QED
    BY <1>1, <2>1, <2>2, <2>3, <2>4
<1>9. ActedOnce'
  BY <1>2, <1>8 DEF ActedOnce
<1> QED
  BY <1>2, <1>5, <1>6, <1>9 DEF Recorded

\* The row and the settling of a decision are one step of the engine.
LEMMA RecordRowKeeps ==
    ASSUME TypeOK, AuditInv, engine.pc \in Acting,
           NEW row \in AuditRow, row.decision = engine.decision, RecordRow(row)
    PROVE  AuditInv'
<1>1. engine \in Engine /\ engine.pc # "idle"
  BY DEF TypeOK, Acting
<1>2. engine'.pc = "mark"
  BY <1>1, RecordRowTypes
<1>3. engine.decision \in (1 .. Len(history)) \ settled
  BY DEF AuditInv
<1>4. Recorded'
  BY <1>3, AppendKeepsRecorded DEF Recorded, AuditInv, RecordRow
<1> QED
  BY <1>2, <1>4 DEF AuditInv, Recorded, Acting

LEMMA AuditKeeps ==
    ASSUME IInv, Next
    PROVE  AuditInv'
<1>1. TypeOK /\ AuditInv /\ Recorded
  BY DEF IInv, AuditInv, Recorded
<1>2. engine \in Engine /\ (engine.pc # "idle" => Cur \in Domains) /\ engine.decision \in Nat
      /\ Len(history) \in Nat
  BY <1>1 DEF TypeOK, IInv, Placed, Cur, Engine
<1>3. ASSUME UNCHANGED <<audit, history, settled>>,
             \/ engine'.pc \notin Acting
             \/ engine.pc \in Acting /\ engine'.decision = engine.decision
      PROVE  AuditInv'
  BY <1>1, <1>3 DEF AuditInv, ActedOnce
<1>4. CASE SaveAnalysis
  <2>1. PICK result \in Outcomes(Cur) :
          engine' = [engine EXCEPT !.pc = "learn", !.decision = Len(history) + 1,
                       !.result = result]
    BY <1>4 DEF SaveAnalysis
  <2>2. history' = Append(history, Cur) /\ UNCHANGED <<audit, settled>>
    BY <1>4 DEF SaveAnalysis
  <2>3. Len(history') = Len(history) + 1
    BY <1>1, <1>2, <1>4, <2>2 DEF TypeOK, SaveAnalysis
  <2>4. engine'.decision = Len(history) + 1
    BY <1>2, <2>1 DEF Engine
  <2>5. settled \subseteq 1 .. Len(history)
    BY <1>1 DEF Recorded
  <2>6. Len(history) + 1 \notin settled /\ settled \subseteq 1 .. (Len(history) + 1)
    BY <1>2, <2>5
  <2>7. Len(history) + 1 \in 1 .. (Len(history) + 1)
    BY <1>2
  <2> QED
    BY <1>1, <2>2, <2>3, <2>4, <2>6, <2>7 DEF AuditInv, ActedOnce
<1>5. CASE RecordWritten
  <2>1. Row(Cur, "block", "written", 0, engine.decision) \in AuditRow
    BY <1>2, <1>5 DEF RecordWritten, Row, AuditRow, Action, Status
  <2>2. engine.pc \in Acting /\ RecordRow(Row(Cur, "block", "written", 0, engine.decision))
    BY <1>5 DEF RecordWritten, Acting
  <2>3. Row(Cur, "block", "written", 0, engine.decision).decision = engine.decision
    BY DEF Row
  <2> QED
    BY <1>1, <2>1, <2>2, <2>3, RecordRowKeeps
<1>6. CASE RecordFailed
  <2>1. Row(Cur, "block", "failed", engine.decision, engine.decision) \in AuditRow
    BY <1>2, <1>6 DEF RecordFailed, Row, AuditRow, Action, Status
  <2>2. engine.pc \in Acting
        /\ RecordRow(Row(Cur, "block", "failed", engine.decision, engine.decision))
    BY <1>6 DEF RecordFailed, Acting
  <2>3. Row(Cur, "block", "failed", engine.decision, engine.decision).decision = engine.decision
    BY DEF Row
  <2> QED
    BY <1>1, <2>1, <2>2, <2>3, RecordRowKeeps
<1>7. CASE RecordVerdict
  <2> DEFINE row == Row(Cur, engine.verdict.action, engine.verdict.status, engine.decision,
                        engine.decision)
  <2>1. engine.verdict.action \in Action \ {"none"} /\ engine.verdict.status \in Status
    BY <1>2, <1>7 DEF IInv, Placed, RecordVerdict, Engine
  <2>2. row \in AuditRow
    BY <1>2, <1>7, <2>1 DEF RecordVerdict, Row, AuditRow
  <2>3. engine.pc \in Acting /\ RecordRow(row)
    BY <1>7 DEF RecordVerdict, Acting
  <2>4. row.decision = engine.decision
    BY DEF Row
  <2> QED
    BY <1>1, <2>2, <2>3, <2>4, RecordRowKeeps
<1>8. CASE DecideStep
  <2> DEFINE v == DecideAction(engine.result, rules[Cur])
  <2>1. /\ engine.pc = "decide"
        /\ engine' = [engine EXCEPT !.verdict = v, !.result = NoResult, !.pc = StepFor(v)]
        /\ settled' = IF v.action = "none" THEN settled \cup {engine.decision} ELSE settled
        /\ UNCHANGED <<audit, history>>
    BY <1>8 DEF DecideStep, tables
  <2>2. engine'.pc = StepFor(v) /\ engine'.decision = engine.decision
    BY <1>2, <2>1 DEF Engine
  <2>3. v.action = "none" => StepFor(v) = "mark"
    BY DEF StepFor
  <2>4. engine.decision \in (1 .. Len(history)) \ settled
    BY <1>1, <2>1 DEF AuditInv, Acting
  <2> HIDE DEF v
  <2>5. CASE v.action = "none"
    BY <1>1, <2>1, <2>2, <2>3, <2>4, <2>5 DEF AuditInv, ActedOnce, Acting
  <2>6. CASE v.action # "none"
    <3>1. settled' = settled /\ engine.pc \in Acting
      BY <2>1, <2>6 DEF Acting
    <3> QED
      BY <1>3, <2>1, <2>2, <3>1
  <2> QED
    BY <2>5, <2>6
<1>9. CASE GetUnprocessedDomains \/ LookUp \/ Learn \/ AppendLine \/ MarkProcessed
           \/ EngineFault \/ EngineDies
  <2>1. UNCHANGED <<audit, history, settled>>
    BY <1>9 DEF GetUnprocessedDomains, LookUp, Learn, AppendLine, MarkProcessed, EngineFault,
                EngineDies, tables
  <2>2. LookUp => engine'.pc \notin Acting
    <3>1. ASSUME LookUp
          PROVE  engine'.pc = (IF Usable(analysis[Cur]) THEN "mark" ELSE "analyze")
      BY <1>2, <3>1 DEF LookUp, Engine
    <3> QED
      BY <3>1 DEF Acting
  <2>3. ~SaveAnalysis
    <3>1. ASSUME SaveAnalysis
          PROVE  Len(history') = Len(history) + 1
      BY <1>1, <1>2, <3>1 DEF SaveAnalysis, TypeOK
    <3> QED
      BY <1>2, <2>1, <3>1
  <2>4. \/ engine'.pc \notin Acting
        \/ engine.pc \in Acting /\ engine'.decision = engine.decision
    BY <1>9, <2>2, <2>3, EngineSteps DEF EngineStep, Acting
  <2> QED
    BY <1>3, <2>1, <2>4
<1>10. ASSUME UNCHANGED <<engine, history, settled>>,
              NEW row \in AuditRow, row.decision = 0, audit' = Append(audit, row)
       PROVE  AuditInv'
  <2>1. Recorded'
    BY <1>1, <1>10, AppendKeepsRecorded
  <2> QED
    BY <1>1, <1>10, <2>1 DEF AuditInv, Recorded
<1>11. CASE AuditRule /\ UNCHANGED <<engine, history, settled>>
  <2>1. operator.domain \in Domains /\ operator.rule \in Rule
    BY <1>11 DEF IInv, TypeOK, Placed, Operator, AuditRule
  <2>2. CASE operator.rule = "none"
    <3>1. Row(operator.domain, "remove_rule", "removed", 0, 0) \in AuditRow
          /\ Row(operator.domain, "remove_rule", "removed", 0, 0).decision = 0
      BY <2>1 DEF Row, AuditRow, Action, Status
    <3>2. audit' = Append(audit, Row(operator.domain, "remove_rule", "removed", 0, 0))
      BY <1>11, <2>2 DEF AuditRule
    <3> QED
      BY <1>10, <1>11, <3>1, <3>2
  <2>3. CASE operator.rule # "none"
    <3>1. Row(operator.domain, operator.rule, "rule_saved", 0, 0) \in AuditRow
          /\ Row(operator.domain, operator.rule, "rule_saved", 0, 0).decision = 0
      BY <2>1, <2>3 DEF Row, AuditRow, Action, Status, Rule
    <3>2. audit' = Append(audit, Row(operator.domain, operator.rule, "rule_saved", 0, 0))
      BY <1>11, <2>3 DEF AuditRule
    <3> QED
      BY <1>10, <1>11, <3>1, <3>2
  <2> QED
    BY <2>2, <2>3
<1>12. CASE RecordApplied /\ UNCHANGED <<engine, history, settled>>
  <2>1. Row(operator.domain, "block", "written", 0, 0) \in AuditRow
        /\ Row(operator.domain, "block", "written", 0, 0).decision = 0
    BY <1>12 DEF IInv, TypeOK, Placed, RecordApplied, Row, AuditRow, Action, Status
  <2> QED
    BY <1>10, <1>12, <2>1 DEF RecordApplied
<1>13. CASE UNCHANGED <<engine, history, settled, audit>>
  BY <1>3, <1>13
<1> QED
  BY <1>4, <1>5, <1>6, <1>7, <1>8, <1>9, <1>11, <1>12, <1>13, EngineUntouched DEF EngineStep

-----------------------------------------------------------------------------
(* The theorems *)

LEMMA StepKeepsIInv ==
    ASSUME IInv, [Next]_vars
    PROVE  IInv'
<1>1. CASE Next
  <2>1. TypeOK /\ Placed /\ CollectorInv /\ IsFiniteSet(events)
    BY DEF IInv
  <2>2. TypeOK' /\ Placed'
    BY <1>1, <2>1, CollectorTypes, EngineTypes, OtherTypes DEF Next
  <2>3. CollectorInv' /\ EngineInv' /\ AuditInv' /\ IsFiniteSet(events')
    BY <1>1, <2>1, CollectorKeeps, EngineKeeps, AuditKeeps, EventsStayFinite
  <2> QED
    BY <2>2, <2>3 DEF IInv
<1>2. CASE UNCHANGED vars
  <2>1. UNCHANGED <<queries, cursor, events, lastEvent, analysis, history, reputation, rules,
                    audit, blocklist, collector, engine, cleaning, operator, ingested,
                    settled, spent>>
    BY <1>2 DEF vars, tables
  <2>2. TypeOK' /\ Placed'
    BY <2>1 DEF IInv, TypeOK, Placed
  <2>3. CollectorInv' /\ IsFiniteSet(events')
    BY <2>1 DEF IInv, CollectorInv
  <2>4. EngineInv' /\ AuditInv'
    BY <2>1 DEF IInv, EngineInv, ProcessedIsDecided, AuditInv, ActedOnce, Cur
  <2> QED
    BY <2>2, <2>3, <2>4 DEF IInv
<1> QED
  BY <1>1, <1>2

LEMMA SpecKeepsIInv == Spec => []IInv
BY InitInv, StepKeepsIInv, PTL DEF Spec

\* Whatever the processes do, the tables keep their shape.
THEOREM PipelineTypes == Spec => []TypeOK
<1>1. IInv => TypeOK
  BY DEF IInv
<1> QED
  BY <1>1, SpecKeepsIInv, PTL

\* However often the collector dies, at whatever row of a batch of any size, no query
\* at or below the saved cursor is missing from the events.
THEOREM QueriesSurvive == Spec => []NoQueryLost
<1>1. IInv => NoQueryLost
  BY DEF IInv, CollectorInv, NoQueryLost
<1> QED
  BY <1>1, SpecKeepsIInv, PTL

\* The engine marks events of a domain only after a decision about it is stored, and
\* the decision stays, although collector, maintenance and operator run in between.
THEOREM ProcessedMeansDecided == Spec => []ProcessedIsDecided
<1>1. IInv => ProcessedIsDecided
  BY DEF IInv, EngineInv
<1> QED
  BY <1>1, SpecKeepsIInv, PTL

\* No fault, restart or cache hit makes the action policy record a decision twice.
THEOREM DecisionsActOnce == Spec => []ActedOnce
<1>1. IInv => ActedOnce
  BY DEF IInv, AuditInv
<1> QED
  BY <1>1, SpecKeepsIInv, PTL

-----------------------------------------------------------------------------
(* The analysis cache and the decision history *)

\* The newest element of a set of decisions, and none when there is none.
Newest(S) == IF S = {} THEN 0 ELSE Max(S)

Mine(d) == {n \in DOMAIN history : history[n] = d}

LEMMA MaxIsTheBound ==
    ASSUME NEW S \in SUBSET Nat, NEW m \in S, \A n \in S : n <= m
    PROVE  Max(S) = m
<1>1. \A x \in S : (\A y \in S : x >= y) => x = m
  <2> SUFFICES ASSUME NEW x \in S, \A y \in S : x >= y PROVE x = m
    OBVIOUS
  <2>1. x >= m /\ x <= m /\ x \in Nat /\ m \in Nat
    OBVIOUS
  <2> QED
    BY <2>1
<1>2. \A y \in S : m >= y
  OBVIOUS
<1> QED
  BY <1>1, <1>2 DEF Max

\* Only a save gives a domain another decision, and only time touches its cached row
\* otherwise.
LEMMA WhoTouchesTheCache ==
    ASSUME TypeOK, [Next]_vars
    PROVE  \/ SaveAnalysis
           \/ UNCHANGED history /\ \E d \in Domains : Expire(d)
           \/ UNCHANGED <<analysis, history>>
<1>1. CASE Next
  <2>1. CASE EngineStep
    BY <2>1 DEF EngineStep, GetUnprocessedDomains, LookUp, Learn, DecideStep, AppendLine,
                RecordWritten, RecordFailed, RecordVerdict, RecordRow, MarkProcessed, tables
  <2>2. CASE EngineFault \/ EngineDies
    BY <2>2 DEF EngineFault, EngineDies, tables
  <2>3. CASE CollectorStep \/ CollectorDies
    BY <2>3 DEF CollectorStep, LoadCursor, Fetch, InsertEvent, SaveCursor, CollectorDies, tables
  <2>4. CASE OperatorStep \/ CommandFails
    BY <2>4 DEF OperatorStep, AuditRule, ApplyRule, RecordApplied, CommandFails, Others
  <2>5. CASE \E d \in Domains : NewQuery(d)
    BY <2>5 DEF NewQuery, tables
  <2>6. CASE \E d \in Domains : Expire(d)
    BY <2>6 DEF Expire
  <2>7. CASE \E d \in Domains, rule \in Rule, apply \in BOOLEAN : ChangeRule(d, rule, apply)
    BY <2>7 DEF ChangeRule, Others
  <2>8. CASE \E c \in Cleaners : CountEvents(c) \/ DeleteEvents(c)
    BY <2>8 DEF CountEvents, DeleteEvents, tables
  <2> QED
    BY <1>1, <2>1, <2>2, <2>3, <2>4, <2>5, <2>6, <2>7, <2>8 DEF Next
<1>2. CASE UNCHANGED vars
  BY <1>2 DEF vars, tables
<1> QED
  BY <1>1, <1>2

LEMMA CacheFollows ==
    ASSUME IInv, CacheIsNewestDecision, [Next]_vars
    PROVE  CacheIsNewestDecision'
<1>1. /\ TypeOK /\ Placed
      /\ analysis \in [Domains -> Analysis]
      /\ history \in Seq(Domains) /\ Len(history) \in Nat
      /\ DOMAIN history = 1 .. Len(history)
  BY DEF IInv, TypeOK
<1>2. \A d \in Domains : analysis[d].decision = Newest(Mine(d))
  BY DEF CacheIsNewestDecision, Newest, Mine
<1>3. CASE UNCHANGED <<analysis, history>>
  BY <1>3 DEF CacheIsNewestDecision
<1>4. CASE UNCHANGED history /\ \E d \in Domains : Expire(d)
  <2>1. PICK d \in Domains : analysis' = [analysis EXCEPT ![d].fresh = FALSE]
    BY <1>4 DEF Expire
  <2>2. \A e \in Domains : analysis'[e].decision = analysis[e].decision
    BY <1>1, <2>1 DEF Analysis
  <2> QED
    BY <1>4, <2>2 DEF CacheIsNewestDecision
<1>5. CASE SaveAnalysis
  <2> DEFINE n == Len(history) + 1
  <2>1. PICK result \in Outcomes(Cur) :
          /\ analysis' = [analysis EXCEPT ![Cur] = CacheRow(@, n, result)]
          /\ history' = Append(history, Cur)
    BY <1>5 DEF SaveAnalysis
  <2>2. Cur \in Domains
    BY <1>1, <1>5 DEF SaveAnalysis, Placed, Cur
  <2>3. /\ DOMAIN history' = 1 .. n
        /\ history'[n] = Cur
        /\ \A i \in 1 .. Len(history) : history'[i] = history[i]
    BY <1>1, <2>1, <2>2
  <2>4. {i \in DOMAIN history' : history'[i] = Cur} \in SUBSET Nat
    BY <1>1, <2>3
  <2>5. Max({i \in DOMAIN history' : history'[i] = Cur}) = n
    BY <1>1, <2>3, <2>4, MaxIsTheBound
  <2>6. ASSUME NEW d \in Domains
        PROVE  analysis'[d].decision = Newest({i \in DOMAIN history' : history'[i] = d})
    <3>1. CASE d = Cur
      <4>1. analysis'[d].decision = n
        BY <1>1, <2>1, <3>1 DEF CacheRow
      <4>2. n \in {i \in DOMAIN history' : history'[i] = d}
        BY <1>1, <2>3, <3>1
      <4> QED
        BY <2>5, <3>1, <4>1, <4>2 DEF Newest
    <3>2. CASE d # Cur
      <4>1. analysis'[d] = analysis[d]
        BY <1>1, <2>1, <3>2
      <4>2. {i \in DOMAIN history' : history'[i] = d} = Mine(d)
        BY <1>1, <2>3, <3>2 DEF Mine
      <4> QED
        BY <1>2, <4>1, <4>2
    <3> QED
      BY <3>1, <3>2
  <2> QED
    BY <2>6 DEF CacheIsNewestDecision, Newest
<1> QED
  BY <1>1, <1>3, <1>4, <1>5, WhoTouchesTheCache

\* The cached row of a domain names the newest decision in its history, whatever ends
\* between the two writes of the engine, expires or is cleaned up: the cache is never
\* ahead of the history nor behind it.
THEOREM CacheFollowsHistory == Spec => []CacheIsNewestDecision
<1>1. Init => CacheIsNewestDecision
  BY DEF Init, CacheIsNewestDecision, NoAnalysis
<1>2. IInv /\ CacheIsNewestDecision /\ [Next]_vars => CacheIsNewestDecision'
  BY CacheFollows
<1> QED
  BY <1>1, <1>2, SpecKeepsIInv, PTL DEF Spec
===============================================================================
