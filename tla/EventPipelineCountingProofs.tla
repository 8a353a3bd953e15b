---------------------- MODULE EventPipelineCountingProofs ----------------------
(***************************************************************************)
(* What faults and crashes can cost EventPipeline at most, for every value *)
(* of its constants: the actions they lose, the events they repeat and the *)
(* lines of blocklist.txt they leave without a row.  Each theorem pairs    *)
(* what a step adds to a finite set with what it adds to a counter.        *)
(***************************************************************************)
EXTENDS EventPipelineProofs

\* A set of numbers up to a length, and a set with at most one more element.
LEMMA IndicesAreFinite ==
    ASSUME NEW n \in Nat, NEW S \in SUBSET (1 .. n)
    PROVE  IsFiniteSet(S) /\ Cardinality(S) \in Nat
<1>1. IsFiniteSet(1 .. n)
  BY FS_Interval
<1>2. IsFiniteSet(S)
  BY <1>1, FS_Subset
<1> QED
  BY <1>2, FS_CardinalityType

LEMMA SmallerCount ==
    ASSUME NEW S, IsFiniteSet(S), NEW T \in SUBSET S
    PROVE  /\ IsFiniteSet(T)
           /\ Cardinality(T) \in Nat /\ Cardinality(S) \in Nat
           /\ Cardinality(T) <= Cardinality(S)
BY FS_Subset, FS_CardinalityType

LEMMA OneMoreCount ==
    ASSUME NEW S, IsFiniteSet(S), NEW x, NEW T \in SUBSET (S \cup {x})
    PROVE  /\ IsFiniteSet(T)
           /\ Cardinality(T) \in Nat /\ Cardinality(S) \in Nat
           /\ Cardinality(T) <= Cardinality(S) + 1
<1>1. /\ IsFiniteSet(S \cup {x})
      /\ Cardinality(S \cup {x}) = IF x \in S THEN Cardinality(S) ELSE Cardinality(S) + 1
  BY FS_AddElement
<1>2. /\ IsFiniteSet(T) /\ Cardinality(T) \in Nat
      /\ Cardinality(S \cup {x}) \in Nat
      /\ Cardinality(T) <= Cardinality(S \cup {x})
  BY <1>1, SmallerCount
<1>3. Cardinality(S) \in Nat
  BY FS_CardinalityType
<1> QED
  BY <1>1, <1>2, <1>3

-----------------------------------------------------------------------------
(* What faults and deaths are spent on *)

\* A fault or a death counts once; no other step counts either.
LEMMA WhatIsSpent ==
    ASSUME TypeOK, Next
    PROVE  /\ spent.crash \in Nat /\ spent.fault \in Nat
           /\ spent'.crash \in Nat /\ spent'.fault \in Nat
           /\ \/ /\ EngineFault /\ ~EngineDies /\ ~CommandFails /\ ~CollectorDies
                 /\ spent'.crash = spent.crash /\ spent'.fault = spent.fault + 1
              \/ /\ EngineDies \/ CommandFails \/ CollectorDies
                 /\ spent'.crash = spent.crash + 1 /\ spent'.fault = spent.fault
              \/ /\ ~EngineFault /\ ~EngineDies /\ ~CommandFails /\ ~CollectorDies
                 /\ spent'.crash = spent.crash /\ spent'.fault = spent.fault
<1>1. spent \in Counters
  BY DEF TypeOK
<1>2. spent.crash \in Nat /\ spent.fault \in Nat
  BY <1>1 DEF Counters
<1>3. CASE EngineFault
  <2>1. spent' = [spent EXCEPT !.fault = @ + 1]
    BY <1>3 DEF EngineFault
  <2>2. spent'.crash = spent.crash /\ spent'.fault = spent.fault + 1
    BY <1>1, <2>1 DEF Counters
  <2>3. ~EngineDies /\ ~CommandFails /\ ~CollectorDies
    <3>1. spent' # [spent EXCEPT !.crash = @ + 1]
      BY <1>1, <1>2, <2>2 DEF Counters
    <3> QED
      BY <3>1 DEF EngineDies, CommandFails, CollectorDies
  <2> QED
    BY <1>2, <1>3, <2>2, <2>3
<1>4. CASE EngineDies \/ CommandFails \/ CollectorDies
  <2>1. spent' = [spent EXCEPT !.crash = @ + 1]
    BY <1>4 DEF EngineDies, CommandFails, CollectorDies
  <2> QED
    BY <1>1, <1>2, <1>4, <2>1 DEF Counters
<1>5. CASE ~EngineFault /\ ~EngineDies /\ ~CommandFails /\ ~CollectorDies
  <2>1. \/ UNCHANGED spent
        \/ spent' = [spent EXCEPT !.expiry = @ + 1]
        \/ spent' = [spent EXCEPT !.command = @ + 1]
        \/ spent' = [spent EXCEPT !.cleanup = @ + 1]
    <3>1. CASE EngineStep
      BY <3>1 DEF EngineStep, GetUnprocessedDomains, LookUp, SaveAnalysis, Learn, DecideStep,
                  AppendLine, RecordWritten, RecordFailed, RecordVerdict, RecordRow,
                  MarkProcessed
    <3>2. CASE CollectorStep
      BY <3>2 DEF CollectorStep, LoadCursor, Fetch, InsertEvent, SaveCursor
    <3>3. CASE OperatorStep
      BY <3>3 DEF OperatorStep, AuditRule, ApplyRule, RecordApplied
    <3>4. CASE \E d \in Domains : NewQuery(d) \/ Expire(d)
      BY <3>4 DEF NewQuery, Expire
    <3>5. CASE \E d \in Domains, rule \in Rule, apply \in BOOLEAN : ChangeRule(d, rule, apply)
      BY <3>5 DEF ChangeRule
    <3>6. CASE \E c \in Cleaners : CountEvents(c) \/ DeleteEvents(c)
      BY <3>6 DEF CountEvents, DeleteEvents
    <3> QED
      BY <1>5, <3>1, <3>2, <3>3, <3>4, <3>5, <3>6 DEF Next
  <2>2. spent'.crash = spent.crash /\ spent'.fault = spent.fault
    BY <1>1, <2>1 DEF Counters
  <2> QED
    BY <1>2, <1>5, <2>2
<1> QED
  BY <1>3, <1>4, <1>5

-----------------------------------------------------------------------------
(* Actions lost *)

Lost == {n \in DOMAIN history : n \notin settled /\ ~Underway(n)}

\* Only a fault or the death of the engine makes it let go of a decision it has not
\* settled, and it holds one at a time.
LEMMA WhatIsLost ==
    ASSUME IInv, Next
    PROVE  \/ Lost' \subseteq Lost
           \/ /\ EngineFault \/ EngineDies
              /\ Lost' \subseteq Lost \cup {engine.decision}
<1>1. /\ engine \in Engine /\ history \in Seq(Domains)
      /\ DOMAIN history = 1 .. Len(history) /\ Len(history) \in Nat
      /\ settled \subseteq 1 .. Len(history)
  BY DEF IInv, TypeOK, AuditInv
<1>2. ASSUME history' = history, settled \subseteq settled',
             \A n \in 1 .. Len(history) : Underway(n) => Underway(n)' \/ n \in settled'
      PROVE  Lost' \subseteq Lost
  BY <1>2 DEF Lost
<1>3. ASSUME engine.pc \notin Acting, UNCHANGED <<history, settled>>
      PROVE  Lost' \subseteq Lost
  BY <1>2, <1>3 DEF Underway, Acting
<1>4. CASE EngineFault \/ EngineDies
  <2>1. UNCHANGED <<history, settled>>
    BY <1>4 DEF EngineFault, EngineDies, tables
  <2> QED
    BY <1>4, <2>1 DEF Lost, Underway
<1>5. CASE SaveAnalysis
  <2>1. engine.pc = "analyze" /\ settled' = settled
    BY <1>5 DEF SaveAnalysis
  <2>2. history' = Append(history, Cur)
        /\ engine'.decision = Len(history) + 1 /\ engine'.pc = "learn"
    BY <1>1, <1>5 DEF SaveAnalysis, Engine
  <2>3. DOMAIN history' = (1 .. Len(history)) \cup {Len(history) + 1}
    <3>1. Cur \in Domains
      BY <2>1 DEF IInv, Placed, Cur
    <3> QED
      BY <1>1, <2>2, <3>1
  <2>4. ASSUME NEW n \in Lost'
        PROVE  n \in Lost
    <3>1. n \in DOMAIN history' /\ n \notin settled /\ ~Underway(n)'
      BY <2>1, <2>4 DEF Lost
    <3>2. n # Len(history) + 1
      BY <2>2, <3>1 DEF Underway
    <3> QED
      BY <1>1, <2>1, <2>3, <3>1, <3>2 DEF Lost, Underway
  <2> QED
    BY <2>4
<1>6. CASE DecideStep
  <2> DEFINE v == DecideAction(engine.result, rules[Cur])
  <2>1. /\ engine' = [engine EXCEPT !.verdict = v, !.result = NoResult, !.pc = StepFor(v)]
        /\ settled' = IF v.action = "none" THEN settled \cup {engine.decision} ELSE settled
        /\ history' = history
    BY <1>6 DEF DecideStep, tables
  <2> HIDE DEF v
  <2>2. engine'.pc = StepFor(v) /\ engine'.decision = engine.decision
    BY <1>1, <2>1 DEF Engine
  <2>3. CASE v.action = "none"
    BY <1>2, <2>1, <2>3 DEF Underway
  <2>4. CASE v.action # "none"
    <3>1. engine'.pc \in {"append", "record"}
      BY <2>2, <2>4 DEF StepFor
    <3> QED
      BY <1>2, <2>1, <2>2, <2>4, <3>1 DEF Underway
  <2> QED
    BY <2>3, <2>4
<1>7. ASSUME NEW row, RecordRow(row)
      PROVE  Lost' \subseteq Lost
  <2>1. history' = history /\ settled' = settled \cup {engine.decision}
    BY <1>7 DEF RecordRow
  <2> QED
    BY <1>2, <2>1 DEF Underway
<1>8. CASE RecordWritten \/ RecordFailed \/ RecordVerdict
  BY <1>7, <1>8 DEF RecordWritten, RecordFailed, RecordVerdict
<1>9. CASE Learn \/ AppendLine
  <2>1. engine.pc \in {"learn", "append"} /\ UNCHANGED <<history, settled>>
    BY <1>9 DEF Learn, AppendLine, tables
  <2>2. engine'.pc \in {"decide", "written"} /\ engine'.decision = engine.decision
    BY <1>1, <1>9 DEF Learn, AppendLine, Engine
  <2> QED
    BY <1>2, <2>1, <2>2 DEF Underway
<1>10. CASE GetUnprocessedDomains \/ LookUp \/ MarkProcessed
  <2>1. engine.pc \in {"idle", "lookup", "mark"} /\ UNCHANGED <<history, settled>>
    BY <1>10 DEF GetUnprocessedDomains, LookUp, MarkProcessed, tables
  <2> QED
    BY <1>3, <2>1 DEF Acting
<1>11. CASE UNCHANGED <<engine, history, settled>>
  BY <1>11 DEF Lost, Underway
<1> QED
  BY <1>4, <1>5, <1>6, <1>8, <1>9, <1>10, <1>11, EngineUntouched DEF EngineStep

\* The action of a decision is lost for good only by a fault or a death, and each of
\* them costs one decision, whatever the collector, operator and maintenance do.
THEOREM LostActionsAreCounted == Spec => []LostActionsAreBounded
<1>1. Init => LostActionsAreBounded
  <2> SUFFICES ASSUME Init PROVE LostActionsAreBounded
    OBVIOUS
  <2>1. {n \in DOMAIN history : n \notin settled /\ ~Underway(n)} = {}
    BY DEF Init
  <2>2. spent.crash + spent.fault = 0
    BY DEF Init
  <2> QED
    BY <2>1, <2>2, FS_EmptySet DEF LostActionsAreBounded
<1>2. ASSUME IInv, LostActionsAreBounded, [Next]_vars
      PROVE  LostActionsAreBounded'
  <2>1. TypeOK /\ IsFiniteSet(Lost) /\ Cardinality(Lost) \in Nat
    <3>1. Lost \in SUBSET (1 .. Len(history)) /\ Len(history) \in Nat
      BY <1>2 DEF IInv, TypeOK, Lost
    <3> QED
      BY <1>2, <3>1, IndicesAreFinite DEF IInv
  <2>2. Cardinality(Lost) <= spent.crash + spent.fault
    BY <1>2 DEF LostActionsAreBounded, Lost
  <2>3. CASE Next
    <3>1. CASE Lost' \subseteq Lost
      <4>1. Cardinality(Lost') \in Nat /\ Cardinality(Lost') <= Cardinality(Lost)
        BY <2>1, <3>1, SmallerCount
      <4>2. Cardinality(Lost') <= spent'.crash + spent'.fault
        BY <2>1, <2>2, <2>3, <4>1, WhatIsSpent
      <4> QED
        BY <4>2 DEF LostActionsAreBounded, Lost
    <3>2. CASE /\ EngineFault \/ EngineDies
               /\ Lost' \subseteq Lost \cup {engine.decision}
      <4>1. Cardinality(Lost') \in Nat /\ Cardinality(Lost') <= Cardinality(Lost) + 1
        BY <2>1, <3>2, OneMoreCount
      <4>2. spent'.crash + spent'.fault = spent.crash + spent.fault + 1
        BY <2>1, <2>3, <3>2, WhatIsSpent
      <4>3. Cardinality(Lost') <= spent'.crash + spent'.fault
        BY <2>1, <2>2, <4>1, <4>2, <2>3, WhatIsSpent
      <4> QED
        BY <4>3 DEF LostActionsAreBounded, Lost
    <3> QED
      BY <1>2, <2>3, <3>1, <3>2, WhatIsLost
  <2>4. CASE UNCHANGED vars
    BY <1>2, <2>4 DEF vars, tables, LostActionsAreBounded, Underway
  <2> QED
    BY <1>2, <2>3, <2>4
<1> QED
  BY <1>1, <1>2, SpecKeepsIInv, PTL DEF Spec

-----------------------------------------------------------------------------
(* Events repeated *)

\* The query up to which the collector has come in this pass.
Done == IF collector.pc \in {"insert", "save"} THEN collector.next - 1 ELSE cursor

\* The queries that are ingested already and still to come: a pass that goes on to them
\* repeats each of them once.
Exposed == {q \in 1 .. MaxQueries : ingested[q] >= 1 /\ q > Done}

\* What an earlier pass ingested beyond the cursor lies within one batch of it.
BatchInv ==
    /\ \A q \in 1 .. MaxQueries : ingested[q] >= 1 =>
          /\ q <= cursor + CollectBatch
          /\ q <= Len(queries)
          /\ collector.pc \in {"insert", "save"} => q <= collector.end
    /\ collector.pc \in {"insert", "save"} => /\ collector.end <= cursor + CollectBatch
                                             /\ cursor < collector.next

RepeatsInv ==
    /\ BatchInv
    /\ IsFiniteSet(Repeats)
    /\ Cardinality(Repeats) + Cardinality(Exposed) <= spent.crash * CollectBatch

LEMMA ExposedIsFinite == IsFiniteSet(Exposed) /\ Cardinality(Exposed) \in Nat
<1>1. Exposed \in SUBSET (1 .. MaxQueries) /\ MaxQueries \in Nat
  BY PipelineBounds DEF Exposed
<1> QED
  BY <1>1, IndicesAreFinite

\* The steps of the collector and of Pi-hole, in the terms of RepeatsInv.
LEMMA BatchKeeps ==
    ASSUME IInv, BatchInv, Next
    PROVE  BatchInv'
<1>1. /\ collector.pc \in {"down", "idle", "insert", "save"}
      /\ collector.last \in Nat /\ collector.next \in Nat /\ collector.end \in Nat
      /\ cursor \in Nat /\ queries \in Seq(Domains) /\ Len(queries) \in Nat
      /\ ingested \in [1 .. MaxQueries -> Nat]
      /\ MaxQueries \in Nat /\ CollectBatch \in Nat \ {0}
  BY PipelineBounds, SettingsAssumption DEF IInv, TypeOK, Collector
<1>2. /\ collector.pc # "down" => collector.last = cursor
      /\ collector.pc = "insert" => collector.next <= collector.end
      /\ collector.pc = "save" => collector.next = collector.end + 1
      /\ collector.end <= Len(queries)
  BY DEF IInv, CollectorInv
<1>3. CASE \E d \in Domains : NewQuery(d)
  <2>1. PICK d \in Domains : NewQuery(d)
    BY <1>3
  <2>2. Len(queries') = Len(queries) + 1
    BY <1>1, <2>1 DEF NewQuery
  <2> QED
    BY <1>1, <2>1, <2>2 DEF NewQuery, BatchInv
<1>4. CASE LoadCursor \/ CollectorDies
  BY <1>1, <1>4 DEF LoadCursor, CollectorDies, CollectorDown, BatchInv
<1>5. CASE Fetch
  <2>1. /\ BatchEnd \in Nat
        /\ BatchEnd \in {Len(queries), cursor + CollectBatch}
        /\ BatchEnd <= Len(queries) /\ BatchEnd <= cursor + CollectBatch
    <3>1. collector.last = cursor /\ cursor + CollectBatch \in Nat
      BY <1>1, <1>2, <1>5 DEF Fetch
    <3> QED
      BY <1>1, <3>1, MinOfTwo DEF BatchEnd
  <2>2. /\ collector'.next = cursor + 1 /\ collector'.end = BatchEnd
        /\ UNCHANGED <<queries, cursor, ingested>>
    BY <1>1, <1>2, <1>5 DEF Fetch
  <2> QED
    BY <1>1, <2>1, <2>2 DEF BatchInv
<1>6. CASE InsertEvent
  <2>1. /\ collector.pc = "insert" /\ collector.next \in 1 .. MaxQueries
        /\ collector.next <= collector.end
        /\ ingested' = [ingested EXCEPT ![collector.next] = @ + 1]
        /\ collector'.pc \in {"insert", "save"}
        /\ collector'.next = collector.next + 1 /\ collector'.end = collector.end
        /\ UNCHANGED <<queries, cursor>>
    BY <1>1, <1>2, <1>6 DEF InsertEvent, IInv, Placed
  <2>2. ASSUME NEW q \in 1 .. MaxQueries, ingested'[q] >= 1
        PROVE  q = collector.next \/ ingested[q] >= 1
    BY <1>1, <2>1, <2>2
  <2> QED
    BY <1>1, <1>2, <2>1, <2>2, SMTT(40) DEF BatchInv
<1>7. CASE SaveCursor
  <2>1. /\ collector.pc = "save" /\ cursor' = collector.end /\ collector'.pc = "idle"
        /\ UNCHANGED <<queries, ingested>>
    BY <1>7 DEF SaveCursor, CursorAfterBatch
  <2> QED
    BY <1>1, <1>2, <2>1 DEF BatchInv
<1>8. CASE UNCHANGED <<queries, cursor, collector, ingested>>
  BY <1>8 DEF BatchInv
<1> QED
  BY <1>3, <1>4, <1>5, <1>6, <1>7, <1>8, CollectorUntouched DEF CollectorStep

\* Ingesting a query that is exposed makes one repeat of it, any other makes none.
LEMMA IngestCounts ==
    ASSUME IInv, RepeatsInv, InsertEvent
    PROVE  /\ IsFiniteSet(Repeats')
           /\ Cardinality(Repeats') + Cardinality(Exposed')
                 <= Cardinality(Repeats) + Cardinality(Exposed)
<1> DEFINE q == collector.next
<1>1. /\ ingested \in [1 .. MaxQueries -> Nat] /\ MaxQueries \in Nat
      /\ q \in 1 .. MaxQueries /\ collector.pc = "insert"
      /\ ingested' = [ingested EXCEPT ![q] = @ + 1]
      /\ collector'.pc \in {"insert", "save"} /\ collector'.next = q + 1
  BY PipelineBounds, SMTT(40) DEF IInv, TypeOK, Placed, InsertEvent, Collector
<1>2. Done = q - 1 /\ Done' = q
  BY <1>1 DEF Done
<1>3. IsFiniteSet(Exposed) /\ Cardinality(Exposed) \in Nat
  BY ExposedIsFinite
<1>4. IsFiniteSet(Repeats) /\ Cardinality(Repeats) \in Nat
  BY FS_CardinalityType DEF RepeatsInv
<1>5. \A p \in 1 .. MaxQueries : p # q => ingested'[p] = ingested[p]
  BY <1>1
<1>6. ingested'[q] = ingested[q] + 1 /\ ingested[q] \in Nat
  BY <1>1
<1>7. Exposed' = Exposed \ {q}
  <2> SUFFICES ASSUME NEW p \in 1 .. MaxQueries
               PROVE  (ingested'[p] >= 1 /\ p > q) <=> (ingested[p] >= 1 /\ p > q - 1 /\ p # q)
    BY <1>2 DEF Exposed
  <2> QED
    BY <1>1, <1>5
<1>8. Cardinality(Exposed') = IF q \in Exposed THEN Cardinality(Exposed) - 1
                             ELSE Cardinality(Exposed)
  BY <1>3, <1>7, FS_RemoveElement
<1>9. CASE ingested[q] = 0
  <2>1. Repeats' = Repeats
    <3>1. \A p \in 1 .. MaxQueries : 2 .. ingested'[p] = 2 .. ingested[p]
      BY <1>1, <1>5, <1>6, <1>9
    <3> QED
      BY <3>1 DEF Repeats
  <2>2. q \notin Exposed
    BY <1>9 DEF Exposed
  <2> QED
    BY <1>3, <1>4, <1>8, <2>1, <2>2
<1>10. CASE ingested[q] >= 1
  <2>1. Repeats' \subseteq Repeats \cup {<<q, ingested[q] + 1>>}
    <3> SUFFICES ASSUME NEW p \in 1 .. MaxQueries, NEW k \in 2 .. ingested'[p]
                 PROVE  <<p, k>> \in Repeats \cup {<<q, ingested[q] + 1>>}
      BY DEF Repeats
    <3>1. CASE k \in 2 .. ingested[p]
      BY <3>1 DEF Repeats
    <3>2. CASE k \notin 2 .. ingested[p]
      <4>1. p = q
        BY <1>5, <3>2
      <4>2. k = ingested[q] + 1
        BY <1>6, <3>2, <4>1
      <4> QED
        BY <4>1, <4>2
    <3> QED
      BY <3>1, <3>2
  <2>2. q \in Exposed
    BY <1>1, <1>2, <1>10 DEF Exposed
  <2>3. /\ IsFiniteSet(Repeats') /\ Cardinality(Repeats') \in Nat
        /\ Cardinality(Repeats') <= Cardinality(Repeats) + 1
    BY <1>4, <2>1, OneMoreCount
  <2> QED
    BY <1>3, <1>4, <1>8, <2>2, <2>3
<1> QED
  BY <1>6, <1>9, <1>10

\* A death exposes at most the batch in hand.
LEMMA DeathExposesABatch ==
    ASSUME IInv, BatchInv, CollectorDies
    PROVE  Cardinality(Exposed') <= CollectBatch
<1>1. /\ cursor \in Nat /\ CollectBatch \in Nat
      /\ UNCHANGED <<cursor, ingested>> /\ collector'.pc = "down"
  BY SettingsAssumption DEF IInv, TypeOK, CollectorDies, CollectorDown
<1>2. Exposed' \in SUBSET ((cursor + 1) .. (cursor + CollectBatch))
  <2> SUFFICES ASSUME NEW q \in 1 .. MaxQueries, ingested[q] >= 1, q > cursor
               PROVE  q \in (cursor + 1) .. (cursor + CollectBatch)
    BY <1>1 DEF Exposed, Done
  <2> QED
    BY <1>1 DEF BatchInv
<1>3. /\ IsFiniteSet((cursor + 1) .. (cursor + CollectBatch))
      /\ Cardinality((cursor + 1) .. (cursor + CollectBatch)) <= CollectBatch
  <2>1. cursor + 1 \in Int /\ cursor + CollectBatch \in Int
    BY <1>1
  <2>2. /\ IsFiniteSet((cursor + 1) .. (cursor + CollectBatch))
        /\ Cardinality((cursor + 1) .. (cursor + CollectBatch)) =
             IF cursor + 1 > cursor + CollectBatch THEN 0
             ELSE (cursor + CollectBatch) - (cursor + 1) + 1
    BY <2>1, FS_Interval
  <2> QED
    BY <1>1, <2>2
<1>4. /\ Cardinality(Exposed') \in Nat
      /\ Cardinality((cursor + 1) .. (cursor + CollectBatch)) \in Nat
      /\ Cardinality(Exposed') <= Cardinality((cursor + 1) .. (cursor + CollectBatch))
  BY <1>2, <1>3, SmallerCount
<1> QED
  BY <1>1, <1>3, <1>4

LEMMA RepeatsKeep ==
    ASSUME IInv, RepeatsInv, [Next]_vars
    PROVE  RepeatsInv'
<1>1. /\ TypeOK /\ CollectBatch \in Nat /\ spent.crash \in Nat
      /\ cursor \in Nat /\ collector.pc \in {"down", "idle", "insert", "save"}
  BY SettingsAssumption DEF IInv, TypeOK, Counters, Collector
<1>2. Cardinality(Exposed) \in Nat
  BY ExposedIsFinite
<1>3. IsFiniteSet(Repeats) /\ Cardinality(Repeats) \in Nat
  BY FS_CardinalityType DEF RepeatsInv
<1>6. Cardinality(Exposed') \in Nat
  <2>1. Exposed' \in SUBSET (1 .. MaxQueries) /\ MaxQueries \in Nat
    BY PipelineBounds DEF Exposed
  <2> QED
    BY <2>1, IndicesAreFinite
<1>4. CASE UNCHANGED vars
  BY <1>4 DEF vars, RepeatsInv, BatchInv, Repeats, Exposed, Done
<1>5. CASE Next
  <2>1. BatchInv'
    BY <1>5, BatchKeeps DEF RepeatsInv
  <2>2. /\ spent'.crash \in Nat
        /\ spent'.crash \in {spent.crash, spent.crash + 1}
        /\ CollectorDies => spent'.crash = spent.crash + 1
    BY <1>1, <1>5, WhatIsSpent
  <2>3. spent.crash * CollectBatch \in Nat /\ spent'.crash * CollectBatch \in Nat
    BY <1>1, <2>2
  <2>4. (spent.crash + 1) * CollectBatch = spent.crash * CollectBatch + CollectBatch
    BY <1>1
  <2>5. spent.crash * CollectBatch <= spent'.crash * CollectBatch
    BY <1>1, <2>2, <2>3, <2>4
  <2>6. CASE CollectorDies
    <3>1. Repeats' = Repeats
      BY <2>6 DEF CollectorDies, Repeats
    <3>2. Cardinality(Exposed') <= CollectBatch
      BY <2>6, DeathExposesABatch DEF RepeatsInv
    <3> QED
      BY <1>1, <1>2, <1>3, <1>6, <2>1, <2>2, <2>3, <2>4, <2>6, <3>1, <3>2 DEF RepeatsInv
  <2>7. CASE InsertEvent
    <3>1. /\ IsFiniteSet(Repeats')
          /\ Cardinality(Repeats') + Cardinality(Exposed')
                <= Cardinality(Repeats) + Cardinality(Exposed)
      BY <2>7, IngestCounts
    <3>2. Cardinality(Repeats') \in Nat
      BY <3>1, FS_CardinalityType
    <3> QED
      BY <1>2, <1>3, <1>6, <2>1, <2>3, <2>5, <3>1, <3>2 DEF RepeatsInv
  <2>8. CASE UNCHANGED ingested /\ Done' = Done
    <3>1. Repeats' = Repeats /\ Exposed' = Exposed
      BY <2>8 DEF Repeats, Exposed
    <3> QED
      BY <1>2, <1>3, <2>1, <2>3, <2>5, <3>1 DEF RepeatsInv
  <2>9. CASE LoadCursor \/ Fetch \/ SaveCursor
    <3>1. /\ collector \in Collector
          /\ collector.pc # "down" => collector.last = cursor
          /\ collector.pc = "save" => collector.next = collector.end + 1
      BY DEF IInv, CollectorInv, TypeOK
    <3>2. Done' = Done
      BY <1>1, <2>9, <3>1
      DEF LoadCursor, Fetch, SaveCursor, CursorAfterBatch, Done, Collector
    <3> QED
      BY <2>8, <2>9, <3>2 DEF LoadCursor, Fetch, SaveCursor
  <2>10. CASE (\E d \in Domains : NewQuery(d)) \/ UNCHANGED <<queries, cursor, collector, ingested>>
    BY <2>8, <2>10 DEF NewQuery, Done
  <2> QED
    BY <1>5, <2>6, <2>7, <2>9, <2>10, CollectorUntouched DEF CollectorStep
<1> QED
  BY <1>4, <1>5

\* However often the collector dies, and however many queries arrive meanwhile, the events
\* hold at most one batch of repeats for each of its deaths.
THEOREM RepeatsAreCounted == Spec => []RepeatsAreBounded
<1>1. Init => RepeatsInv
  <2> SUFFICES ASSUME Init PROVE RepeatsInv
    OBVIOUS
  <2>1. \A q \in 1 .. MaxQueries : ingested[q] = 0
    BY DEF Init
  <2>2. Repeats = {} /\ Exposed = {}
    BY <2>1 DEF Repeats, Exposed
  <2>3. BatchInv
    BY <2>1 DEF Init, BatchInv, CollectorDown
  <2>4. spent.crash * CollectBatch = 0
    BY SettingsAssumption DEF Init
  <2> QED
    BY <2>2, <2>3, <2>4, FS_EmptySet DEF RepeatsInv
<1>2. IInv /\ RepeatsInv /\ [Next]_vars => RepeatsInv'
  BY RepeatsKeep
<1>3. IInv /\ RepeatsInv => RepeatsAreBounded
  <2> SUFFICES ASSUME IInv, RepeatsInv PROVE RepeatsAreBounded
    OBVIOUS
  <2>1. Cardinality(Repeats) \in Nat /\ Cardinality(Exposed) \in Nat
    BY ExposedIsFinite, FS_CardinalityType DEF RepeatsInv
  <2>2. spent.crash * CollectBatch \in Nat
    BY SettingsAssumption DEF IInv, TypeOK, Counters
  <2> QED
    BY <2>1, <2>2 DEF RepeatsInv, RepeatsAreBounded
<1> QED
  BY <1>1, <1>2, <1>3, SpecKeepsIInv, PTL DEF Spec

-----------------------------------------------------------------------------
(* Lines of the blocklist and rows of the audit *)

AtEngine == [by |-> "engine", domain |-> Cur]
AtOperator == [by |-> "operator", domain |-> operator.domain]

BetweenIsTwo ==
    /\ \A w : w \in BetweenLineAndRow <=> \/ w = AtEngine /\ engine.pc = "written"
                                          \/ w = AtOperator /\ operator.pc = "written"
    /\ AtEngine # AtOperator
    /\ AtEngine.domain = Cur /\ AtOperator.domain = operator.domain
    /\ IsFiniteSet(BetweenLineAndRow)

LEMMA WhoIsBetween == BetweenIsTwo
<1>1. AtEngine # AtOperator
  <2>1. AtEngine.by = "engine" /\ AtOperator.by = "operator"
    BY DEF AtEngine, AtOperator
  <2> QED
    BY <2>1
<1>2. \A w : w \in [by : {"engine"}, domain : {Cur}] <=> w = AtEngine
  BY DEF AtEngine
<1>3. \A w : w \in [by : {"operator"}, domain : {operator.domain}] <=> w = AtOperator
  BY DEF AtOperator
<1>4. \A w : w \in BetweenLineAndRow <=> \/ w = AtEngine /\ engine.pc = "written"
                                         \/ w = AtOperator /\ operator.pc = "written"
  <2> SUFFICES ASSUME NEW w
               PROVE  w \in BetweenLineAndRow <=> \/ w = AtEngine /\ engine.pc = "written"
                                                  \/ w = AtOperator /\ operator.pc = "written"
    OBVIOUS
  <2>1. w \in BetweenLineAndRow <=>
          \/ w \in [by : {"engine"}, domain : {Cur}] /\ engine.pc = "written"
          \/ w \in [by : {"operator"}, domain : {operator.domain}] /\ operator.pc = "written"
    BY DEF BetweenLineAndRow
  <2> QED
    BY <1>2, <1>3, <2>1
<1>5. IsFiniteSet({AtEngine} \cup {AtOperator})
  BY FS_Singleton, FS_AddElement
<1>6. IsFiniteSet(BetweenLineAndRow)
  <2>1. BetweenLineAndRow \in SUBSET ({AtEngine} \cup {AtOperator})
    BY <1>4
  <2> QED
    BY <1>5, <2>1, FS_Subset
<1> QED
  <2>1. AtEngine.domain = Cur /\ AtOperator.domain = operator.domain
    BY DEF AtEngine, AtOperator
  <2> QED
    BY <1>1, <1>4, <1>6, <2>1 DEF BetweenIsTwo

LEMMA WhoIsBetweenNext == BetweenIsTwo'
BY WhoIsBetween, PTL

\* The policy never gives a verdict the status of a written line.
VerdictInv == engine.verdict.status # "written"

\* A process writes its line and holds it ...
Writes(w) ==
    /\ w.domain \in Domains /\ w \notin BetweenLineAndRow
    /\ BetweenLineAndRow' = BetweenLineAndRow \cup {w}
    /\ blocklist' = [blocklist EXCEPT ![w.domain] = @ + 1]
    /\ audit' = audit

\* ... until it records the line ...
Records(w, row) ==
    /\ w \in BetweenLineAndRow
    /\ BetweenLineAndRow' = BetweenLineAndRow \ {w}
    /\ row \in AuditRow /\ row.status = "written" /\ row.domain = w.domain
    /\ blocklist' = blocklist
    /\ audit' = Append(audit, row)

\* ... or is stopped.
Drops(w) ==
    /\ BetweenLineAndRow' = BetweenLineAndRow \ {w}
    /\ UNCHANGED <<blocklist, audit>>
    /\ spent'.crash + spent'.fault = spent.crash + spent.fault + 1

\* Other steps leave the line, the process and the row alone.
LeavesAlone ==
    /\ UNCHANGED <<blocklist, BetweenLineAndRow>>
    /\ \/ audit' = audit
       \/ \E row \in AuditRow : row.status # "written" /\ audit' = Append(audit, row)

\* The loop goes to its next domain without a verdict.
LEMMA NextDomainForgets ==
    ASSUME NEW rows, NextDomain(rows)
    PROVE  engine'.pc \in {"idle", "lookup"} /\ engine'.verdict = NoVerdict
<1>1. CASE engine' = IdleEngine
  BY <1>1 DEF IdleEngine
<1>2. ASSUME NEW r, engine' = [IdleEngine EXCEPT !.pc = "lookup", !.cur = r, !.todo = rows \ {r}]
      PROVE  engine'.pc = "lookup" /\ engine'.verdict = NoVerdict
  <2>1. engine' = [pc |-> "lookup", todo |-> rows \ {r}, cur |-> r, decision |-> 0,
                   result |-> NoResult, verdict |-> NoVerdict]
    BY <1>2 DEF IdleEngine
  <2> QED
    BY <2>1
<1> QED
  BY <1>1, <1>2 DEF NextDomain

LEMMA EngineLines ==
    ASSUME IInv, VerdictInv, EngineStep
    PROVE  /\ VerdictInv'
           /\ (\E w : Writes(w)) \/ (\E w, row : Records(w, row)) \/ LeavesAlone
<1>1. /\ engine \in Engine /\ operator' = operator
      /\ engine.pc # "idle" => Cur \in Domains
  BY DEF IInv, TypeOK, Placed, Cur, EngineStep, GetUnprocessedDomains, LookUp, SaveAnalysis,
         Learn, DecideStep, AppendLine, RecordWritten, RecordFailed, RecordVerdict, RecordRow,
         MarkProcessed, EngineOnly
<1>2. AtOperator' = AtOperator /\ operator'.pc = operator.pc
  BY <1>1 DEF AtOperator
<1>3. BetweenIsTwo /\ BetweenIsTwo'
  BY WhoIsBetween, WhoIsBetweenNext
<1>4. ASSUME engine.pc # "written", engine'.pc # "written"
      PROVE  BetweenLineAndRow' = BetweenLineAndRow
  <2>1. \A w : w \in BetweenLineAndRow <=> w = AtOperator /\ operator.pc = "written"
    BY <1>3, <1>4 DEF BetweenIsTwo
  <2>2. \A w : w \in BetweenLineAndRow' <=> w = AtOperator' /\ operator'.pc = "written"
    BY <1>3, <1>4 DEF BetweenIsTwo
  <2> QED
    BY <1>2, <2>1, <2>2
<1>5. NoVerdict.status # "written" /\ IdleEngine.verdict = NoVerdict
  BY DEF NoVerdict, IdleEngine
<1>6. ASSUME NEW rows, NextDomain(rows)
      PROVE  engine'.pc \in {"idle", "lookup"} /\ engine'.verdict = NoVerdict
  BY <1>6, NextDomainForgets
<1>7. CASE GetUnprocessedDomains \/ MarkProcessed
  <2>1. engine'.pc # "written" /\ engine'.verdict = NoVerdict /\ engine.pc # "written"
    BY <1>6, <1>7 DEF GetUnprocessedDomains, MarkProcessed
  <2>2. UNCHANGED <<blocklist, audit>>
    BY <1>7 DEF GetUnprocessedDomains, MarkProcessed, EngineOnly, tables
  <2> QED
    BY <1>4, <1>5, <2>1, <2>2 DEF VerdictInv, LeavesAlone
<1>8. CASE LookUp \/ SaveAnalysis \/ Learn
  <2>1. /\ engine.pc \in {"lookup", "analyze", "learn"}
        /\ engine'.pc \in {"mark", "analyze", "learn", "decide"}
        /\ engine'.verdict = engine.verdict
    BY <1>1, <1>8 DEF LookUp, SaveAnalysis, Learn, Engine
  <2>2. UNCHANGED <<blocklist, audit>>
    BY <1>8 DEF LookUp, SaveAnalysis, Learn, EngineOnly, tables
  <2> QED
    BY <1>4, <2>1, <2>2 DEF VerdictInv, LeavesAlone
<1>9. CASE DecideStep
  <2> DEFINE v == DecideAction(engine.result, rules[Cur])
  <2>1. v.status # "written"
    BY DEF DecideAction, Verdict, NoVerdict
  <2>2. /\ engine.pc = "decide"
        /\ engine' = [engine EXCEPT !.verdict = v, !.result = NoResult, !.pc = StepFor(v)]
        /\ UNCHANGED <<blocklist, audit>>
    BY <1>9 DEF DecideStep, EngineOnly, tables
  <2> HIDE DEF v
  <2>3. engine'.verdict = v /\ engine'.pc = StepFor(v)
    BY <1>1, <2>2 DEF Engine
  <2>4. engine'.pc # "written"
    BY <2>3 DEF StepFor
  <2> QED
    BY <1>4, <2>1, <2>2, <2>3, <2>4 DEF VerdictInv, LeavesAlone
<1>10. CASE AppendLine
  <2>1. /\ engine.pc = "append" /\ engine' = [engine EXCEPT !.pc = "written"]
        /\ blocklist' = [blocklist EXCEPT ![Cur] = @ + 1]
        /\ audit' = audit
    BY <1>10 DEF AppendLine, Appended, tables
  <2>2. engine'.pc = "written" /\ Cur' = Cur /\ engine'.verdict = engine.verdict
    BY <1>1, <2>1 DEF Engine, Cur
  <2>3. AtEngine' = AtEngine
    BY <2>2 DEF AtEngine
  <2>4. /\ AtEngine \notin BetweenLineAndRow /\ AtEngine.domain = Cur
        /\ BetweenLineAndRow' = BetweenLineAndRow \cup {AtEngine}
    BY <1>2, <1>3, <2>1, <2>2, <2>3 DEF BetweenIsTwo
  <2>5. Writes(AtEngine)
    BY <1>1, <2>1, <2>4 DEF Writes
  <2> QED
    BY <2>2, <2>5 DEF VerdictInv
<1>11. ASSUME NEW row, RecordRow(row), engine.pc # "idle"
       PROVE  /\ engine'.pc = "mark" /\ engine'.verdict = engine.verdict
              /\ audit' = Append(audit, row) /\ blocklist' = blocklist
  BY <1>1, <1>11 DEF RecordRow, Engine, EngineOnly
<1>12. CASE RecordWritten
  <2> DEFINE row == Row(Cur, "block", "written", 0, engine.decision)
  <2>1. engine.pc = "written" /\ RecordRow(row)
    BY <1>12 DEF RecordWritten
  <2>2. row \in AuditRow /\ row.status = "written" /\ row.domain = Cur
    BY <1>1, <2>1 DEF Row, AuditRow, Action, Status, Engine
  <2>3. /\ AtEngine \in BetweenLineAndRow /\ AtEngine.domain = Cur
        /\ BetweenLineAndRow' = BetweenLineAndRow \ {AtEngine}
    BY <1>2, <1>3, <1>11, <2>1 DEF BetweenIsTwo
  <2>4. Records(AtEngine, row)
    BY <1>11, <2>1, <2>2, <2>3 DEF Records
  <2> QED
    BY <1>11, <2>1, <2>4 DEF VerdictInv
<1>13. CASE RecordFailed
  <2> DEFINE row == Row(Cur, "block", "failed", engine.decision, engine.decision)
  <2>1. engine.pc = "failed" /\ RecordRow(row)
    BY <1>13 DEF RecordFailed
  <2>2. row \in AuditRow /\ row.status # "written"
    BY <1>1, <2>1 DEF Row, AuditRow, Action, Status, Engine
  <2> QED
    BY <1>4, <1>11, <2>1, <2>2 DEF VerdictInv, LeavesAlone
<1>14. CASE RecordVerdict
  <2> DEFINE row == Row(Cur, engine.verdict.action, engine.verdict.status, engine.decision,
                        engine.decision)
  <2>1. engine.pc = "record" /\ RecordRow(row)
    BY <1>14 DEF RecordVerdict
  <2>2. row \in AuditRow /\ row.status = engine.verdict.status
    <3>1. engine.verdict.action # "none" /\ engine.verdict.status # "none"
      BY <2>1 DEF IInv, Placed
    <3> QED
      BY <1>1, <2>1, <3>1 DEF Row, AuditRow, Action, Status, Engine
  <2> QED
    BY <1>4, <1>11, <2>1, <2>2 DEF VerdictInv, LeavesAlone
<1> QED
  BY <1>7, <1>8, <1>9, <1>10, <1>12, <1>13, <1>14 DEF EngineStep

\* The same of every step.
LEMMA WhoWritesLines ==
    ASSUME IInv, VerdictInv, Next
    PROVE  /\ VerdictInv'
           /\ \/ \E w : Writes(w) \/ Drops(w)
              \/ \E w, row : Records(w, row)
              \/ LeavesAlone
<1>1. BetweenIsTwo /\ BetweenIsTwo'
  BY WhoIsBetween, WhoIsBetweenNext
<1>2. /\ engine \in Engine /\ operator \in Operator
      /\ operator.pc # "idle" => operator.domain \in Domains
      /\ spent.crash \in Nat /\ spent.fault \in Nat
  BY DEF IInv, TypeOK, Placed, Counters
<1>3. CASE EngineStep
  BY <1>3, EngineLines
<1>4. CASE EngineFault \/ EngineDies
  <2>1. /\ UNCHANGED <<operator, blocklist, audit>>
        /\ spent'.crash + spent'.fault = spent.crash + spent.fault + 1
    <3>1. UNCHANGED <<operator, blocklist, audit>>
      BY <1>4 DEF EngineFault, EngineDies, EngineOnly, tables
    <3>2. TypeOK
      BY DEF IInv
    <3> QED
      BY <1>2, <1>4, <3>1, <3>2, WhatIsSpent
  <2>2. engine'.pc # "written" /\ engine'.verdict.status # "written"
    <3>1. IdleEngine.pc = "idle" /\ IdleEngine.verdict.status = "none"
      BY DEF IdleEngine, NoVerdict
    <3>2. NextDomain(engine.todo) =>
            engine'.pc \in {"idle", "lookup"} /\ engine'.verdict.status = "none"
      BY NextDomainForgets DEF NoVerdict
    <3>3. engine'= [engine EXCEPT !.pc = "failed"] \/ engine' = [engine EXCEPT !.pc = "decide"]
            => engine'.pc \in {"failed", "decide"} /\ engine'.verdict = engine.verdict
      BY <1>2 DEF Engine
    <3> QED
      BY <1>4, <3>1, <3>2, <3>3 DEF EngineFault, EngineDies, AfterFault, VerdictInv
  <2>3. AtOperator' = AtOperator
    BY <2>1 DEF AtOperator
  <2>4. BetweenLineAndRow' = BetweenLineAndRow \ {AtEngine}
    BY <1>1, <2>1, <2>2, <2>3 DEF BetweenIsTwo
  <2> QED
    BY <2>1, <2>2, <2>4 DEF VerdictInv, Drops
<1>5. ASSUME engine' = engine
      PROVE  VerdictInv' /\ AtEngine' = AtEngine /\ engine'.pc = engine.pc
  BY <1>5 DEF VerdictInv, AtEngine, Cur
<1>6. CASE CommandFails
  <2>1. /\ UNCHANGED <<engine, blocklist, audit>> /\ operator'.pc = "idle"
        /\ spent'.crash + spent'.fault = spent.crash + spent.fault + 1
    <3>1. UNCHANGED <<engine, blocklist, audit>> /\ operator'.pc = "idle"
      BY <1>6 DEF CommandFails, Others, IdleOperator
    <3>2. TypeOK
      BY DEF IInv
    <3> QED
      BY <1>2, <1>6, <3>1, <3>2, WhatIsSpent
  <2>2. BetweenLineAndRow' = BetweenLineAndRow \ {AtOperator}
    BY <1>1, <1>5, <2>1 DEF BetweenIsTwo
  <2> QED
    BY <1>5, <2>1, <2>2 DEF Drops
<1>7. CASE ApplyRule
  <2>1. /\ operator.pc = "append" /\ operator' = [operator EXCEPT !.pc = "written"]
        /\ blocklist' = [blocklist EXCEPT ![operator.domain] = @ + 1]
        /\ UNCHANGED <<engine, audit>>
    BY <1>7 DEF ApplyRule, Appended, Others
  <2>2. operator'.pc = "written" /\ operator'.domain = operator.domain
    BY <1>2, <2>1 DEF Operator
  <2>3. AtOperator' = AtOperator
    BY <2>2 DEF AtOperator
  <2>4. /\ AtOperator \notin BetweenLineAndRow /\ AtOperator.domain = operator.domain
        /\ BetweenLineAndRow' = BetweenLineAndRow \cup {AtOperator}
    BY <1>1, <1>5, <2>1, <2>2, <2>3 DEF BetweenIsTwo
  <2>5. Writes(AtOperator)
    BY <1>2, <2>1, <2>4 DEF Writes
  <2> QED
    BY <1>5, <2>1, <2>5
<1>8. CASE RecordApplied
  <2> DEFINE row == Row(operator.domain, "block", "written", 0, 0)
  <2>1. /\ operator.pc = "written" /\ operator'.pc = "idle"
        /\ audit' = Append(audit, row) /\ UNCHANGED <<engine, blocklist>>
    BY <1>8 DEF RecordApplied, IdleOperator, Others
  <2>2. row \in AuditRow /\ row.status = "written" /\ row.domain = operator.domain
    BY <1>2, <2>1 DEF Row, AuditRow, Action, Status
  <2>3. /\ AtOperator \in BetweenLineAndRow /\ AtOperator.domain = operator.domain
        /\ BetweenLineAndRow' = BetweenLineAndRow \ {AtOperator}
    BY <1>1, <1>5, <2>1 DEF BetweenIsTwo
  <2>4. Records(AtOperator, row)
    BY <2>1, <2>2, <2>3 DEF Records
  <2> QED
    BY <1>5, <2>1, <2>4
<1>9. ASSUME UNCHANGED <<engine, blocklist>>, operator.pc # "written", operator'.pc # "written"
      PROVE  VerdictInv' /\ UNCHANGED <<blocklist, BetweenLineAndRow>>
  BY <1>1, <1>5, <1>9 DEF BetweenIsTwo
<1>10. CASE AuditRule
  <2>1. operator.pc = "audit" /\ operator'.pc \in {"append", "idle"} /\ UNCHANGED <<engine, blocklist>>
    BY <1>2, <1>10 DEF AuditRule, IdleOperator, Operator, Others
  <2>2. operator.domain \in Domains /\ operator.rule \in Rule
    BY <1>2, <2>1 DEF Operator
  <2>3. \E row \in AuditRow : row.status # "written" /\ audit' = Append(audit, row)
    <3>1. Row(operator.domain, "remove_rule", "removed", 0, 0) \in AuditRow
          /\ Row(operator.domain, "remove_rule", "removed", 0, 0).status # "written"
      BY <2>2 DEF Row, AuditRow, Action, Status
    <3>2. operator.rule # "none" =>
            /\ Row(operator.domain, operator.rule, "rule_saved", 0, 0) \in AuditRow
            /\ Row(operator.domain, operator.rule, "rule_saved", 0, 0).status # "written"
      BY <2>2 DEF Row, AuditRow, Action, Status, Rule
    <3>3. audit' = Append(audit, IF operator.rule = "none"
                                THEN Row(operator.domain, "remove_rule", "removed", 0, 0)
                                ELSE Row(operator.domain, operator.rule, "rule_saved", 0, 0))
      BY <1>10 DEF AuditRule
    <3> QED
      BY <3>1, <3>2, <3>3
  <2> QED
    BY <1>9, <2>1, <2>3 DEF LeavesAlone
<1>11. CASE \E d \in Domains, rule \in Rule, apply \in BOOLEAN : ChangeRule(d, rule, apply)
  <2>1. /\ operator.pc = "idle" /\ operator'.pc = "audit"
        /\ UNCHANGED <<engine, blocklist, audit>>
    BY <1>11 DEF ChangeRule, Others
  <2> QED
    BY <1>9, <2>1 DEF LeavesAlone
<1>12. ASSUME UNCHANGED <<engine, operator, blocklist, audit>>
       PROVE  VerdictInv' /\ LeavesAlone
  <2>1. BetweenLineAndRow' = BetweenLineAndRow
    BY <1>12 DEF BetweenLineAndRow, Cur
  <2> QED
    BY <1>5, <1>12, <2>1 DEF LeavesAlone
<1>13. CASE CollectorStep \/ CollectorDies
  BY <1>12, <1>13 DEF CollectorStep, LoadCursor, Fetch, InsertEvent, SaveCursor, CollectorDies,
                      tables
<1>14. CASE \E d \in Domains : NewQuery(d) \/ Expire(d)
  BY <1>12, <1>14 DEF NewQuery, Expire, tables, EngineOnly
<1>15. CASE \E c \in Cleaners : CountEvents(c) \/ DeleteEvents(c)
  BY <1>12, <1>15 DEF CountEvents, DeleteEvents, tables
<1> QED
  BY <1>3, <1>4, <1>6, <1>7, <1>8, <1>10, <1>11, <1>13, <1>14, <1>15 DEF Next, OperatorStep

\* The rows and the processes in between that speak of one domain.
RowsOf(d) == {i \in WrittenRows : audit[i].domain = d}
BetweenOf(d) == {w \in BetweenLineAndRow : w.domain = d}

LinesInv ==
    /\ VerdictInv
    /\ IsFiniteSet(Lines)
    /\ BlocklistMatchesAudit

\* A row added to the audit, as the counted sets see it.
LEMMA RowAdded ==
    ASSUME TypeOK, NEW row \in AuditRow, audit' = Append(audit, row)
    PROVE  LET n == Len(audit) + 1 IN
           /\ n \notin WrittenRows
           /\ WrittenRows' = IF row.status = "written" THEN WrittenRows \cup {n} ELSE WrittenRows
           /\ \A i \in WrittenRows : audit'[i] = audit[i]
           /\ audit'[n] = row
<1>1. /\ audit \in Seq(AuditRow) /\ Len(audit) \in Nat
      /\ DOMAIN audit = 1 .. Len(audit)
  BY DEF TypeOK
<1>2. /\ DOMAIN audit' = (1 .. Len(audit)) \cup {Len(audit) + 1}
      /\ \A i \in 1 .. Len(audit) : audit'[i] = audit[i]
      /\ audit'[Len(audit) + 1] = row
  BY <1>1
<1>3. Len(audit) + 1 \notin 1 .. Len(audit)
  BY <1>1
<1> QED
  BY <1>1, <1>2, <1>3 DEF WrittenRows

LEMMA CountsAreFinite ==
    ASSUME TypeOK
    PROVE  /\ IsFiniteSet(WrittenRows) /\ Cardinality(WrittenRows) \in Nat
           /\ IsFiniteSet(BetweenLineAndRow) /\ Cardinality(BetweenLineAndRow) \in Nat
           /\ \A d : /\ IsFiniteSet(RowsOf(d)) /\ Cardinality(RowsOf(d)) \in Nat
                     /\ IsFiniteSet(BetweenOf(d)) /\ Cardinality(BetweenOf(d)) \in Nat
<1>1. IsFiniteSet(WrittenRows)
  <2>1. WrittenRows \in SUBSET (1 .. Len(audit)) /\ Len(audit) \in Nat
    BY DEF TypeOK, WrittenRows
  <2> QED
    BY <2>1, IndicesAreFinite
<1>2. IsFiniteSet(BetweenLineAndRow)
  BY WhoIsBetween DEF BetweenIsTwo
<1>3. ASSUME NEW d
      PROVE  IsFiniteSet(RowsOf(d)) /\ IsFiniteSet(BetweenOf(d))
  <2>1. RowsOf(d) \in SUBSET WrittenRows /\ BetweenOf(d) \in SUBSET BetweenLineAndRow
    BY DEF RowsOf, BetweenOf
  <2> QED
    BY <1>1, <1>2, <2>1, FS_Subset
<1> QED
  BY <1>1, <1>2, <1>3, FS_CardinalityType

SpentGrows ==
    /\ {spent.crash, spent.fault, spent'.crash, spent'.fault} \subseteq Nat
    /\ spent'.crash + spent'.fault >= spent.crash + spent.fault

\* A line more: the process that wrote it answers for it.
LEMMA WritesKeeps ==
    ASSUME TypeOK, LinesInv, NEW w, Writes(w),
           SpentGrows
    PROVE  IsFiniteSet(Lines') /\ BlocklistMatchesAudit'
<1> DEFINE d == w.domain
<1>1. /\ d \in Domains /\ w \notin BetweenLineAndRow
      /\ BetweenLineAndRow' = BetweenLineAndRow \cup {w}
      /\ blocklist' = [blocklist EXCEPT ![d] = @ + 1]
      /\ audit' = audit /\ WrittenRows' = WrittenRows
      /\ blocklist \in [Domains -> Nat]
  BY DEF Writes, WrittenRows, TypeOK
<1>2. Cardinality(BetweenLineAndRow') = Cardinality(BetweenLineAndRow) + 1
  BY <1>1, CountsAreFinite, FS_AddElement
<1>3. /\ IsFiniteSet(Lines') /\ Cardinality(Lines') \in Nat
      /\ Cardinality(Lines) \in Nat /\ Cardinality(Lines') <= Cardinality(Lines) + 1
  <2>1. Lines' \subseteq Lines \cup {<<d, blocklist[d] + 1>>}
    <3> SUFFICES ASSUME NEW e \in Domains, NEW k \in 1 .. blocklist'[e]
                 PROVE  <<e, k>> \in Lines \cup {<<d, blocklist[d] + 1>>}
      BY DEF Lines
    <3>1. CASE k \in 1 .. blocklist[e]
      BY <3>1 DEF Lines
    <3>2. CASE k \notin 1 .. blocklist[e]
      BY <1>1, <3>2
    <3> QED
      BY <3>1, <3>2
  <2> QED
    BY <2>1, OneMoreCount DEF LinesInv
<1>4. ASSUME NEW e \in Domains
      PROVE  Cardinality(RowsOf(e)') + Cardinality(BetweenOf(e)') <= blocklist'[e]
  <2>1. /\ Cardinality(RowsOf(e)) \in Nat /\ Cardinality(BetweenOf(e)) \in Nat
        /\ IsFiniteSet(BetweenOf(e))
        /\ Cardinality(RowsOf(e)) + Cardinality(BetweenOf(e)) <= blocklist[e]
    BY CountsAreFinite DEF LinesInv, BlocklistMatchesAudit, RowsOf, BetweenOf
  <2>2. RowsOf(e)' = RowsOf(e)
    BY <1>1 DEF RowsOf
  <2>3. CASE e = d
    <3>1. BetweenOf(e)' = BetweenOf(e) \cup {w} /\ w \notin BetweenOf(e)
      BY <1>1, <2>3 DEF BetweenOf
    <3>2. Cardinality(BetweenOf(e)') = Cardinality(BetweenOf(e)) + 1
      BY <2>1, <3>1, FS_AddElement
    <3>3. blocklist'[e] = blocklist[e] + 1 /\ blocklist[e] \in Nat
      BY <1>1, <2>3
    <3> QED
      BY <2>1, <2>2, <3>2, <3>3
  <2>4. CASE e # d
    <3>1. BetweenOf(e)' = BetweenOf(e)
      BY <1>1, <2>4 DEF BetweenOf
    <3> QED
      BY <1>1, <2>1, <2>2, <2>4, <3>1
  <2> QED
    BY <2>3, <2>4
<1>5. Cardinality(Lines') <= Cardinality(WrittenRows') + Cardinality(BetweenLineAndRow')
                             + spent'.crash + spent'.fault
  <2>1. Cardinality(Lines) <= Cardinality(WrittenRows) + Cardinality(BetweenLineAndRow)
                              + spent.crash + spent.fault
    BY DEF LinesInv, BlocklistMatchesAudit
  <2>2. Cardinality(WrittenRows) \in Nat /\ Cardinality(BetweenLineAndRow) \in Nat
    BY CountsAreFinite
  <2> QED
    BY <1>1, <1>2, <1>3, <2>1, <2>2 DEF SpentGrows
<1> QED
  BY <1>3, <1>4, <1>5 DEF BlocklistMatchesAudit, RowsOf, BetweenOf

\* A row more: it takes the place of the process that answered for the line.
LEMMA RecordsKeeps ==
    ASSUME TypeOK, LinesInv, NEW w, NEW row, Records(w, row),
           SpentGrows
    PROVE  IsFiniteSet(Lines') /\ BlocklistMatchesAudit'
<1> DEFINE n == Len(audit) + 1
<1>1. /\ w \in BetweenLineAndRow /\ BetweenLineAndRow' = BetweenLineAndRow \ {w}
      /\ row \in AuditRow /\ row.status = "written" /\ row.domain = w.domain
      /\ audit' = Append(audit, row) /\ blocklist' = blocklist
  BY DEF Records
<1>2. /\ n \notin WrittenRows /\ WrittenRows' = WrittenRows \cup {n}
      /\ \A i \in WrittenRows : audit'[i] = audit[i]
      /\ audit'[n] = row
  BY <1>1, RowAdded
<1> HIDE DEF n
<1>3. Lines' = Lines
  BY <1>1 DEF Lines
<1>4. /\ Cardinality(WrittenRows') = Cardinality(WrittenRows) + 1
      /\ Cardinality(BetweenLineAndRow') = Cardinality(BetweenLineAndRow) - 1
  BY <1>1, <1>2, CountsAreFinite, FS_AddElement, FS_RemoveElement
<1>5. ASSUME NEW e \in Domains
      PROVE  Cardinality(RowsOf(e)') + Cardinality(BetweenOf(e)') <= blocklist'[e]
  <2>1. /\ Cardinality(RowsOf(e)) \in Nat /\ Cardinality(BetweenOf(e)) \in Nat
        /\ IsFiniteSet(RowsOf(e)) /\ IsFiniteSet(BetweenOf(e))
        /\ Cardinality(RowsOf(e)) + Cardinality(BetweenOf(e)) <= blocklist[e]
    BY CountsAreFinite DEF LinesInv, BlocklistMatchesAudit, RowsOf, BetweenOf
  <2>2. CASE e = w.domain
    <3>1. RowsOf(e)' = RowsOf(e) \cup {n} /\ n \notin RowsOf(e)
      BY <1>1, <1>2, <2>2 DEF RowsOf
    <3>2. BetweenOf(e)' = BetweenOf(e) \ {w} /\ w \in BetweenOf(e)
      BY <1>1, <2>2 DEF BetweenOf
    <3>3. /\ Cardinality(RowsOf(e)') = Cardinality(RowsOf(e)) + 1
          /\ Cardinality(BetweenOf(e)') = Cardinality(BetweenOf(e)) - 1
      <4>1. Cardinality(RowsOf(e)') = Cardinality(RowsOf(e)) + 1
        BY <2>1, <3>1, FS_AddElement
      <4>2. Cardinality(BetweenOf(e)') = Cardinality(BetweenOf(e)) - 1
        BY <2>1, <3>2, FS_RemoveElement
      <4> QED
        BY <4>1, <4>2
    <3> QED
      BY <1>1, <2>1, <3>3
  <2>3. CASE e # w.domain
    <3>1. RowsOf(e)' = RowsOf(e)
      BY <1>1, <1>2, <2>3 DEF RowsOf
    <3>2. BetweenOf(e)' = BetweenOf(e)
      BY <1>1, <2>3 DEF BetweenOf
    <3> QED
      BY <1>1, <2>1, <3>1, <3>2
  <2> QED
    BY <2>2, <2>3
<1>6. Cardinality(Lines') <= Cardinality(WrittenRows') + Cardinality(BetweenLineAndRow')
                             + spent'.crash + spent'.fault
  <2>1. /\ Cardinality(Lines) <= Cardinality(WrittenRows) + Cardinality(BetweenLineAndRow)
                                 + spent.crash + spent.fault
        /\ Cardinality(Lines) \in Nat
    BY FS_CardinalityType DEF LinesInv, BlocklistMatchesAudit
  <2>2. Cardinality(WrittenRows) \in Nat /\ Cardinality(BetweenLineAndRow) \in Nat
    BY CountsAreFinite
  <2> QED
    BY <1>3, <1>4, <2>1, <2>2 DEF SpentGrows
<1> QED
  BY <1>3, <1>5, <1>6 DEF BlocklistMatchesAudit, RowsOf, BetweenOf, LinesInv

\* A stop between line and row: the line stays without one.
LEMMA DropsKeeps ==
    ASSUME TypeOK, LinesInv, NEW w, Drops(w), SpentGrows
    PROVE  IsFiniteSet(Lines') /\ BlocklistMatchesAudit'
<1>1. /\ BetweenLineAndRow' = BetweenLineAndRow \ {w}
      /\ UNCHANGED <<blocklist, audit>>
      /\ spent'.crash + spent'.fault = spent.crash + spent.fault + 1
  BY DEF Drops
<1>2. Lines' = Lines /\ WrittenRows' = WrittenRows
  BY <1>1 DEF Lines, WrittenRows
<1>3. /\ Cardinality(BetweenLineAndRow') \in Nat
      /\ Cardinality(BetweenLineAndRow') >= Cardinality(BetweenLineAndRow) - 1
  <2>1. /\ IsFiniteSet(BetweenLineAndRow) /\ Cardinality(BetweenLineAndRow) \in Nat
    BY CountsAreFinite
  <2>2. Cardinality(BetweenLineAndRow') =
          IF w \in BetweenLineAndRow THEN Cardinality(BetweenLineAndRow) - 1
          ELSE Cardinality(BetweenLineAndRow)
    BY <1>1, <2>1, FS_RemoveElement
  <2>3. IsFiniteSet(BetweenLineAndRow')
    BY <1>1, <2>1, FS_RemoveElement
  <2> QED
    BY <2>1, <2>2, <2>3, FS_CardinalityType
<1>4. ASSUME NEW e \in Domains
      PROVE  Cardinality(RowsOf(e)') + Cardinality(BetweenOf(e)') <= blocklist'[e]
  <2>1. /\ Cardinality(RowsOf(e)) \in Nat /\ Cardinality(BetweenOf(e)) \in Nat
        /\ IsFiniteSet(BetweenOf(e)) /\ blocklist[e] \in Nat
        /\ Cardinality(RowsOf(e)) + Cardinality(BetweenOf(e)) <= blocklist[e]
    BY CountsAreFinite DEF LinesInv, BlocklistMatchesAudit, RowsOf, BetweenOf, TypeOK
  <2>2. RowsOf(e)' = RowsOf(e)
    BY <1>1, <1>2 DEF RowsOf
  <2>3. BetweenOf(e)' \in SUBSET BetweenOf(e)
    BY <1>1 DEF BetweenOf
  <2>4. /\ Cardinality(BetweenOf(e)') \in Nat
        /\ Cardinality(BetweenOf(e)') <= Cardinality(BetweenOf(e))
    BY <2>1, <2>3, SmallerCount
  <2> QED
    BY <1>1, <2>1, <2>2, <2>4
<1>5. Cardinality(Lines') <= Cardinality(WrittenRows') + Cardinality(BetweenLineAndRow')
                             + spent'.crash + spent'.fault
  <2>1. /\ Cardinality(Lines) <= Cardinality(WrittenRows) + Cardinality(BetweenLineAndRow)
                                 + spent.crash + spent.fault
        /\ Cardinality(Lines) \in Nat
    BY FS_CardinalityType DEF LinesInv, BlocklistMatchesAudit
  <2>2. Cardinality(WrittenRows) \in Nat /\ Cardinality(BetweenLineAndRow) \in Nat
    BY CountsAreFinite
  <2> QED
    BY <1>1, <1>2, <1>3, <2>1, <2>2 DEF SpentGrows
<1> QED
  BY <1>2, <1>4, <1>5 DEF BlocklistMatchesAudit, RowsOf, BetweenOf, LinesInv

LEMMA LeavesAloneKeeps ==
    ASSUME TypeOK, LinesInv, LeavesAlone, SpentGrows
    PROVE  IsFiniteSet(Lines') /\ BlocklistMatchesAudit'
<1>1. UNCHANGED <<blocklist, BetweenLineAndRow>>
  BY DEF LeavesAlone
<1>2. WrittenRows' = WrittenRows /\ \A i \in WrittenRows : audit'[i] = audit[i]
  <2>1. CASE audit' = audit
    BY <2>1 DEF WrittenRows
  <2>2. CASE \E row \in AuditRow : row.status # "written" /\ audit' = Append(audit, row)
    BY <2>2, RowAdded
  <2> QED
    BY <2>1, <2>2 DEF LeavesAlone
<1>3. Lines' = Lines
  BY <1>1 DEF Lines
<1>4. \A e \in Domains : RowsOf(e)' = RowsOf(e) /\ BetweenOf(e)' = BetweenOf(e)
  BY <1>1, <1>2 DEF RowsOf, BetweenOf
<1>5. \A e \in Domains :
        Cardinality(RowsOf(e)') + Cardinality(BetweenOf(e)') <= blocklist'[e]
  BY <1>1, <1>4 DEF LinesInv, BlocklistMatchesAudit, RowsOf, BetweenOf
<1>6. Cardinality(Lines') <= Cardinality(WrittenRows') + Cardinality(BetweenLineAndRow')
                             + spent'.crash + spent'.fault
  <2>1. /\ Cardinality(Lines) <= Cardinality(WrittenRows) + Cardinality(BetweenLineAndRow)
                                 + spent.crash + spent.fault
        /\ Cardinality(Lines) \in Nat
    BY FS_CardinalityType DEF LinesInv, BlocklistMatchesAudit
  <2>2. Cardinality(WrittenRows) \in Nat /\ Cardinality(BetweenLineAndRow) \in Nat
    BY CountsAreFinite
  <2> QED
    BY <1>1, <1>2, <1>3, <2>1, <2>2 DEF SpentGrows
<1> QED
  BY <1>3, <1>5, <1>6 DEF BlocklistMatchesAudit, RowsOf, BetweenOf, LinesInv

\* The audit claims no line that is not in blocklist.txt, and a line without a row was
\* left so by a fault or a death: at most one for each, by the engine or by the
\* operator, whichever of them writes while the other is between its line and its row.
THEOREM BlocklistIsAccountedFor == Spec => []BlocklistMatchesAudit
<1>1. Init => LinesInv
  <2> SUFFICES ASSUME Init PROVE LinesInv
    OBVIOUS
  <2>1. VerdictInv
    BY DEF Init, VerdictInv, IdleEngine, NoVerdict
  <2>2. Lines = {} /\ WrittenRows = {}
    BY DEF Init, Lines, WrittenRows
  <2>3. BetweenLineAndRow = {}
    BY DEF Init, BetweenLineAndRow, IdleEngine, IdleOperator
  <2>4. \A d \in Domains : RowsOf(d) = {} /\ BetweenOf(d) = {} /\ blocklist[d] = 0
    BY <2>2, <2>3 DEF Init, RowsOf, BetweenOf
  <2>5. spent.crash = 0 /\ spent.fault = 0
    BY DEF Init
  <2> QED
    BY <2>1, <2>2, <2>3, <2>4, <2>5, FS_EmptySet
    DEF LinesInv, BlocklistMatchesAudit, RowsOf, BetweenOf
<1>2. ASSUME IInv, LinesInv, [Next]_vars
      PROVE  LinesInv'
  <2>1. TypeOK /\ VerdictInv
    BY <1>2 DEF IInv, LinesInv
  <2>2. CASE Next
    <3>1. SpentGrows
      <4>1. /\ spent.crash \in Nat /\ spent.fault \in Nat
            /\ spent'.crash \in Nat /\ spent'.fault \in Nat
            /\ spent'.crash \in {spent.crash, spent.crash + 1}
            /\ spent'.fault \in {spent.fault, spent.fault + 1}
        BY <2>1, <2>2, WhatIsSpent
      <4> QED
        BY <4>1 DEF SpentGrows
    <3>2. VerdictInv'
      BY <1>2, <2>1, <2>2, WhoWritesLines
    <3>3. IsFiniteSet(Lines') /\ BlocklistMatchesAudit'
      BY <1>2, <2>1, <2>2, <3>1, WhoWritesLines, WritesKeeps, RecordsKeeps, DropsKeeps,
         LeavesAloneKeeps
    <3> QED
      BY <3>2, <3>3 DEF LinesInv
  <2>3. CASE UNCHANGED vars
    BY <1>2, <2>3 DEF vars, tables, LinesInv, VerdictInv, Lines, BlocklistMatchesAudit,
                      WrittenRows, BetweenLineAndRow, Cur
  <2> QED
    BY <1>2, <2>2, <2>3
<1>3. LinesInv => BlocklistMatchesAudit
  BY DEF LinesInv
<1> QED
  BY <1>1, <1>2, <1>3, SpecKeepsIInv, PTL DEF Spec

-----------------------------------------------------------------------------
(* Cleanup *)

\* The id of an event is its own, and the counter is past all of them.
IdsInv ==
    /\ \A e \in events : e.id <= lastEvent
    /\ \A e, f \in events : e.id = f.id => e = f

\* The events older than r.
Older(r, S) == {s \in S : s.id < r.id}

\* Rows with different ids have different ranks, so the n oldest are at most n, and
\* everything older than one of them is among them.
LEMMA OldestAreOldest ==
    ASSUME NEW S, IsFiniteSet(S), NEW n \in Nat,
           \A r \in S : r.id \in Nat,
           \A r, s \in S : r.id = s.id => r = s
    PROVE  /\ Oldest(n, S) \subseteq S
           /\ IsFiniteSet(Oldest(n, S)) /\ Cardinality(Oldest(n, S)) \in Nat
           /\ Cardinality(Oldest(n, S)) <= n
           /\ \A e \in Oldest(n, S), f \in S \ Oldest(n, S) : e.id < f.id
<1>1. \A r \in S : /\ IsFiniteSet(Older(r, S)) /\ Cardinality(Older(r, S)) \in Nat
  <2> SUFFICES ASSUME NEW r \in S
               PROVE  IsFiniteSet(Older(r, S)) /\ Cardinality(Older(r, S)) \in Nat
    OBVIOUS
  <2>1. Older(r, S) \in SUBSET S
    BY DEF Older
  <2> QED
    BY <2>1, SmallerCount
<1>2. \A r \in S : r \in Oldest(n, S) <=> Cardinality(Older(r, S)) < n
  BY DEF Oldest, Older
<1>3. ASSUME NEW r \in S, NEW s \in S, r.id < s.id
      PROVE  Cardinality(Older(r, S)) < Cardinality(Older(s, S))
  <2>1. Older(r, S) \in SUBSET Older(s, S)
    BY <1>3 DEF Older
  <2>2. r \in Older(s, S) /\ r \notin Older(r, S)
    BY <1>3 DEF Older
  <2>3. /\ Cardinality(Older(r, S)) <= Cardinality(Older(s, S))
        /\ Cardinality(Older(s, S)) # Cardinality(Older(r, S))
    BY <1>1, <2>1, <2>2, FS_Subset
  <2> QED
    BY <1>1, <2>3
<1>4. Oldest(n, S) \in SUBSET S
  BY DEF Oldest
<1>5. Cardinality(Oldest(n, S)) <= n
  <2> DEFINE rank == [r \in Oldest(n, S) |-> Cardinality(Older(r, S))]
  <2>1. rank \in [Oldest(n, S) -> 0 .. (n - 1)]
    BY <1>1, <1>2, <1>4
  <2>2. ASSUME NEW r \in Oldest(n, S), NEW s \in Oldest(n, S), rank[r] = rank[s]
        PROVE  r = s
    <3>1. r \in S /\ s \in S /\ r.id \in Nat /\ s.id \in Nat
      BY <1>4
    <3>2. Cardinality(Older(r, S)) = Cardinality(Older(s, S))
      BY <2>2
    <3>3. ~(r.id < s.id) /\ ~(s.id < r.id)
      BY <1>1, <1>3, <3>1, <3>2
    <3> QED
      BY <3>1, <3>3
  <2>3. rank \in Injection(Oldest(n, S), 0 .. (n - 1))
    BY <2>1, <2>2 DEF Injection, IsInjective
  <2>4. IsFiniteSet(0 .. (n - 1)) /\ Cardinality(0 .. (n - 1)) <= n
    <3>1. 0 \in Int /\ n - 1 \in Int
      OBVIOUS
    <3>2. /\ IsFiniteSet(0 .. (n - 1))
          /\ Cardinality(0 .. (n - 1)) = IF 0 > n - 1 THEN 0 ELSE (n - 1) - 0 + 1
      BY <3>1, FS_Interval
    <3> QED
      BY <3>2
  <2> HIDE DEF rank
  <2>5. Cardinality(Oldest(n, S)) <= Cardinality(0 .. (n - 1))
    BY <2>3, <2>4, FS_Injection
  <2>6. Cardinality(Oldest(n, S)) \in Nat /\ Cardinality(0 .. (n - 1)) \in Nat
    BY <1>4, <2>4, SmallerCount, FS_CardinalityType
  <2> QED
    BY <2>4, <2>5, <2>6
<1>6. ASSUME NEW e \in Oldest(n, S), NEW f \in S \ Oldest(n, S)
      PROVE  e.id < f.id
  <2>1. e \in S /\ f \in S /\ e # f /\ e.id \in Nat /\ f.id \in Nat
    BY <1>4
  <2>2. Cardinality(Older(e, S)) < n /\ ~(Cardinality(Older(f, S)) < n)
    BY <1>2, <2>1
  <2>3. ~(f.id < e.id)
    BY <1>1, <1>3, <2>1, <2>2
  <2> QED
    BY <2>1, <2>3
<1> QED
  BY <1>4, <1>5, <1>6, SmallerCount

\* Marking keeps the id of an event, and with it the number of events.
LEMMA MarkingKeepsCount ==
    ASSUME TypeOK, IsFiniteSet(events), IdsInv, MarkProcessed
    PROVE  /\ IdsInv'
           /\ IsFiniteSet(events') /\ Cardinality(events') \in Nat
           /\ Cardinality(events') >= Cardinality(events)
<1> DEFINE Marked(e) == [e EXCEPT !.processed = @ \/ e.domain = Cur]
<1>1. events' = {Marked(e) : e \in events} /\ lastEvent' = lastEvent
  BY DEF MarkProcessed
<1>2. \A e \in events : Marked(e).id = e.id
  BY DEF TypeOK, Event
<1> HIDE DEF Marked
<1>3. IdsInv'
  BY <1>1, <1>2 DEF IdsInv
<1>4. [e \in events |-> Marked(e)] \in Injection(events, events')
  <2>1. [e \in events |-> Marked(e)] \in [events -> events']
    BY <1>1
  <2>2. \A e, f \in events : Marked(e) = Marked(f) => e = f
    BY <1>2 DEF IdsInv
  <2> QED
    BY <2>1, <2>2 DEF Injection, IsInjective
<1>5. IsFiniteSet(events')
  <2>1. Next
    BY DEF Next, EngineStep
  <2> QED
    BY <2>1, EventsStayFinite
<1>6. Cardinality(events) <= Cardinality(events')
  BY <1>4, <1>5, FS_Injection
<1>7. Cardinality(events) \in Nat /\ Cardinality(events') \in Nat
  BY <1>5, FS_CardinalityType
<1> QED
  BY <1>3, <1>5, <1>6, <1>7

LEMMA InsertAddsOne ==
    ASSUME TypeOK, IsFiniteSet(events), IdsInv, InsertEvent
    PROVE  /\ IdsInv'
           /\ IsFiniteSet(events') /\ Cardinality(events') \in Nat
           /\ Cardinality(events') >= Cardinality(events)
<1> DEFINE new == [id |-> lastEvent', domain |-> queries[collector.next], processed |-> FALSE]
<1>1. /\ lastEvent \in Nat /\ lastEvent' = lastEvent + 1
      /\ events' = events \cup {new} /\ new.id = lastEvent'
      /\ \A e \in events : e.id \in Nat
  BY DEF InsertEvent, TypeOK, Event
<1> HIDE DEF new
<1>2. IdsInv'
  BY <1>1 DEF IdsInv
<1>3. IsFiniteSet(events') /\ Cardinality(events') \in Nat
  BY <1>1, FS_AddElement, FS_CardinalityType
<1>4. Cardinality(events) <= Cardinality(events')
  <2>1. events \in SUBSET events'
    BY <1>1
  <2> QED
    BY <1>3, <2>1, FS_Subset
<1>5. Cardinality(events) \in Nat
  BY FS_CardinalityType
<1> QED
  BY <1>2, <1>3, <1>4, <1>5

\* A run deletes at most as many events as it has counted, the oldest.
LEMMA DeletesTheOldest ==
    ASSUME TypeOK, IsFiniteSet(events), IdsInv, NEW c \in Cleaners, DeleteEvents(c)
    PROVE  /\ IdsInv'
           /\ IsFiniteSet(events') /\ Cardinality(events') \in Nat
           /\ Cardinality(events') + cleaning[c] >= Cardinality(events)
           /\ \A e \in events \ events', f \in events' : e.id < f.id
<1> DEFINE doomed == Oldest(cleaning[c], events)
<1>1. /\ events' = events \ doomed /\ lastEvent' = lastEvent
      /\ cleaning[c] \in Nat
      /\ \A e \in events : e.id \in Nat
  BY DEF DeleteEvents, TypeOK, Event
<1>2. /\ doomed \subseteq events
      /\ IsFiniteSet(doomed) /\ Cardinality(doomed) \in Nat
      /\ Cardinality(doomed) <= cleaning[c]
      /\ \A e \in doomed, f \in events \ doomed : e.id < f.id
  BY <1>1, OldestAreOldest DEF IdsInv
<1> HIDE DEF doomed
<1>3. IdsInv'
  BY <1>1 DEF IdsInv
<1>4. /\ IsFiniteSet(events') /\ Cardinality(events') \in Nat
      /\ Cardinality(events) \in Nat
  <2>1. events' \in SUBSET events
    BY <1>1
  <2> QED
    BY <2>1, SmallerCount
<1>5. Cardinality(events) = Cardinality(events') + Cardinality(doomed)
  <2>1. events' \cap doomed = {} /\ events' \cup doomed = events
    BY <1>1, <1>2
  <2>2. Cardinality(events' \cup doomed) =
          Cardinality(events') + Cardinality(doomed) - Cardinality(events' \cap doomed)
    BY <1>2, <1>4, FS_Union
  <2>3. Cardinality({}) = 0
    BY FS_EmptySet
  <2>4. /\ Cardinality(events' \cup doomed) = Cardinality(events)
        /\ Cardinality(events' \cap doomed) = 0
    BY <2>1, <2>3
  <2> QED
    BY <1>2, <1>4, <2>2, <2>4
<1>6. \A e \in events \ events', f \in events' : e.id < f.id
  BY <1>1, <1>2
<1> QED
  BY <1>1, <1>2, <1>3, <1>4, <1>5, <1>6

\* A count of the rows to delete is right or too small until it is used, because only
\* the run itself deletes events.
CountInv == \A c \in Cleaners :
    cleaning[c] > 0 => cleaning[c] + KeepLatest <= Cardinality(events)

OneRunAtATime == \A c, e \in Cleaners : c = e

LEMMA WhoTouchesCounts ==
    ASSUME Next
    PROVE  \/ (\E c \in Cleaners : CountEvents(c) \/ DeleteEvents(c))
           \/ UNCHANGED cleaning
<1>1. CASE EngineStep
  BY <1>1 DEF EngineStep, GetUnprocessedDomains, LookUp, SaveAnalysis, Learn, DecideStep,
              AppendLine, RecordWritten, RecordFailed, RecordVerdict, RecordRow, MarkProcessed,
              EngineOnly
<1>2. CASE EngineFault \/ EngineDies
  BY <1>2 DEF EngineFault, EngineDies, EngineOnly
<1>3. CASE CollectorStep \/ CollectorDies
  BY <1>3 DEF CollectorStep, LoadCursor, Fetch, InsertEvent, SaveCursor, CollectorDies
<1>4. CASE OperatorStep \/ CommandFails
  BY <1>4 DEF OperatorStep, AuditRule, ApplyRule, RecordApplied, CommandFails, Others
<1>5. CASE \E d \in Domains : NewQuery(d) \/ Expire(d)
  BY <1>5 DEF NewQuery, Expire, EngineOnly
<1>6. CASE \E d \in Domains, rule \in Rule, apply \in BOOLEAN : ChangeRule(d, rule, apply)
  BY <1>6 DEF ChangeRule, Others
<1> QED
  BY <1>1, <1>2, <1>3, <1>4, <1>5, <1>6 DEF Next

\* What a step does to the events, their ids and the counts of the runs.
LEMMA CleanupKeeps ==
    ASSUME IInv, IdsInv, OneRunAtATime, CountInv, [Next]_vars
    PROVE  IdsInv' /\ CountInv'
<1>1. /\ TypeOK /\ IsFiniteSet(events) /\ Cardinality(events) \in Nat
      /\ cleaning \in [Cleaners -> Nat] /\ KeepLatest \in Nat
      /\ lastEvent \in Nat
  BY SettingsAssumption, FS_CardinalityType DEF IInv, TypeOK
<1>2. ASSUME UNCHANGED cleaning, Cardinality(events') \in Nat,
             Cardinality(events') >= Cardinality(events)
      PROVE  CountInv'
  BY <1>1, <1>2 DEF CountInv
<1>3. CASE InsertEvent
  BY <1>1, <1>2, <1>3, InsertAddsOne DEF InsertEvent
<1>4. CASE MarkProcessed
  BY <1>1, <1>2, <1>4, MarkingKeepsCount DEF MarkProcessed, EngineOnly
<1>5. CASE \E c \in Cleaners : DeleteEvents(c)
  <2>1. PICK c \in Cleaners : DeleteEvents(c)
    BY <1>5
  <2>2. IdsInv'
    BY <1>1, <2>1, DeletesTheOldest
  <2>3. \A e \in Cleaners : cleaning'[e] = 0
    BY <1>1, <2>1 DEF DeleteEvents, OneRunAtATime
  <2> QED
    BY <2>2, <2>3 DEF CountInv
<1>6. CASE \E c \in Cleaners : CountEvents(c)
  <2>1. PICK c \in Cleaners : CountEvents(c)
    BY <1>6
  <2>2. /\ Cardinality(events) > KeepLatest
        /\ cleaning' = [cleaning EXCEPT ![c] = Cardinality(events) - KeepLatest]
        /\ UNCHANGED <<events, lastEvent>>
    BY <2>1 DEF CountEvents, Overflow, tables
  <2>3. \A e \in Cleaners : e = c /\ cleaning'[e] = Cardinality(events) - KeepLatest
    BY <1>1, <2>2 DEF OneRunAtATime
  <2> QED
    BY <1>1, <2>2, <2>3 DEF CountInv, IdsInv
<1>7. CASE UNCHANGED <<events, cleaning>> /\ ~InsertEvent
  <2>1. lastEvent' = lastEvent
    <3>1. CASE EngineStep
      BY <3>1 DEF EngineStep, GetUnprocessedDomains, LookUp, SaveAnalysis, Learn, DecideStep,
                  AppendLine, RecordWritten, RecordFailed, RecordVerdict, RecordRow,
                  MarkProcessed, EngineOnly, tables
    <3>2. CASE EngineFault \/ EngineDies
      BY <3>2 DEF EngineFault, EngineDies, tables
    <3>3. CASE CollectorStep \/ CollectorDies
      BY <1>7, <3>3 DEF CollectorStep, LoadCursor, Fetch, SaveCursor, CollectorDies, tables
    <3>4. CASE OperatorStep \/ CommandFails
      BY <3>4 DEF OperatorStep, AuditRule, ApplyRule, RecordApplied, CommandFails, Others
    <3>5. CASE \E d \in Domains : NewQuery(d) \/ Expire(d)
      BY <3>5 DEF NewQuery, Expire, tables
    <3>6. CASE \E d \in Domains, rule \in Rule, apply \in BOOLEAN : ChangeRule(d, rule, apply)
      BY <3>6 DEF ChangeRule, Others
    <3>7. CASE \E c \in Cleaners : CountEvents(c) \/ DeleteEvents(c)
      BY <3>7 DEF CountEvents, DeleteEvents, tables
    <3>8. CASE UNCHANGED vars
      BY <3>8 DEF vars, tables
    <3> QED
      BY <3>1, <3>2, <3>3, <3>4, <3>5, <3>6, <3>7, <3>8 DEF Next
  <2> QED
    BY <1>7, <2>1 DEF CountInv, IdsInv
<1>8. CASE UNCHANGED vars
  BY <1>8 DEF vars, tables, CountInv, IdsInv
<1>9. CASE Next
  <2>1. CASE UNCHANGED events
    BY <1>3, <1>5, <1>6, <1>7, <1>9, <2>1, WhoTouchesCounts
  <2> QED
    BY <1>3, <1>4, <1>5, <1>9, <2>1, WhoTouchesEvents
<1> QED
  BY <1>8, <1>9

\* As long as one run cleans up at a time, a cleanup leaves the newest keep_latest events
\* and deletes no event before an older one, however many the collector inserts and the
\* engine marks between its count and its delete.
THEOREM CleanupIsSafe == OneRunAtATime => (Spec => CleanupKeepsNewest)
<1> SUFFICES ASSUME OneRunAtATime PROVE Spec => CleanupKeepsNewest
  OBVIOUS
<1>1. Init => IdsInv /\ CountInv
  BY DEF Init, IdsInv, CountInv
<1>2. IInv /\ IdsInv /\ CountInv /\ [Next]_vars => IdsInv' /\ CountInv'
  BY CleanupKeeps
<1>3. ASSUME IInv, IdsInv, CountInv, [Next]_vars,
             events' \subseteq events, Cardinality(events') < Cardinality(events)
      PROVE  /\ Cardinality(events') >= KeepLatest
             /\ \A e \in events \ events', f \in events' : e.id < f.id
  <2>1. /\ TypeOK /\ IsFiniteSet(events) /\ Cardinality(events) \in Nat
        /\ KeepLatest \in Nat
    BY <1>3, SettingsAssumption, FS_CardinalityType DEF IInv, TypeOK
  <2>2. ~InsertEvent /\ ~MarkProcessed /\ ~UNCHANGED events
    BY <1>3, <2>1, InsertAddsOne, MarkingKeepsCount
  <2>3. PICK c \in Cleaners : DeleteEvents(c)
    BY <1>3, <2>2, WhoTouchesEvents DEF vars, tables
  <2>4. /\ Cardinality(events') \in Nat
        /\ Cardinality(events') + cleaning[c] >= Cardinality(events)
        /\ \A e \in events \ events', f \in events' : e.id < f.id
    BY <1>3, <2>1, <2>3, DeletesTheOldest
  <2>5. cleaning[c] \in Nat /\ cleaning[c] + KeepLatest <= Cardinality(events)
    BY <1>3, <2>1, <2>3 DEF CountInv, DeleteEvents, TypeOK
  <2> QED
    BY <2>1, <2>4, <2>5
<1> QED
  BY <1>1, <1>2, <1>3, SpecKeepsIInv, PTL DEF Spec, CleanupKeepsNewest
===============================================================================
