--------------------------- MODULE IntelFeedProofs ---------------------------
(* Theorems about IntelFeed, for every value of its constants.               *)
EXTENDS IntelFeed, TLAPS

-----------------------------------------------------------------------------
(* Type correctness.  The run record carries values from step to step, so its *)
(* type depends on the step it is at.                                         *)

RunTyped ==
    /\ upd.pc \notin {"idle", "next"} => upd.src \in Sources /\ upd.url \in Urls
    /\ upd.pc = "resolve" => upd.http = "not modified"
    /\ upd.pc \in {"compare", "import"} => upd.http = "ok" /\ upd.content \in Contents
    /\ upd.pc \in {"mark", "reactivate"} =>
          /\ upd.http = "not modified" \/ upd.content \in Contents
          /\ upd.target \in GenIds
    /\ upd.ok => upd.pc = "audit" /\ upd.target \in GenIds

TypeInv == TypeOK /\ RunTyped

\* The audit query answers with a valid generation, or nothing.
LEMMA LatestRemoteValid ==
    ASSUME NEW s
    PROVE  LatestRemote(s) = None \/ IsValidRemote(s, LatestRemote(s))
<1> DEFINE newest(i) == /\ IsValidRemote(s, audit[s][i])
                        /\ \A j \in 1..Len(audit[s]) :
                               i < j => ~IsValidRemote(s, audit[s][j])
<1>1. CASE \E i \in 1..Len(audit[s]) : newest(i)
  <2> DEFINE k == CHOOSE i \in 1..Len(audit[s]) : newest(i)
  <2>1. newest(k)
    BY <1>1
  <2> QED
    BY <1>1, <2>1 DEF LatestRemote
<1>2. CASE ~\E i \in 1..Len(audit[s]) : newest(i)
  BY <1>2 DEF LatestRemote
<1> QED
  BY <1>1, <1>2

\* What the 304 branch resolves to is a generation id, or nothing.
LEMMA ResolveRemoteType ==
    ASSUME TypeOK, NEW s \in Sources, NEW seen \in StateRow
    PROVE  ResolveRemote(s, seen) \subseteq GenIds \cup {None}
<1>1. LatestRemote(s) \in GenIds \cup {None}
  BY LatestRemoteValid DEF IsValidRemote
<1>2. Reusable(s, seen.sha) \subseteq GenIds
  BY DEF Reusable
<1>3. \A g : IsValidRemote(s, g) => g \in GenIds
  BY DEF IsValidRemote
<1> QED
  BY <1>1, <1>2, <1>3 DEF ResolveRemote

\* A step that changes the run only.
LEMMA RunOnly ==
    ASSUME TypeOK, upd' \in UpdateRun,
           UNCHANGED <<source, state, gens, usedIds, audit, remote, offered, spent>>
    PROVE  TypeOK'
BY DEF TypeOK

\* One more command, publication, error or crash.
LEMMA CountersType ==
    ASSUME TypeOK
    PROVE  /\ \A op : Command(op) => spent' \in Counters
           /\ spent' = [spent EXCEPT !.publish = @ + 1] => spent' \in Counters
           /\ spent' = [spent EXCEPT !.error = @ + 1] => spent' \in Counters
           /\ spent' = [spent EXCEPT !.crash = @ + 1] => spent' \in Counters
<1>0. spent \in Counters
  BY DEF TypeOK
<1> USE <1>0 DEF Counters
<1>1. ASSUME NEW op, Command(op) PROVE spent' \in Counters
  BY <1>1 DEF Command
<1>2. spent' = [spent EXCEPT !.publish = @ + 1] => spent' \in Counters
  OBVIOUS
<1>3. spent' = [spent EXCEPT !.error = @ + 1] => spent' \in Counters
  OBVIOUS
<1>4. spent' = [spent EXCEPT !.crash = @ + 1] => spent' \in Counters
  OBVIOUS
<1> QED
  BY <1>1, <1>2, <1>3, <1>4

LEMMA EmptyRowsType ==
    EmptyState \in StateRow /\ NoGeneration \in GenRow /\ NoRun \in UpdateRun
BY DEF EmptyState, StateRow, NoGeneration, GenRow, GenStatus, NoRun, UpdateRun, Steps

\* The run of a process that holds no lock satisfies every condition on runs.
LEMMA NoRunTyped == upd' = NoRun => RunTyped'
<1>1. NoRun.pc = "idle" /\ NoRun.ok = FALSE
  BY DEF NoRun
<1> QED
  BY <1>1 DEF RunTyped

\* A run that moves on to another step with a generation in hand.
LEMMA StepType ==
    ASSUME upd \in UpdateRun, NEW step \in Steps, NEW g \in GenIds \cup {None},
           upd' = [upd EXCEPT !.pc = step, !.target = g]
    PROVE  /\ upd' \in UpdateRun
           /\ upd'.pc = step /\ upd'.target = g
           /\ upd'.src = upd.src /\ upd'.url = upd.url /\ upd'.http = upd.http
           /\ upd'.content = upd.content /\ upd'.ok = upd.ok
           /\ upd'.seen = upd.seen /\ upd'.todo = upd.todo
BY DEF UpdateRun

LEMMA GotoType ==
    ASSUME upd \in UpdateRun, NEW step \in Steps, Goto(step)
    PROVE  upd' = [upd EXCEPT !.pc = step, !.target = upd.target]
BY DEF UpdateRun, Goto

LEMMA InitType == Init => TypeInv
<1> SUFFICES ASSUME Init PROVE TypeInv
  OBVIOUS
<1>1. RunTyped
  BY DEF Init, RunTyped, NoRun
<1>2. source \in [Sources -> SourceRow]
  BY DEF Init, SourceRow
<1>3. audit \in [Sources -> Seq(GenIds)]
  BY DEF Init
<1>4. spent \in Counters
  BY DEF Init, Counters
<1> QED
  BY <1>1, <1>2, <1>3, <1>4, EmptyRowsType DEF Init, TypeInv, TypeOK

\* The steps of a run up to its first write.
LEMMA ReadingStepsType ==
    ASSUME TypeInv,
           \/ FinishUpdate \/ ReadState \/ FetchNotModified \/ FetchContent
           \/ \E s \in Sources : ReadSource(s)
           \/ Resolve \/ RejectContent \/ CompareContent
           \/ ImportRefused \/ ReactivateRefused
    PROVE  TypeInv'
<1> USE EmptyRowsType DEF TypeInv
<1>0. upd \in UpdateRun /\ RunTyped
  BY DEF TypeOK
<1>1. UNCHANGED <<source, state, gens, usedIds, audit, remote, offered, spent>>
  BY DEF FinishUpdate, ReadState, FetchNotModified, FetchContent, ReadSource,
         Resolve, RejectContent, CompareContent, ImportRefused, ReactivateRefused
<1>2. SUFFICES upd' \in UpdateRun /\ RunTyped'
  BY <1>1, RunOnly
<1>3. CASE FinishUpdate \/ ImportRefused
  BY <1>3, NoRunTyped DEF FinishUpdate, ImportRefused, Abandon
<1>4. ASSUME NEW s \in Sources, ReadSource(s) PROVE upd' \in UpdateRun /\ RunTyped'
  <2>1. source[s].url \in Urls
    BY DEF TypeOK, SourceRow
  <2> QED
    BY <1>0, <1>4, <2>1, ZenonT(60) DEF ReadSource, RunTyped, NoRun, UpdateRun, Steps
<1>5. CASE ReadState
  <2>1. upd.src \in Sources
    BY <1>0, <1>5 DEF ReadState, RunTyped
  <2>2. StateOf(upd.src) \in StateRow
    BY <2>1 DEF StateOf, TypeOK
  <2> QED
    BY <1>0, <1>5, <2>2 DEF ReadState, RunTyped, UpdateRun, Steps
<1>6. CASE FetchNotModified
  BY <1>0, <1>6 DEF FetchNotModified, RunTyped, UpdateRun, Steps
<1>7. CASE FetchContent
  <2>1. remote[upd.url] \in Contents
    BY <1>0, <1>7 DEF FetchContent, RunTyped, TypeOK
  <2> QED
    BY <1>0, <1>7, <2>1 DEF FetchContent, RunTyped, UpdateRun, Steps
<1>8. CASE Resolve
  <2>1. PICK g \in ResolveRemote(upd.src, upd.seen),
             step \in {"audit", "reactivate", "mark"} :
           /\ upd' = [upd EXCEPT !.target = g, !.pc = step]
           /\ g = None => step = "audit"
    BY <1>8 DEF Resolve
  <2>2. upd.src \in Sources /\ upd.seen \in StateRow
    BY <1>0, <1>8 DEF Resolve, RunTyped, UpdateRun
  <2>3. g \in GenIds \cup {None}
    BY <2>2, ResolveRemoteType
  <2>4. upd' = [upd EXCEPT !.pc = step, !.target = g] /\ step \in Steps
    BY <1>0, <2>1 DEF UpdateRun, Steps
  <2>5. RunTyped'
    <3>1. upd.pc = "resolve"
      BY <1>8 DEF Resolve
    <3> QED
      BY <1>0, <2>1, <2>3, <2>4, <3>1, StepType DEF RunTyped
  <2> QED
    BY <1>0, <2>3, <2>4, <2>5, StepType
<1>9. CASE RejectContent \/ ReactivateRefused
  <2>1. PICK step \in {"fail", "audit"} : Goto(step) \/ Abandon
    BY <1>9 DEF RejectContent, ReactivateRefused
  <2>2. CASE Abandon
    BY <2>2, NoRunTyped DEF Abandon
  <2>3. CASE Goto(step)
    <3>1. upd' = [upd EXCEPT !.pc = step, !.target = upd.target] /\ step \in Steps
      BY <1>0, <2>3, GotoType DEF Steps
    <3>2. upd.target \in GenIds \cup {None} /\ upd.pc \in {"compare", "reactivate"}
      BY <1>0, <1>9 DEF UpdateRun, RejectContent, ReactivateRefused
    <3>3. RunTyped'
      BY <1>0, <3>1, <3>2, StepType DEF RunTyped
    <3> QED
      BY <1>0, <3>1, <3>2, <3>3, StepType
  <2> QED
    BY <2>1, <2>2, <2>3
<1>10. CASE CompareContent
  <2>1. PICK g \in GenIds \cup {None}, step \in {"mark", "reactivate", "import"} :
           /\ upd' = [upd EXCEPT !.pc = step, !.target = g]
           /\ step # "import" => g \in GenIds
    <3>1. CASE ContentIsActive /\ upd' = [upd EXCEPT !.pc = "mark",
                                                    !.target = upd.seen.active]
      <4>1. upd.seen.active \in GenIds
        BY <1>0, <3>1 DEF ContentIsActive, UpdateRun, StateRow
      <4> QED
        BY <3>1, <4>1
    <3>2. ASSUME NEW g \in Reusable(upd.src, upd.content),
                 upd' = [upd EXCEPT !.pc = "reactivate", !.target = g]
          PROVE  \E h \in GenIds : upd' = [upd EXCEPT !.pc = "reactivate", !.target = h]
      BY <3>2 DEF Reusable
    <3>3. CASE Goto("import")
      <4>1. upd.target \in GenIds \cup {None} /\ "import" \in Steps
        BY <1>0 DEF UpdateRun, Steps
      <4> QED
        BY <1>0, <3>3, <4>1, GotoType
    <3> QED
      BY <1>10, <3>1, <3>2, <3>3 DEF CompareContent
  <2>2. step \in Steps
    BY DEF Steps
  <2>3. RunTyped'
    <3>1. upd.pc = "compare"
      BY <1>10 DEF CompareContent
    <3> QED
      BY <1>0, <2>1, <2>2, <3>1, StepType DEF RunTyped
  <2> QED
    BY <1>0, <2>1, <2>2, <2>3, StepType
<1> QED
  BY <1>3, <1>4, <1>5, <1>6, <1>7, <1>8, <1>9, <1>10

\* The steps of a run that write the store or the audit trail.
LEMMA WritingStepsType ==
    ASSUME TypeInv,
           \/ ImportGeneration \/ Reactivate \/ MarkNotModified \/ MarkFailed
           \/ RecordAudit
    PROVE  TypeInv'
<1> USE EmptyRowsType DEF TypeInv
<1>0. upd \in UpdateRun /\ RunTyped
  BY DEF TypeOK
<1>1. upd.src \in Sources
  BY <1>0 DEF RunTyped, ImportGeneration, Reactivate, MarkNotModified, MarkFailed,
              RecordAudit
<1>2. StateOf(upd.src) \in StateRow /\ CurrentActive(upd.src) \in GenIds \cup {None}
  BY <1>1 DEF StateOf, CurrentActive, TypeOK, StateRow
<1>3. upd.pc \in {"mark", "reactivate", "import"}
        => ResponseValidator \in Validators \cup {None}
  <2>1. upd.seen.etag \in Validators \cup {None}
    BY <1>0 DEF UpdateRun, StateRow
  <2> QED
    BY <1>0, <2>1, PayloadAssumption DEF ResponseValidator, RunTyped
<1>4. CASE ImportGeneration
  <2>1. PICK g \in GenIds \ usedIds :
          LET s        == upd.src
              previous == CurrentActive(s)
              n        == EntryCount[upd.content]
              row      == [status |-> "active", source |-> s, sha |-> upd.content,
                           count |-> n, stored |-> n, previous |-> previous]
          IN  /\ gens' = [h \in GenIds |->
                            IF h = g THEN row
                            ELSE IF h = previous
                            THEN [gens[h] EXCEPT !.status = "inactive"]
                            ELSE gens[h]]
              /\ state' = [state EXCEPT ![s] =
                            [status |-> "active", etag |-> ResponseValidator,
                             sha |-> upd.content, count |-> n,
                             active |-> g, remote |-> g]]
              /\ usedIds' = usedIds \cup {g}
              /\ upd' = [upd EXCEPT !.pc = "audit", !.target = g, !.ok = TRUE]
    BY <1>4 DEF ImportGeneration
  <2> DEFINE s == upd.src
             n == EntryCount[upd.content]
  <2>2. upd.pc = "import" /\ upd.content \in Contents /\ n \in Nat
    BY <1>0, <1>4, PayloadAssumption DEF ImportGeneration, RunTyped
  <2>3. gens' \in [GenIds -> GenRow]
    <3> SUFFICES ASSUME NEW h \in GenIds PROVE gens'[h] \in GenRow
      BY <2>1
    <3>1. CASE h = g
      BY <1>1, <1>2, <2>1, <2>2, <3>1 DEF GenRow, GenStatus
    <3>2. gens[h] \in GenRow
      BY DEF TypeOK
    <3>3. [gens[h] EXCEPT !.status = "inactive"] \in GenRow
      BY <3>2 DEF GenRow, GenStatus
    <3> QED
      BY <2>1, <3>1, <3>2, <3>3
  <2>4. state' \in [Sources -> StateRow]
    <3>1. [status |-> "active", etag |-> ResponseValidator, sha |-> upd.content,
           count |-> n, active |-> g, remote |-> g] \in StateRow
      BY <1>3, <2>2 DEF StateRow
    <3> QED
      BY <1>1, <2>1, <3>1 DEF TypeOK
  <2>5. upd' \in UpdateRun
    BY <1>0, <2>1 DEF UpdateRun, Steps
  <2>6. RunTyped'
    BY <1>0, <1>1, <2>1, <2>2 DEF RunTyped, UpdateRun
  <2> QED
    BY <1>4, <2>1, <2>3, <2>4, <2>5, <2>6 DEF ImportGeneration, TypeOK
<1>5. CASE Reactivate
  <2> DEFINE s == upd.src
             g == upd.target
  <2>1. upd.pc = "reactivate" /\ g \in GenIds
    BY <1>0, <1>5 DEF Reactivate, RunTyped
  <2>2. gens[g] \in GenRow
    BY <2>1 DEF TypeOK
  <2>3. gens' \in [GenIds -> GenRow]
    <3> SUFFICES ASSUME NEW h \in GenIds PROVE gens'[h] \in GenRow
      BY <1>5 DEF Reactivate
    <3>1. [gens[g] EXCEPT !.status = "active", !.previous = CurrentActive(s)] \in GenRow
      BY <1>2, <2>2 DEF GenRow, GenStatus
    <3>2. gens[h] \in GenRow
      BY DEF TypeOK
    <3>3. [gens[h] EXCEPT !.status = "inactive"] \in GenRow
      BY <3>2 DEF GenRow, GenStatus
    <3> QED
      BY <1>5, <3>1, <3>2, <3>3 DEF Reactivate
  <2>4. state' \in [Sources -> StateRow]
    <3>1. [status |-> "active", etag |-> ResponseValidator, sha |-> gens[g].sha,
           count |-> gens[g].count, active |-> g, remote |-> g] \in StateRow
      BY <1>3, <2>1, <2>2 DEF StateRow, GenRow
    <3> QED
      BY <1>1, <1>5, <3>1 DEF Reactivate, TypeOK
  <2>5. upd' = [upd EXCEPT !.pc = "audit", !.ok = TRUE]
    BY <1>5 DEF Reactivate
  <2>6. upd' \in UpdateRun
    BY <1>0, <2>5 DEF UpdateRun, Steps
  <2>7. RunTyped'
    BY <1>0, <2>1, <2>5 DEF RunTyped, UpdateRun
  <2> QED
    BY <1>5, <2>3, <2>4, <2>6, <2>7 DEF Reactivate, TypeOK
<1>6. CASE MarkNotModified
  <2> DEFINE s == upd.src
  <2>1. upd.pc = "mark" /\ upd.target \in GenIds
    BY <1>0, <1>6 DEF MarkNotModified, RunTyped
  <2>2. state[s] \in StateRow
    BY <1>1 DEF TypeOK
  <2>3. NotModifiedRow(state[s]) \in StateRow
    BY <1>3, <2>1, <2>2, ZenonT(60) DEF NotModifiedRow, StateRow
  <2>4. state' \in [Sources -> StateRow]
    BY <1>1, <1>6, <2>2, <2>3 DEF MarkNotModified, TypeOK
  <2>5. upd' = [upd EXCEPT !.pc = "audit", !.ok = TRUE]
    BY <1>6 DEF MarkNotModified
  <2>6. upd' \in UpdateRun
    BY <1>0, <2>5 DEF UpdateRun, Steps
  <2>7. RunTyped'
    BY <1>0, <2>1, <2>5 DEF RunTyped, UpdateRun
  <2> QED
    BY <1>6, <2>4, <2>6, <2>7 DEF MarkNotModified, TypeOK
<1>7. CASE MarkFailed
  <2>1. state' \in [Sources -> StateRow]
    <3>1. state[upd.src] \in StateRow
      BY <1>1 DEF TypeOK
    <3>2. FailedRow(state[upd.src]) \in StateRow
      BY <3>1 DEF FailedRow, StateRow
    <3> QED
      BY <1>1, <1>7, <3>2 DEF MarkFailed, TypeOK
  <2>2. CASE upd' = [upd EXCEPT !.pc = "audit", !.http = "none"]
    <3>1. upd' \in UpdateRun
      BY <1>0, <2>2 DEF UpdateRun, Steps
    <3>2. upd.pc = "fail"
      BY <1>7 DEF MarkFailed
    <3>3. RunTyped'
      BY <1>0, <2>2, <3>2 DEF RunTyped, UpdateRun
    <3> QED
      BY <1>7, <2>1, <3>1, <3>3 DEF MarkFailed, TypeOK
  <2>3. CASE Abandon
    BY <1>7, <2>1, <2>3, NoRunTyped DEF MarkFailed, Abandon, TypeOK
  <2> QED
    BY <1>7, <2>2, <2>3 DEF MarkFailed
<1>8. CASE RecordAudit
  <2>1. audit' \in [Sources -> Seq(GenIds)]
    <3>1. CASE upd.http = "ok" /\ upd.ok
      <4>1. upd.target \in GenIds
        BY <1>0, <3>1 DEF RunTyped
      <4>2. Append(audit[upd.src], upd.target) \in Seq(GenIds)
        BY <1>1, <4>1 DEF TypeOK
      <4> QED
        BY <1>1, <1>8, <3>1, <4>2 DEF RecordAudit, AuditOk, TypeOK
    <3>2. CASE ~(upd.http = "ok" /\ upd.ok)
      BY <1>8, <3>2 DEF RecordAudit, TypeOK
    <3> QED
      BY <3>1, <3>2
  <2>2. upd' = [NoRun EXCEPT !.pc = "next", !.todo = upd.todo]
    BY <1>8 DEF RecordAudit, NextInLoop
  <2>3. upd' \in UpdateRun
    BY <1>0, <2>2 DEF UpdateRun, Steps
  <2>4. RunTyped'
    BY <2>2 DEF RunTyped, NoRun
  <2> QED
    BY <1>8, <2>1, <2>3, <2>4 DEF RecordAudit, TypeOK
<1> QED
  BY <1>4, <1>5, <1>6, <1>7, <1>8

\* The operator commands, the feed server, the start and the crash of a run.
LEMMA OtherStepsType ==
    ASSUME TypeInv,
           \/ TimerUpdate \/ FetchError \/ Crash \/ OperatorStep
           \/ \E u \in Urls, c \in Contents : Publish(u, c)
    PROVE  TypeInv'
<1> USE EmptyRowsType DEF TypeInv
<1>0. upd \in UpdateRun /\ RunTyped
  BY DEF TypeOK
<1>1. ASSUME NEW todo \in SUBSET Sources, StartRun(todo), spent' \in Counters
      PROVE  TypeInv'
  <2>1. upd' = [NoRun EXCEPT !.pc = "next", !.todo = todo]
    BY <1>1 DEF StartRun
  <2>2. upd' \in UpdateRun
    BY <2>1 DEF UpdateRun, Steps
  <2>3. RunTyped'
    BY <2>1 DEF RunTyped, NoRun
  <2> QED
    BY <1>1, <2>2, <2>3 DEF StartRun, TypeOK
<1>2. CASE TimerUpdate
  <2>1. EnabledSources \in SUBSET Sources
    BY DEF EnabledSources
  <2>2. spent' \in Counters
    BY <1>2 DEF TimerUpdate, TypeOK
  <2> QED
    BY <1>1, <1>2, <2>1, <2>2 DEF TimerUpdate
<1>3. CASE FetchError
  <2>1. Goto("fail") /\ upd.pc = "fetch" /\ "fail" \in Steps
    BY <1>3 DEF FetchError, Steps
  <2>2. upd.target \in GenIds \cup {None}
    BY <1>0 DEF UpdateRun
  <2>3. upd' \in UpdateRun
    BY <1>0, <2>1, <2>2, GotoType, StepType
  <2>4. RunTyped'
    BY <1>0, <2>1, <2>2, GotoType, StepType DEF RunTyped
  <2> QED
    BY <1>3, <2>3, <2>4, CountersType DEF FetchError, TypeOK
<1>4. CASE Crash
  BY <1>4, NoRunTyped, CountersType DEF Crash, Abandon, TypeOK
<1>5. CASE \E u \in Urls, c \in Contents : Publish(u, c)
  <2>1. RunTyped'
    BY <1>0, <1>5 DEF Publish, RunTyped
  <2> QED
    BY <1>5, <2>1, CountersType DEF Publish, TypeOK
<1>6. ASSUME NEW todo \in SUBSET Sources, CommandUpdate(todo) PROVE TypeInv'
  BY <1>1, <1>6, CountersType DEF CommandUpdate
<1>7. ASSUME UNCHANGED upd PROVE RunTyped'
  BY <1>0, <1>7 DEF RunTyped
<1>8. ASSUME NEW s \in Sources, NEW u \in Urls, NEW on \in BOOLEAN, AddSource(s, u, on)
      PROVE  TypeInv'
  <2>1. source' \in [Sources -> SourceRow]
    BY <1>8 DEF AddSource, TypeOK, SourceRow
  <2>2. state' \in [Sources -> StateRow]
    BY <1>8 DEF AddSource, StateOf, TypeOK
  <2> QED
    BY <1>7, <1>8, <2>1, <2>2, CountersType DEF AddSource, TypeOK
<1>9. ASSUME NEW s \in Sources, NEW u \in Urls, UpdateFetchSettings(s, u)
      PROVE  TypeInv'
  <2>1. source' \in [Sources -> SourceRow]
    BY <1>9 DEF UpdateFetchSettings, TypeOK, SourceRow
  <2>2. state' \in [Sources -> StateRow]
    BY <1>9, ZenonT(60) DEF UpdateFetchSettings, TypeOK, StateRow
  <2> QED
    BY <1>7, <1>9, <2>1, <2>2, CountersType DEF UpdateFetchSettings, TypeOK
<1>10. ASSUME NEW s \in Sources, NEW on \in BOOLEAN, SetEnabled(s, on) PROVE TypeInv'
  <2>1. source' \in [Sources -> SourceRow]
    BY <1>10 DEF SetEnabled, TypeOK, SourceRow
  <2> QED
    BY <1>7, <1>10, <2>1, CountersType DEF SetEnabled, TypeOK
<1>11. ASSUME NEW s \in Sources, RemoveSource(s) PROVE TypeInv'
  <2>1. source' \in [Sources -> SourceRow]
    BY <1>11 DEF RemoveSource, TypeOK, SourceRow
  <2>2. state' \in [Sources -> StateRow]
    BY <1>11 DEF RemoveSource, TypeOK
  <2>3. gens' \in [GenIds -> GenRow]
    BY <1>11 DEF RemoveSource, TypeOK
  <2> QED
    BY <1>7, <1>11, <2>1, <2>2, <2>3, CountersType DEF RemoveSource, TypeOK
<1>12. ASSUME NEW s \in Sources, Rollback(s) PROVE TypeInv'
  <2> DEFINE current  == state[s].active
             previous == gens[current].previous
  <2>1. state[s] \in StateRow /\ current \in GenIds
    BY <1>12 DEF Rollback, TypeOK, StateRow
  <2>2. previous \in GenIds
    BY <1>12, <2>1 DEF Rollback, TypeOK, GenRow
  <2>3. gens' \in [GenIds -> GenRow]
    <3> SUFFICES ASSUME NEW h \in GenIds PROVE gens'[h] \in GenRow
      BY <1>12 DEF Rollback
    <3>1. gens[h] \in GenRow
      BY DEF TypeOK
    <3>2. [gens[h] EXCEPT !.status = "active"] \in GenRow
      BY <3>1 DEF GenRow, GenStatus
    <3>3. [gens[h] EXCEPT !.status = "inactive"] \in GenRow
      BY <3>1 DEF GenRow, GenStatus
    <3> QED
      BY <1>12, <3>1, <3>2, <3>3 DEF Rollback
  <2>4. gens[previous].count \in Nat
    BY <2>2 DEF TypeOK, GenRow
  <2>5. RolledBackRow(state[s], previous) \in StateRow
    BY <2>1, <2>2, <2>4 DEF RolledBackRow, StateRow
  <2>6. state' \in [Sources -> StateRow]
    BY <1>12, <2>5 DEF Rollback, TypeOK
  <2> QED
    BY <1>7, <1>12, <2>3, <2>6, CountersType DEF Rollback, TypeOK
<1> QED
  BY <1>2, <1>3, <1>4, <1>5, <1>6, <1>8, <1>9, <1>10, <1>11, <1>12 DEF OperatorStep

LEMMA TypeInductive == TypeInv /\ [Next]_vars => TypeInv'
<1>1. ASSUME TypeInv, UNCHANGED vars PROVE TypeInv'
  BY <1>1 DEF TypeInv, TypeOK, RunTyped, vars
<1> QED
  BY <1>1, ReadingStepsType, WritingStepsType, OtherStepsType DEF Next, RunStep

\* The rows of the store, the audit trail and the run keep their types under
\* every step of the code, the feed servers and the operators.
THEOREM TypeCorrect == Spec => []TypeOK
<1>1. TypeInv => TypeOK
  BY DEF TypeInv
<1> QED
  BY <1>1, InitType, TypeInductive, PTL DEF Spec

-----------------------------------------------------------------------------
(* The inductive invariant.  The three properties are not inductive alone:   *)
(* a store write relies on what an earlier step of the run saw, and on every *)
(* stored row being a whole generation of a configured source.               *)

StoredRowsAreWhole ==
    \A g \in GenIds : gens[g].status # "absent" =>
        /\ g \in usedIds
        /\ gens[g].source \in Sources
        /\ source[gens[g].source].present
        /\ gens[g].stored = gens[g].count
        /\ gens[g].stored # 0
        /\ gens[g].sha # None

RemovedSourcesAreEmpty ==
    \A s \in Sources : ~source[s].present => state[s] = EmptyState

\* What the handler established before the write it is about to make.
RunPrepared ==
    /\ upd.pc = "import" => EntryCount[upd.content] # 0
    /\ upd.pc = "mark" /\ state[upd.src].active # None
          => IsValidRemote(upd.src, upd.target)

StoreInv ==
    /\ StoredRowsAreWhole
    /\ RemovedSourcesAreEmpty
    /\ PointerNamesTheActiveGeneration
    /\ RollbackPointersResolve
    /\ StateRowDescribesGenerations

IntegrityInv == TypeInv /\ StoreInv /\ RunPrepared

-----------------------------------------------------------------------------
(* The write actions, one lemma each.                                        *)

LEMMA InitStore == Init => StoreInv /\ RunPrepared
<1> SUFFICES ASSUME Init PROVE StoreInv /\ RunPrepared
  OBVIOUS
<1>1. \A g \in GenIds : gens[g].status = "absent"
  BY DEF Init, NoGeneration
<1>2. \A s \in Sources : state[s] = EmptyState /\ state[s].active = None
  BY DEF Init, EmptyState
<1>3. upd.pc = "idle"
  BY DEF Init, NoRun
<1> QED
  BY <1>1, <1>2, <1>3
  DEF StoreInv, StoredRowsAreWhole, RemovedSourcesAreEmpty,
      PointerNamesTheActiveGeneration, RollbackPointersResolve,
      StateRowDescribesGenerations, ActiveOf, Stored, RunPrepared

\* A source with an active generation: what the invariant says of it.
LEMMA ActiveFacts ==
    ASSUME TypeOK, StoreInv, NEW s \in Sources, state[s].active # None
    PROVE  /\ source[s].present
           /\ state[s].active \in GenIds
           /\ gens[state[s].active].status = "active"
           /\ gens[state[s].active].source = s
           /\ StateOf(s) = state[s]
<1>1. state[s].active \in ActiveOf(s)
  BY DEF StoreInv, PointerNamesTheActiveGeneration
<1>2. state[s].active \in GenIds /\ gens[state[s].active].status = "active"
      /\ gens[state[s].active].source = s
  BY <1>1 DEF ActiveOf
<1>3. source[s].present
  BY <1>2 DEF StoreInv, StoredRowsAreWhole
<1> QED
  BY <1>2, <1>3 DEF StateOf

-----------------------------------------------------------------------------
(* Import, reactivation and rollback switch a source to a generation.        *)

\* A stored generation of s that was imported whole.
Whole(s, g) ==
    /\ Stored(s, g)
    /\ gens[g].stored = gens[g].count
    /\ gens[g].stored # 0
    /\ gens[g].sha # None

\* What such a step does, in terms every one of the three satisfies.
SwitchRows(s, g) ==
    /\ \A t \in Sources \ {s} : state'[t] = state[t]
    /\ state'[s].active = g
    /\ state'[s].count = gens[g].count'
    /\ state'[s].sha # None
    /\ state'[s].remote \in GenIds
    /\ Stored(s, state'[s].remote) \/ state'[s].remote = g

SwitchGens(s, g) ==
    /\ gens[g].status # "absent" => gens[g].source = s
    /\ gens[g].status' = "active"
    /\ Whole(s, g)'
    /\ gens[g].previous' # None =>
          gens[g].previous' \in GenIds \ {g} /\ Stored(s, gens[g].previous')
    /\ \A h \in GenIds \ {g} :
          /\ gens[h].source' = gens[h].source
          /\ gens[h].sha' = gens[h].sha
          /\ gens[h].count' = gens[h].count
          /\ gens[h].stored' = gens[h].stored
          /\ gens[h].previous' = gens[h].previous
          /\ gens[h].status' = IF h \in ActiveOf(s) THEN "inactive" ELSE gens[h].status

\* The source is switched to a generation that holds c.
Switched(s, c) ==
    \E g \in GenIds : /\ SwitchGens(s, g)
                      /\ gens'[g].sha = c
                      /\ Stored(s, g) => gens[g].sha = c

LEMMA SwitchKeeps ==
    ASSUME gens \in [GenIds -> GenRow], StoreInv,
           NEW s \in Sources, NEW g \in GenIds, None \notin GenIds,
           source[s].present, source' = source, usedIds \cup {g} \subseteq usedIds',
           SwitchRows(s, g), SwitchGens(s, g)
    PROVE  /\ StoreInv'
           /\ \A t \in Sources, h \in GenIds : IsValidRemote(t, h) => IsValidRemote(t, h)'
<1>1. ASSUME NEW t \in Sources, NEW h \in GenIds, Stored(t, h)
      PROVE  Stored(t, h)'
  <2>1. CASE h = g
    BY <1>1, <2>1 DEF SwitchGens, Whole, Stored
  <2>2. CASE h # g
    BY <1>1, <2>2 DEF SwitchGens, ActiveOf, Stored
  <2> QED
    BY <2>1, <2>2
<1>2. ASSUME NEW t \in Sources, NEW h \in GenIds, Stored(t, h)', h # g
      PROVE  Stored(t, h)
  BY <1>2 DEF SwitchGens, ActiveOf, Stored
<1>3. StoredRowsAreWhole'
  <2> SUFFICES ASSUME NEW h \in GenIds, gens[h].status' # "absent"
               PROVE  /\ h \in usedIds'
                      /\ gens[h].source' \in Sources
                      /\ source[gens[h].source].present'
                      /\ gens[h].stored' = gens[h].count'
                      /\ gens[h].stored' # 0
                      /\ gens[h].sha' # None
    BY DEF StoredRowsAreWhole
  <2>1. CASE h = g
    BY <2>1 DEF SwitchGens, Whole, Stored
  <2>2. CASE h # g
    <3>1. gens[h].status # "absent"
      BY <2>2 DEF SwitchGens, ActiveOf
    <3> QED
      BY <2>2, <3>1 DEF StoreInv, StoredRowsAreWhole, SwitchGens
  <2> QED
    BY <2>1, <2>2
<1>4. RemovedSourcesAreEmpty'
  BY DEF StoreInv, RemovedSourcesAreEmpty, SwitchRows
<1>5. PointerNamesTheActiveGeneration'
  <2> SUFFICES ASSUME NEW t \in Sources
               PROVE  ActiveOf(t)' = IF state'[t].active = None THEN {}
                                     ELSE {state'[t].active}
    BY DEF PointerNamesTheActiveGeneration
  <2>1. CASE t = s
    <3>1. \A h \in GenIds : gens[h].status' = "active" /\ gens[h].source' = s <=> h = g
      BY DEF SwitchGens, Whole, Stored, ActiveOf
    <3> QED
      BY <2>1, <3>1 DEF ActiveOf, SwitchRows
  <2>2. CASE t # s
    <3>1. \A h \in GenIds : gens[h].status' = "active" /\ gens[h].source' = t
                                <=> gens[h].status = "active" /\ gens[h].source = t
      BY <2>2 DEF SwitchGens, Whole, Stored, ActiveOf
    <3>2. ActiveOf(t)' = ActiveOf(t)
      BY <3>1 DEF ActiveOf
    <3> QED
      BY <2>2, <3>2 DEF StoreInv, PointerNamesTheActiveGeneration, SwitchRows
  <2> QED
    BY <2>1, <2>2
<1>6. RollbackPointersResolve'
  <2> SUFFICES ASSUME NEW t \in Sources, NEW h \in GenIds, Stored(t, h)',
                      gens[h].previous' # None
               PROVE  gens[h].previous' # h /\ Stored(t, gens[h].previous)'
    BY DEF RollbackPointersResolve
  <2>1. CASE h = g
    <3>1. t = s
      BY <2>1 DEF SwitchGens, Whole, Stored
    <3>2. gens[h].previous' \in GenIds \ {g} /\ Stored(s, gens[h].previous')
      BY <2>1 DEF SwitchGens
    <3>3. Stored(s, gens[h].previous)'
      BY <1>1, <3>2
    <3> QED
      BY <2>1, <3>1, <3>2, <3>3
  <2>2. CASE h # g
    <3>1. Stored(t, h) /\ gens[h].previous' = gens[h].previous
      BY <1>2, <2>2 DEF SwitchGens
    <3>2. gens[h].previous # h /\ Stored(t, gens[h].previous)
      BY <3>1 DEF StoreInv, RollbackPointersResolve
    <3>3. gens[h].previous \in GenIds
      BY <3>1 DEF GenRow
    <3> QED
      BY <1>1, <3>1, <3>2, <3>3
  <2> QED
    BY <2>1, <2>2
<1>7. ASSUME NEW t \in Sources, NEW h \in GenIds, IsValidRemote(t, h)
      PROVE  IsValidRemote(t, h)' /\ (h # g => gens[h].count' = gens[h].count)
  <2>1. CASE h = g
    BY <1>7, <1>1, <2>1 DEF SwitchGens, Whole, IsValidRemote
  <2>2. CASE h # g
    BY <1>7, <1>1, <2>2 DEF SwitchGens, IsValidRemote
  <2> QED
    BY <2>1, <2>2
<1>8. StateRowDescribesGenerations'
  <2>2. IsValidRemote(s, g)'
    BY DEF SwitchGens, Whole, IsValidRemote
  <2> SUFFICES ASSUME NEW t \in Sources, state'[t].active # None
               PROVE  /\ state'[t].count = gens[state[t].active].count'
                      /\ IsValidRemote(t, state[t].active)'
                      /\ IsValidRemote(t, state[t].remote)'
                      /\ state'[t].sha # None
    BY DEF StateRowDescribesGenerations
  <2>3. CASE t = s
    <3>1. state'[s].remote \in GenIds
          /\ (Stored(s, state'[s].remote) => IsValidRemote(s, state'[s].remote))
      BY DEF SwitchRows, StoreInv, StoredRowsAreWhole, IsValidRemote, Stored
    <3> QED
      BY <1>7, <2>2, <2>3, <3>1 DEF SwitchRows
  <2>4. CASE t # s
    <3>1. /\ state[t].count = gens[state[t].active].count
          /\ IsValidRemote(t, state[t].active)
          /\ IsValidRemote(t, state[t].remote)
          /\ state[t].sha # None
          /\ state'[t] = state[t]
      BY <2>4 DEF StoreInv, StateRowDescribesGenerations, SwitchRows
    <3>2. state[t].active # g /\ state[t].active \in GenIds /\ state[t].remote \in GenIds
      BY <2>4, <3>1 DEF IsValidRemote, Stored, SwitchGens
    <3> QED
      BY <1>7, <3>1, <3>2
  <2> QED
    BY <2>3, <2>4
<1> QED
  BY <1>3, <1>4, <1>5, <1>6, <1>7, <1>8 DEF StoreInv

\* A stored generation of an identifier drawn before is whole.
LEMMA StoredIsWhole ==
    ASSUME StoreInv, NEW s, NEW g \in GenIds, Stored(s, g)
    PROVE  Whole(s, g) /\ g \in usedIds /\ s \in Sources /\ source[s].present
BY DEF StoreInv, StoredRowsAreWhole, Whole, Stored

LEMMA ImportKeeps ==
    ASSUME IntegrityInv, ImportGeneration
    PROVE  StoreInv' /\ RunPrepared' /\ Switched(upd.src, upd.content)
<1> USE DEF IntegrityInv, TypeInv
<1> SUFFICES ASSUME NEW s, s = upd.src
             PROVE  StoreInv' /\ RunPrepared' /\ Switched(s, upd.content)
  OBVIOUS
<1> DEFINE n == EntryCount[upd.content]
           previous == CurrentActive(s)
           row == [status |-> "active", source |-> s, sha |-> upd.content,
                   count |-> n, stored |-> n, previous |-> previous]
           srow(g) == [status |-> "active", etag |-> ResponseValidator,
                       sha |-> upd.content, count |-> n, active |-> g, remote |-> g]
<1>1. PICK g \in GenIds \ usedIds :
        /\ gens' = [h \in GenIds |-> IF h = g THEN row
                                     ELSE IF h = previous
                                     THEN [gens[h] EXCEPT !.status = "inactive"]
                                     ELSE gens[h]]
        /\ state' = [state EXCEPT ![s] = srow(g)]
        /\ usedIds' = usedIds \cup {g}
        /\ upd' = [upd EXCEPT !.pc = "audit", !.target = g, !.ok = TRUE]
  BY ZenonT(60) DEF ImportGeneration
<1>2. s \in Sources /\ source[s].present /\ upd.content \in Contents /\ n # 0
  BY DEF ImportGeneration, RunTyped, RunPrepared
<1>3. previous = state[s].active /\ previous \in GenIds \cup {None}
  BY <1>2 DEF CurrentActive, StateOf, TypeOK, StateRow
<1>4. None \notin GenIds /\ upd.content # None
  BY <1>2, NoneAssumption
<1>5. gens[g].status = "absent"
  BY DEF StoreInv, StoredRowsAreWhole
<1>6. \A h \in GenIds : h \in ActiveOf(s) <=> h = previous
  BY <1>2, <1>3, <1>4 DEF StoreInv, PointerNamesTheActiveGeneration
<1>7. SwitchGens(s, g)
  <2>1. gens'[g] = row
    BY <1>1
  <2>2. Whole(s, g)'
    BY <1>2, <1>4, <2>1 DEF Whole, Stored
  <2>3. previous # None => previous \in GenIds \ {g} /\ Stored(s, previous)
    BY <1>3, <1>5, <1>6 DEF ActiveOf, Stored
  <2>4. ASSUME NEW h \in GenIds, h # g
        PROVE  /\ gens[h].source' = gens[h].source
               /\ gens[h].sha' = gens[h].sha
               /\ gens[h].count' = gens[h].count
               /\ gens[h].stored' = gens[h].stored
               /\ gens[h].previous' = gens[h].previous
               /\ gens[h].status' = IF h = previous THEN "inactive" ELSE gens[h].status
    <3>1. gens[h] \in GenRow
      BY DEF TypeOK
    <3> QED
      BY <1>1, <2>4, <3>1 DEF GenRow
  <2>5. gens[g].status' = "active" /\ gens[g].previous' = previous
    BY <2>1
  <2> HIDE DEF n, previous, row, srow
  <2> QED
    BY <1>5, <1>6, <2>2, <2>3, <2>4, <2>5 DEF SwitchGens
<1>8. SwitchRows(s, g)
  <2>1. state'[s] = srow(g) /\ \A t \in Sources \ {s} : state'[t] = state[t]
    BY <1>1, <1>2 DEF TypeOK
  <2>2. gens'[g] = row
    BY <1>1
  <2> QED
    BY <1>4, <2>1, <2>2 DEF SwitchRows
<1>9. StoreInv'
  <2>1. source' = source
    BY DEF ImportGeneration
  <2> QED
    BY <1>1, <1>2, <1>4, <1>7, <1>8, <2>1, SwitchKeeps DEF TypeOK
<1>10. RunPrepared'
  BY <1>1 DEF RunPrepared, TypeOK, UpdateRun
<1>11. Switched(s, upd.content)
  <2>1. gens'[g].sha = upd.content /\ ~Stored(s, g)
    BY <1>1, <1>5 DEF Stored
  <2> QED
    BY <1>7, <2>1 DEF Switched
<1> QED
  BY <1>9, <1>10, <1>11

LEMMA ReactivateKeeps ==
    ASSUME IntegrityInv, Reactivate
    PROVE  /\ StoreInv' /\ RunPrepared' /\ Stored(upd.src, upd.target)
           /\ Switched(upd.src, gens[upd.target].sha)
<1> USE DEF IntegrityInv, TypeInv
<1> SUFFICES ASSUME NEW s, NEW g, s = upd.src, g = upd.target
             PROVE  StoreInv' /\ RunPrepared' /\ Stored(s, g) /\ Switched(s, gens[g].sha)
  OBVIOUS
<1>1. s \in Sources /\ g \in GenIds
  BY DEF Reactivate, RunTyped
<1>2. g \in Reusable(s, gens[g].sha)
  BY DEF Reactivate, MayReactivate
<1>3. Whole(s, g) /\ g \in usedIds /\ source[s].present /\ gens[g].status = "inactive"
  BY <1>1, <1>2, StoredIsWhole DEF Reusable
<1>4. None \notin GenIds
  BY NoneAssumption
<1>5. CurrentActive(s) = state[s].active
  BY <1>3 DEF CurrentActive, StateOf
<1>6. gens[g] \in GenRow
  BY <1>1 DEF TypeOK
<1>7. gens' = [h \in GenIds |->
                 IF h = g THEN [gens[g] EXCEPT !.status = "active",
                                               !.previous = CurrentActive(s)]
                 ELSE IF h \in ActiveOf(s) THEN [gens[h] EXCEPT !.status = "inactive"]
                 ELSE gens[h]]
  BY DEF Reactivate
<1>8. SwitchGens(s, g)
  <2>1. /\ gens'[g].status = "active"
        /\ gens'[g].source = gens[g].source
        /\ gens'[g].sha = gens[g].sha
        /\ gens'[g].count = gens[g].count
        /\ gens'[g].stored = gens[g].stored
        /\ gens'[g].previous = CurrentActive(s)
    BY <1>1, <1>6, <1>7 DEF GenRow
  <2>2. Whole(s, g)'
    BY <1>3, <2>1 DEF Whole, Stored
  <2>3. state[s].active # None => /\ state[s].active \in GenIds \ {g}
                                  /\ Stored(s, state[s].active)
    BY <1>1, <1>3, ActiveFacts DEF Stored
  <2>4. ASSUME NEW h \in GenIds, h # g
        PROVE  /\ gens[h].source' = gens[h].source
               /\ gens[h].sha' = gens[h].sha
               /\ gens[h].count' = gens[h].count
               /\ gens[h].stored' = gens[h].stored
               /\ gens[h].previous' = gens[h].previous
               /\ gens[h].status' = IF h \in ActiveOf(s) THEN "inactive" ELSE gens[h].status
    <3>1. gens[h] \in GenRow
      BY DEF TypeOK
    <3> QED
      BY <1>7, <2>4, <3>1 DEF GenRow
  <2> QED
    BY <1>3, <1>5, <2>1, <2>2, <2>3, <2>4 DEF SwitchGens, Whole, Stored
<1>9. SwitchRows(s, g)
  <2>1. state' = [state EXCEPT ![s] =
                   [status |-> "active", etag |-> ResponseValidator,
                    sha |-> gens[g].sha, count |-> gens[g].count,
                    active |-> g, remote |-> g]]
    BY DEF Reactivate
  <2>2. gens'[g].count = gens[g].count
    BY <1>1, <1>6, <1>7 DEF GenRow
  <2>3. gens[g].sha # None
    BY <1>3 DEF Whole
  <2> QED
    BY <1>1, <2>1, <2>2, <2>3 DEF SwitchRows, TypeOK
<1>10. source' = source /\ usedIds' = usedIds
       /\ upd' = [upd EXCEPT !.pc = "audit", !.ok = TRUE]
  BY DEF Reactivate
<1>11. StoreInv'
  BY <1>1, <1>3, <1>4, <1>8, <1>9, <1>10, SwitchKeeps DEF TypeOK
<1>12. RunPrepared'
  BY <1>10 DEF RunPrepared, TypeOK, UpdateRun
<1>13. Stored(s, g) /\ Switched(s, gens[g].sha)
  <2>1. gens'[g].sha = gens[g].sha
    BY <1>1, <1>6, <1>7 DEF GenRow
  <2> QED
    BY <1>1, <1>3, <1>8, <2>1 DEF Switched, Whole
<1> QED
  BY <1>11, <1>12, <1>13

LEMMA RollbackKeeps ==
    ASSUME IntegrityInv, NEW s \in Sources, Rollback(s)
    PROVE  /\ StoreInv' /\ RunPrepared' /\ state[s].active # None
           /\ \E g \in GenIds : Stored(s, g) /\ Switched(s, gens[g].sha)
<1> USE DEF IntegrityInv, TypeInv
<1> SUFFICES ASSUME NEW current, NEW g, current = state[s].active,
                    g = gens[current].previous
             PROVE  /\ StoreInv' /\ RunPrepared' /\ state[s].active # None
                    /\ \E h \in GenIds : Stored(s, h) /\ Switched(s, gens[h].sha)
  OBVIOUS
<1>1. current # None /\ g # None /\ gens[g].status # "absent"
  BY DEF Rollback
<1>2. /\ current \in GenIds
      /\ gens[current].status = "active"
      /\ gens[current].source = s
  BY <1>1, ActiveFacts
<1>3. gens[current] \in GenRow
  BY <1>2 DEF TypeOK
<1>4. g \in GenIds /\ g # current /\ Stored(s, g)
  <2>1. g \in GenIds
    BY <1>1, <1>3 DEF GenRow
  <2>2. Stored(s, current)
    BY <1>2 DEF Stored
  <2> QED
    BY <1>1, <1>2, <2>1, <2>2 DEF StoreInv, RollbackPointersResolve
<1>5. Whole(s, g) /\ g \in usedIds /\ source[s].present
  BY <1>4, StoredIsWhole
<1>6. gens[g] \in GenRow /\ state[s] \in StateRow
  BY <1>4 DEF TypeOK
<1>7. gens' = [h \in GenIds |->
                 IF h = g THEN [gens[h] EXCEPT !.status = "active"]
                 ELSE IF h = current THEN [gens[h] EXCEPT !.status = "inactive"]
                 ELSE gens[h]]
  BY DEF Rollback
<1>8. state' = [state EXCEPT ![s] = RolledBackRow(state[s], g)]
  BY DEF Rollback
<1>9. \A h \in GenIds : h \in ActiveOf(s) <=> h = current
  BY <1>1, <1>2 DEF StoreInv, PointerNamesTheActiveGeneration
<1>10. gens' \in [GenIds -> GenRow] /\ gens'[g] = [gens[g] EXCEPT !.status = "active"]
  <2>1. gens' \in [GenIds -> GenRow]
    BY OtherStepsType DEF OperatorStep, TypeOK
  <2> QED
    BY <1>4, <1>7, <2>1
<1>11. /\ gens'[g].status = "active"
       /\ gens'[g].source = gens[g].source
       /\ gens'[g].sha = gens[g].sha
       /\ gens'[g].count = gens[g].count
       /\ gens'[g].stored = gens[g].stored
       /\ gens'[g].previous = gens[g].previous
  BY <1>6, <1>10 DEF GenRow
<1>12. SwitchGens(s, g)
  <2>1. Whole(s, g)'
    BY <1>5, <1>11 DEF Whole, Stored
  <2>2. gens[g].previous # None =>
           gens[g].previous \in GenIds \ {g} /\ Stored(s, gens[g].previous)
    BY <1>4, <1>6 DEF StoreInv, RollbackPointersResolve, GenRow
  <2>3. ASSUME NEW h \in GenIds, h # g
        PROVE  /\ gens[h].source' = gens[h].source
               /\ gens[h].sha' = gens[h].sha
               /\ gens[h].count' = gens[h].count
               /\ gens[h].stored' = gens[h].stored
               /\ gens[h].previous' = gens[h].previous
               /\ gens[h].status' = IF h \in ActiveOf(s) THEN "inactive" ELSE gens[h].status
    <3>1. gens[h] \in GenRow
      BY DEF TypeOK
    <3> QED
      BY <1>7, <1>9, <2>3, <3>1 DEF GenRow
  <2> QED
    BY <1>4, <1>11, <2>1, <2>2, <2>3 DEF SwitchGens, Stored
<1>13. SwitchRows(s, g)
  <2>1. /\ state'[s].active = g
        /\ state'[s].count = gens[g].count
        /\ state'[s].sha = state[s].sha
        /\ state'[s].remote = state[s].remote
        /\ \A t \in Sources \ {s} : state'[t] = state[t]
    BY <1>6, <1>8 DEF RolledBackRow, StateRow, TypeOK
  <2>2. state[s].sha # None /\ state[s].remote \in GenIds /\ Stored(s, state[s].remote)
    BY <1>1 DEF StoreInv, StateRowDescribesGenerations, IsValidRemote
  <2> QED
    BY <1>11, <2>1, <2>2 DEF SwitchRows
<1>14. source' = source /\ usedIds' = usedIds /\ upd' = upd
  BY DEF Rollback
<1>15. /\ StoreInv'
       /\ \A t \in Sources, h \in GenIds : IsValidRemote(t, h) => IsValidRemote(t, h)'
  BY <1>4, <1>5, <1>12, <1>13, <1>14, NoneAssumption, SwitchKeeps DEF TypeOK
<1>16. RunPrepared'
  <2>1. ASSUME upd.pc = "mark", state'[upd.src].active # None
        PROVE  IsValidRemote(upd.src, upd.target)'
    <3>1. upd.src \in Sources /\ upd.target \in GenIds
      BY <2>1 DEF RunTyped
    <3>2. state[upd.src].active # None
      BY <1>1, <1>13, <2>1, <3>1 DEF SwitchRows
    <3>3. IsValidRemote(upd.src, upd.target)
      BY <2>1, <3>2 DEF RunPrepared
    <3>4. \A t \in Sources, h \in GenIds :
             t = upd.src /\ h = upd.target => IsValidRemote(t, h)'
      BY <1>15, <3>3
    <3> QED
      BY <1>14, <3>1, <3>4 DEF IsValidRemote, Stored
  <2> QED
    BY <1>14, <2>1 DEF RunPrepared
<1>17. Switched(s, gens[g].sha)
  BY <1>4, <1>11, <1>12 DEF Switched
<1> QED
  BY <1>1, <1>4, <1>15, <1>16, <1>17

-----------------------------------------------------------------------------
(* The other writes edit rows and leave the generations alone.               *)

\* The source or state rows change, what the generations depend on does not.
RowEdit ==
    /\ UNCHANGED <<gens, usedIds>>
    /\ \A t \in Sources :
          /\ source[t].present => source'[t].present
          /\ ~source'[t].present => state'[t] = EmptyState
          /\ state'[t].active = state[t].active
          /\ state[t].active # None =>
                /\ state'[t].count = state[t].count
                /\ state'[t].sha = state[t].sha
                /\ state'[t].remote = state[t].remote \/ IsValidRemote(t, state'[t].remote)

LEMMA RowEditKeeps ==
    ASSUME StoreInv, RowEdit
    PROVE  StoreInv'
<1>1. StoredRowsAreWhole'
  BY DEF StoreInv, StoredRowsAreWhole, RowEdit
<1>2. RemovedSourcesAreEmpty'
  BY DEF RemovedSourcesAreEmpty, RowEdit
<1>3. PointerNamesTheActiveGeneration'
  BY DEF StoreInv, PointerNamesTheActiveGeneration, RowEdit, ActiveOf
<1>4. RollbackPointersResolve'
  BY DEF StoreInv, RollbackPointersResolve, RowEdit, Stored
<1>5. StateRowDescribesGenerations'
  <2> SUFFICES ASSUME NEW t \in Sources, state'[t].active # None
               PROVE  /\ state'[t].count = gens[state[t].active].count'
                      /\ IsValidRemote(t, state[t].active)'
                      /\ IsValidRemote(t, state[t].remote)'
                      /\ state'[t].sha # None
    BY DEF StateRowDescribesGenerations
  <2>1. /\ state[t].count = gens[state[t].active].count
        /\ IsValidRemote(t, state[t].active)
        /\ IsValidRemote(t, state[t].remote)
        /\ state[t].sha # None
    BY DEF StoreInv, StateRowDescribesGenerations, RowEdit
  <2> QED
    BY <2>1 DEF RowEdit, IsValidRemote, Stored
<1> QED
  BY <1>1, <1>2, <1>3, <1>4, <1>5 DEF StoreInv

\* A run that did not just decide to import or to mark needs nothing prepared.
LEMMA NothingPrepared ==
    ASSUME upd'.pc \notin {"import", "mark"}
    PROVE  RunPrepared'
BY DEF RunPrepared

LEMMA PreparedStays ==
    ASSUME RunPrepared, RowEdit, upd' = upd, RunTyped
    PROVE  RunPrepared'
<1>1. upd.pc = "mark" => upd.src \in Sources
  BY DEF RunTyped
<1> QED
  BY <1>1 DEF RunPrepared, RowEdit, IsValidRemote, Stored

LEMMA MarkNotModifiedKeeps ==
    ASSUME IntegrityInv, MarkNotModified
    PROVE  StoreInv' /\ RunPrepared'
<1> USE DEF IntegrityInv, TypeInv
<1> SUFFICES ASSUME NEW s, s = upd.src PROVE StoreInv' /\ RunPrepared'
  OBVIOUS
<1>1. s \in Sources /\ state[s] \in StateRow /\ state \in [Sources -> StateRow]
  BY DEF MarkNotModified, RunTyped, TypeOK
<1>2. state[s].active # None => IsValidRemote(s, upd.target)
  BY DEF MarkNotModified, RunPrepared
<1>3. /\ NotModifiedRow(state[s]).active = state[s].active
      /\ NotModifiedRow(state[s]).count = state[s].count
      /\ NotModifiedRow(state[s]).sha = state[s].sha
      /\ NotModifiedRow(state[s]).remote = upd.target
  BY <1>1 DEF NotModifiedRow, StateRow
<1>4. /\ \A t \in Sources \ {s} : state'[t] = state[t]
      /\ source[s].present => state'[s] = NotModifiedRow(state[s])
      /\ ~source[s].present => state'[s] = state[s]
      /\ UNCHANGED <<source, gens, usedIds>>
  BY <1>1 DEF MarkNotModified
<1>5. RowEdit
  BY <1>2, <1>3, <1>4 DEF RowEdit, StoreInv, RemovedSourcesAreEmpty
<1>6. upd'.pc = "audit"
  BY DEF MarkNotModified, TypeOK, UpdateRun
<1> QED
  BY <1>5, <1>6, RowEditKeeps, NothingPrepared

LEMMA MarkFailedKeeps ==
    ASSUME IntegrityInv, MarkFailed
    PROVE  StoreInv' /\ RunPrepared'
<1> USE DEF IntegrityInv, TypeInv
<1> SUFFICES ASSUME NEW s, s = upd.src PROVE StoreInv' /\ RunPrepared'
  OBVIOUS
<1>1. s \in Sources /\ state[s] \in StateRow /\ state \in [Sources -> StateRow]
  BY DEF MarkFailed, RunTyped, TypeOK
<1>2. /\ FailedRow(state[s]).active = state[s].active
      /\ FailedRow(state[s]).count = state[s].count
      /\ FailedRow(state[s]).sha = state[s].sha
      /\ FailedRow(state[s]).remote = state[s].remote
  BY <1>1 DEF FailedRow, StateRow
<1>3. /\ \A t \in Sources \ {s} : state'[t] = state[t]
      /\ source[s].present => state'[s] = FailedRow(state[s])
      /\ ~source[s].present => state'[s] = state[s]
      /\ UNCHANGED <<source, gens, usedIds>>
  BY <1>1 DEF MarkFailed
<1>4. RowEdit
  BY <1>2, <1>3 DEF RowEdit, StoreInv, RemovedSourcesAreEmpty
<1>5. upd'.pc \in {"audit", "idle"}
  <2>1. upd' = [upd EXCEPT !.pc = "audit", !.http = "none"] \/ upd' = NoRun
    BY DEF MarkFailed, Abandon
  <2>2. upd \in UpdateRun /\ NoRun.pc = "idle"
    BY DEF TypeOK, NoRun
  <2> QED
    BY <2>1, <2>2 DEF UpdateRun
<1> QED
  BY <1>4, <1>5, RowEditKeeps, NothingPrepared

LEMMA SourceEditsKeep ==
    ASSUME IntegrityInv, NEW s \in Sources, NEW u \in Urls, NEW on \in BOOLEAN,
           AddSource(s, u, on) \/ UpdateFetchSettings(s, u) \/ SetEnabled(s, on)
    PROVE  StoreInv' /\ RunPrepared'
<1> USE DEF IntegrityInv, TypeInv
<1>0. source \in [Sources -> SourceRow] /\ state \in [Sources -> StateRow]
      /\ source[s] \in SourceRow /\ state[s] \in StateRow
  BY DEF TypeOK
<1>1. CASE AddSource(s, u, on)
  <2>1. StateOf(s) = state[s]
    BY DEF StateOf, StoreInv, RemovedSourcesAreEmpty
  <2>2. state' = state
    BY <1>0, <1>1, <2>1 DEF AddSource
  <2>3. source'[s].present /\ \A t \in Sources \ {s} : source'[t] = source[t]
    BY <1>0, <1>1 DEF AddSource
  <2>4. RowEdit
    BY <1>1, <2>2, <2>3 DEF RowEdit, AddSource, StoreInv, RemovedSourcesAreEmpty
  <2> QED
    BY <1>1, <2>4, RowEditKeeps, PreparedStays DEF AddSource
<1>2. CASE UpdateFetchSettings(s, u)
  <2>1. /\ state'[s].active = state[s].active
        /\ state'[s].count = state[s].count
        /\ state'[s].sha = state[s].sha
        /\ state'[s].remote = state[s].remote
        /\ \A t \in Sources \ {s} : state'[t] = state[t]
    BY <1>0, <1>2 DEF UpdateFetchSettings, StateRow
  <2>2. source'[s].present /\ \A t \in Sources \ {s} : source'[t] = source[t]
    BY <1>0, <1>2 DEF UpdateFetchSettings, SourceRow
  <2>3. RowEdit
    BY <1>2, <2>1, <2>2
    DEF RowEdit, UpdateFetchSettings, StoreInv, RemovedSourcesAreEmpty
  <2> QED
    BY <1>2, <2>3, RowEditKeeps, PreparedStays DEF UpdateFetchSettings
<1>3. CASE SetEnabled(s, on)
  <2>1. \A t \in Sources : source'[t].present = source[t].present
    BY <1>0, <1>3 DEF SetEnabled, SourceRow
  <2>2. RowEdit
    BY <1>3, <2>1 DEF RowEdit, SetEnabled, StoreInv, RemovedSourcesAreEmpty
  <2> QED
    BY <1>3, <2>2, RowEditKeeps, PreparedStays DEF SetEnabled
<1> QED
  BY <1>1, <1>2, <1>3

\* The cascade takes the generations of one source and no other.
LEMMA RemoveKeeps ==
    ASSUME IntegrityInv, NEW s \in Sources, RemoveSource(s)
    PROVE  StoreInv' /\ RunPrepared'
<1> USE DEF IntegrityInv, TypeInv
<1>1. /\ state'[s] = EmptyState
      /\ \A t \in Sources \ {s} : state'[t] = state[t]
  BY DEF RemoveSource, TypeOK
<1>2. \A t \in Sources \ {s} : source'[t] = source[t]
  BY DEF RemoveSource, TypeOK
<1>3. /\ \A g \in GenIds : gens[g].source # s => gens'[g] = gens[g]
      /\ \A g \in GenIds : gens[g].source = s => gens'[g].status = "absent"
  BY DEF RemoveSource, NoGeneration
<1>4. usedIds' = usedIds /\ upd' = upd
  BY DEF RemoveSource
<1>5. ASSUME NEW t \in Sources, t # s, NEW g \in GenIds
      PROVE  /\ Stored(t, g)' <=> Stored(t, g)
             /\ IsValidRemote(t, g) => IsValidRemote(t, g)'
             /\ gens[g].status' = "active" /\ gens[g].source' = t
                  <=> gens[g].status = "active" /\ gens[g].source = t
             /\ Stored(t, g) => gens'[g] = gens[g]
  BY <1>3, <1>5 DEF Stored, IsValidRemote
<1>6. \A g \in GenIds : ~Stored(s, g)' /\ ~(gens[g].status' = "active" /\ gens[g].source' = s)
  <2> SUFFICES ASSUME NEW g \in GenIds
               PROVE  gens[g].source' = s => gens[g].status' = "absent"
    BY DEF Stored
  <2> QED
    BY <1>3
<1>7. StoredRowsAreWhole'
  BY <1>2, <1>3, <1>4 DEF StoreInv, StoredRowsAreWhole
<1>8. RemovedSourcesAreEmpty'
  BY <1>1, <1>2 DEF StoreInv, RemovedSourcesAreEmpty
<1>9. PointerNamesTheActiveGeneration'
  <2> SUFFICES ASSUME NEW t \in Sources
               PROVE  ActiveOf(t)' = IF state'[t].active = None THEN {}
                                     ELSE {state'[t].active}
    BY DEF PointerNamesTheActiveGeneration
  <2>1. CASE t = s
    BY <1>1, <1>6, <2>1 DEF ActiveOf, EmptyState
  <2>2. CASE t # s
    <3>1. ActiveOf(t)' = ActiveOf(t)
      BY <1>5, <2>2 DEF ActiveOf
    <3> QED
      BY <1>1, <2>2, <3>1 DEF StoreInv, PointerNamesTheActiveGeneration
  <2> QED
    BY <2>1, <2>2
<1>10. RollbackPointersResolve'
  <2> SUFFICES ASSUME NEW t \in Sources, NEW g \in GenIds, Stored(t, g)',
                      gens[g].previous' # None
               PROVE  gens[g].previous' # g /\ Stored(t, gens[g].previous)'
    BY DEF RollbackPointersResolve
  <2>1. t # s
    BY <1>6
  <2>2. Stored(t, g) /\ gens[g].previous' = gens[g].previous
    BY <1>5, <2>1
  <2>3. gens[g].previous # g /\ Stored(t, gens[g].previous)
        /\ gens[g].previous \in GenIds
    BY <2>2 DEF StoreInv, RollbackPointersResolve, TypeOK, GenRow
  <2> DEFINE p == gens[g].previous
  <2>4. \A h \in GenIds : h = p => Stored(t, h)'
    BY <1>5, <2>1, <2>3
  <2> QED
    BY <2>2, <2>3, <2>4 DEF Stored
<1>11. StateRowDescribesGenerations'
  <2> SUFFICES ASSUME NEW t \in Sources, state'[t].active # None
               PROVE  /\ state'[t].count = gens[state[t].active].count'
                      /\ IsValidRemote(t, state[t].active)'
                      /\ IsValidRemote(t, state[t].remote)'
                      /\ state'[t].sha # None
    BY DEF StateRowDescribesGenerations
  <2>1. t # s /\ state'[t] = state[t]
    BY <1>1 DEF EmptyState
  <2>2. /\ state[t].count = gens[state[t].active].count
        /\ IsValidRemote(t, state[t].active)
        /\ IsValidRemote(t, state[t].remote)
        /\ state[t].sha # None
    BY <2>1 DEF StoreInv, StateRowDescribesGenerations
  <2>3. ASSUME NEW h \in GenIds, IsValidRemote(t, h)
        PROVE  IsValidRemote(t, h)' /\ gens'[h] = gens[h]
    BY <1>5, <2>1, <2>3 DEF IsValidRemote
  <2> QED
    BY <2>1, <2>2, <2>3 DEF IsValidRemote
<1>12. RunPrepared'
  <2>1. ASSUME upd.pc = "mark", state'[upd.src].active # None
        PROVE  IsValidRemote(upd.src, upd.target)'
    <3>0. EmptyState.active = None
      BY DEF EmptyState
    <3>1. upd.src \in Sources /\ upd.target \in GenIds /\ upd.src # s
      BY <1>1, <2>1, <3>0 DEF RunTyped
    <3>2. IsValidRemote(upd.src, upd.target)
      BY <1>1, <2>1, <3>1 DEF RunPrepared
    <3>3. \A t \in Sources, h \in GenIds :
             t = upd.src /\ h = upd.target => IsValidRemote(t, h)'
      BY <1>5, <3>1, <3>2
    <3> QED
      BY <1>4, <3>1, <3>3 DEF IsValidRemote, Stored
  <2> QED
    BY <1>4, <2>1 DEF RunPrepared
<1> QED
  BY <1>7, <1>8, <1>9, <1>10, <1>11, <1>12 DEF StoreInv

-----------------------------------------------------------------------------
(* The steps that write no row: they only have to prepare the next write.    *)

LEMMA StoreUnchanged ==
    ASSUME StoreInv, UNCHANGED <<source, state, gens, usedIds>>
    PROVE  StoreInv' /\ RowEdit
<1>1. RowEdit
  BY DEF RowEdit, StoreInv, RemovedSourcesAreEmpty
<1> QED
  BY <1>1, RowEditKeeps

\* Whatever a 304 is taken to stand for is a valid generation of the source.
LEMMA ResolvedIsValid ==
    ASSUME IntegrityInv, NEW s \in Sources, NEW seen \in StateRow,
           NEW g \in ResolveRemote(s, seen), g # None
    PROVE  IsValidRemote(s, g)
<1>1. LatestRemote(s) = None \/ IsValidRemote(s, LatestRemote(s))
  BY LatestRemoteValid
<1>2. \A c : \A h \in Reusable(s, c) : IsValidRemote(s, h)
  BY DEF Reusable, IsValidRemote, IntegrityInv, StoreInv, StoredRowsAreWhole, Stored
<1> QED
  BY <1>1, <1>2 DEF ResolveRemote

LEMMA ResolveKeeps ==
    ASSUME IntegrityInv, Resolve
    PROVE  StoreInv' /\ RunPrepared'
<1> USE DEF IntegrityInv, TypeInv
<1>1. StoreInv'
  BY StoreUnchanged DEF Resolve
<1>2. PICK g \in ResolveRemote(upd.src, upd.seen) :
        upd' = [upd EXCEPT !.target = g,
                           !.pc = IF g = None THEN "audit"
                                  ELSE IF upd.seen.active \notin {None, g}
                                  THEN "reactivate"
                                  ELSE "mark"]
  BY DEF Resolve
<1>3. upd \in UpdateRun /\ upd.src \in Sources /\ upd.seen \in StateRow
  BY DEF Resolve, RunTyped, TypeOK, UpdateRun
<1>4. upd'.target = g /\ upd'.src = upd.src
      /\ (upd'.pc \in {"import", "mark"} => upd'.pc = "mark" /\ g # None)
  BY <1>2, <1>3 DEF UpdateRun
<1>5. g # None => IsValidRemote(upd.src, g)
  BY <1>3, ResolvedIsValid
<1>6. gens' = gens
  BY DEF Resolve
<1> QED
  BY <1>1, <1>4, <1>5, <1>6 DEF RunPrepared, IsValidRemote, Stored

LEMMA CompareKeeps ==
    ASSUME IntegrityInv, CompareContent
    PROVE  StoreInv' /\ RunPrepared'
<1> USE DEF IntegrityInv, TypeInv
<1>1. StoreInv'
  BY StoreUnchanged DEF CompareContent
<1>2. upd \in UpdateRun /\ upd.src \in Sources /\ upd.content \in Contents
  BY DEF CompareContent, RunTyped, TypeOK
<1>3. EntryCount[upd.content] # 0
  <2>1. EntryCount[upd.content] > 0
    BY DEF CompareContent, Gate
  <2>2. EntryCount[upd.content] \in Nat
    BY <1>2, PayloadAssumption
  <2> HIDE DEF IntegrityInv
  <2> QED
    BY <2>1, <2>2, SMT
<1>4. CASE ContentIsActive /\ upd' = [upd EXCEPT !.pc = "mark", !.target = upd.seen.active]
  <2>1. upd.seen.active \in GenIds /\ Stored(upd.src, upd.seen.active)
    BY <1>2, <1>4 DEF ContentIsActive, UpdateRun, StateRow
  <2>2. IsValidRemote(upd.src, upd.seen.active)
    BY <2>1, StoredIsWhole DEF Whole, IsValidRemote
  <2>3. upd'.pc = "mark" /\ upd'.target = upd.seen.active /\ upd'.src = upd.src
    BY <1>2, <1>4 DEF UpdateRun
  <2>4. gens' = gens
    BY DEF CompareContent
  <2> QED
    BY <1>1, <2>2, <2>3, <2>4 DEF RunPrepared, IsValidRemote, Stored
<1>5. ASSUME NEW g, upd' = [upd EXCEPT !.pc = "reactivate", !.target = g]
      PROVE  RunPrepared'
  BY <1>2, <1>5 DEF UpdateRun, RunPrepared
<1>6. CASE Goto("import")
  <2>1. upd'.pc = "import" /\ upd'.content = upd.content
    BY <1>2, <1>6 DEF Goto, UpdateRun
  <2> QED
    BY <1>1, <1>3, <2>1 DEF RunPrepared
<1> QED
  BY <1>1, <1>4, <1>5, <1>6 DEF CompareContent

LEMMA ReadingStepsKeep ==
    ASSUME IntegrityInv,
           \/ FinishUpdate \/ ReadState \/ FetchNotModified \/ FetchContent
           \/ FetchError \/ RejectContent \/ ImportRefused \/ ReactivateRefused
           \/ RecordAudit \/ Crash \/ TimerUpdate
           \/ \E s \in Sources : ReadSource(s)
           \/ \E todo \in SUBSET Sources : CommandUpdate(todo)
    PROVE  StoreInv' /\ RunPrepared'
<1> USE DEF IntegrityInv, TypeInv
<1>1. UNCHANGED <<source, state, gens, usedIds>>
  BY DEF FinishUpdate, ReadState, FetchNotModified, FetchContent, FetchError,
         RejectContent, ImportRefused, ReactivateRefused, RecordAudit, Crash,
         TimerUpdate, ReadSource, CommandUpdate, StartRun
<1>2. upd \in UpdateRun
  BY DEF TypeOK
<1>3. upd'.pc \notin {"import", "mark"}
  <2>1. CASE FinishUpdate \/ ImportRefused \/ Crash
    BY <2>1 DEF FinishUpdate, ImportRefused, Crash, Abandon, NoRun
  <2>2. CASE ReadState \/ FetchNotModified \/ FetchContent
    BY <1>2, <2>2 DEF ReadState, FetchNotModified, FetchContent, UpdateRun
  <2>3. CASE FetchError \/ RejectContent
    BY <1>2, <2>3 DEF FetchError, RejectContent, Goto, UpdateRun
  <2>4. CASE ReactivateRefused
    <3>1. Goto("audit") \/ Abandon
      BY <2>4 DEF ReactivateRefused
    <3>2. NoRun.pc = "idle"
      BY DEF NoRun
    <3> QED
      BY <1>2, <3>1, <3>2 DEF Goto, Abandon, UpdateRun
  <2>5. CASE RecordAudit \/ TimerUpdate \/ \E todo \in SUBSET Sources : CommandUpdate(todo)
    BY <2>5 DEF RecordAudit, TimerUpdate, CommandUpdate, NextInLoop, StartRun, NoRun
  <2>6. CASE \E s \in Sources : ReadSource(s)
    BY <2>6 DEF ReadSource, NoRun
  <2> QED
    BY <2>1, <2>2, <2>3, <2>4, <2>5, <2>6
<1> QED
  BY <1>1, <1>3, StoreUnchanged, NothingPrepared

LEMMA PublishKeeps ==
    ASSUME IntegrityInv, NEW u \in Urls, NEW c \in Contents, Publish(u, c)
    PROVE  StoreInv' /\ RunPrepared'
<1>1. UNCHANGED <<source, state, gens, usedIds, upd>>
  BY DEF Publish
<1> QED
  BY <1>1, StoreUnchanged, PreparedStays DEF IntegrityInv, TypeInv

-----------------------------------------------------------------------------
\* The store invariant is inductive, with what the run prepared.
LEMMA IntegrityInductive == IntegrityInv /\ [Next]_vars => IntegrityInv'
<1>1. ASSUME IntegrityInv, UNCHANGED vars PROVE StoreInv' /\ RunPrepared'
  BY <1>1, StoreUnchanged, PreparedStays DEF vars, IntegrityInv, TypeInv
<1>2. ASSUME IntegrityInv, RunStep PROVE StoreInv' /\ RunPrepared'
  BY <1>2, ReadingStepsKeep, ResolveKeeps, CompareKeeps, ImportKeeps, ReactivateKeeps,
     MarkNotModifiedKeeps, MarkFailedKeeps DEF RunStep
<1>3. ASSUME IntegrityInv, OperatorStep PROVE StoreInv' /\ RunPrepared'
  <2>1. ASSUME NEW s \in Sources, NEW u \in Urls, UpdateFetchSettings(s, u)
        PROVE  StoreInv' /\ RunPrepared'
    <3>1. TRUE \in BOOLEAN
      OBVIOUS
    <3> QED
      BY <1>3, <2>1, <3>1, SourceEditsKeep
  <2>2. ASSUME NEW s \in Sources, NEW on \in BOOLEAN, SetEnabled(s, on)
        PROVE  StoreInv' /\ RunPrepared'
    <3>1. source[s].url \in Urls
      BY <1>3 DEF IntegrityInv, TypeInv, TypeOK, SourceRow
    <3> QED
      BY <1>3, <2>2, <3>1, SourceEditsKeep
  <2> QED
    BY <1>3, <2>1, <2>2, ReadingStepsKeep, SourceEditsKeep, RemoveKeeps, RollbackKeeps
    DEF OperatorStep
<1> QED
  BY <1>1, <1>2, <1>3, ReadingStepsKeep, PublishKeeps, TypeInductive
  DEF Next, IntegrityInv

LEMMA IntegrityHolds == Spec => []IntegrityInv
<1>1. Init => IntegrityInv
  BY InitType, InitStore DEF IntegrityInv
<1> QED
  BY <1>1, IntegrityInductive, PTL DEF Spec

\* Readers find by status the one generation writers find by the pointer, for any
\* number of sources, generations, interrupted updates and commands.
THEOREM PointerTheorem == Spec => []PointerNamesTheActiveGeneration
<1>1. IntegrityInv => PointerNamesTheActiveGeneration
  BY DEF IntegrityInv, StoreInv
<1> QED
  BY <1>1, IntegrityHolds, PTL

\* A rollback never finds a dangling or foreign generation, or the active one.
THEOREM RollbackTheorem == Spec => []RollbackPointersResolve
<1>1. IntegrityInv => RollbackPointersResolve
  BY DEF IntegrityInv, StoreInv
<1> QED
  BY <1>1, IntegrityHolds, PTL

\* The state row a run or a health check reads describes what is stored.
THEOREM StateRowTheorem == Spec => []StateRowDescribesGenerations
<1>1. IntegrityInv => StateRowDescribesGenerations
  BY DEF IntegrityInv, StoreInv
<1> QED
  BY <1>1, IntegrityHolds, PTL

-----------------------------------------------------------------------------
(* Payloads are stored once as long as nobody rolls back: an import compares *)
(* with the row the run read before its request, and without a rollback only *)
(* a removal, after which nothing is stored, can make that row stale.        *)

NoRollback == "rollback" \notin Operations

\* The steps at which a run relies on the state row it has read.
ReadSteps == {"fetch", "resolve", "compare", "mark", "reactivate", "import"}

SeenIsActive ==
    upd.pc \in ReadSteps => state[upd.src].active \in {None, upd.seen.active}

ImportIsNew ==
    upd.pc = "import" =>
        \A g \in GenIds : Stored(upd.src, g) => gens[g].sha # upd.content

OnceInv == SeenIsActive /\ ImportIsNew /\ PayloadStoredOnce

\* A step that stores no generation and goes on with the same run, or with none.
Remains ==
    /\ \A t \in Sources, h \in GenIds :
          Stored(t, h)' => Stored(t, h) /\ gens'[h].sha = gens[h].sha
    /\ \A t \in Sources : state'[t].active \in {None, state[t].active}

LEMMA RemainsOnce ==
    ASSUME OnceInv, Remains, upd' = upd, RunTyped
    PROVE  OnceInv'
<1>1. upd.pc \in ReadSteps => upd.src \in Sources
  BY DEF ReadSteps, RunTyped
<1>2. SeenIsActive'
  BY <1>1 DEF OnceInv, SeenIsActive, Remains
<1>3. ImportIsNew'
  BY <1>1 DEF OnceInv, ImportIsNew, Remains, ReadSteps
<1>4. PayloadStoredOnce'
  BY DEF OnceInv, PayloadStoredOnce, Remains
<1> QED
  BY <1>2, <1>3, <1>4 DEF OnceInv

\* Outside these steps a run relies on nothing.
LEMMA VacantOnce ==
    ASSUME OnceInv, Remains, upd'.pc \notin ReadSteps
    PROVE  OnceInv'
<1>1. SeenIsActive' /\ ImportIsNew'
  BY DEF SeenIsActive, ImportIsNew, ReadSteps
<1>2. PayloadStoredOnce'
  BY DEF OnceInv, PayloadStoredOnce, Remains
<1> QED
  BY <1>1, <1>2 DEF OnceInv

\* A run that moves on with what it has read, other than to an import.
LEMMA GoesOnOnce ==
    ASSUME OnceInv, UNCHANGED <<state, gens>>, upd.pc \in ReadSteps,
           upd'.src = upd.src, upd'.seen = upd.seen, upd'.pc # "import"
    PROVE  OnceInv'
<1>1. SeenIsActive' /\ ImportIsNew'
  BY DEF OnceInv, SeenIsActive, ImportIsNew
<1>2. PayloadStoredOnce'
  BY DEF OnceInv, PayloadStoredOnce, Stored
<1> QED
  BY <1>1, <1>2 DEF OnceInv

LEMMA UnchangedRemains ==
    ASSUME UNCHANGED <<state, gens>>
    PROVE  Remains
BY DEF Remains, Stored

LEMMA ReadingOnce ==
    ASSUME IntegrityInv, OnceInv,
           ReadState \/ FetchNotModified \/ FetchContent \/ Resolve \/ CompareContent
    PROVE  OnceInv'
<1> USE DEF IntegrityInv, TypeInv
<1>0. upd \in UpdateRun /\ upd.src \in Sources /\ UNCHANGED <<state, gens>>
  BY DEF TypeOK, RunTyped, ReadState, FetchNotModified, FetchContent, Resolve, CompareContent
<1>1. CASE ReadState
  <2>1. upd'.pc = "fetch" /\ upd'.src = upd.src /\ upd'.seen = StateOf(upd.src)
    BY <1>0, <1>1 DEF ReadState, UpdateRun
  <2>2. StateOf(upd.src).active = state[upd.src].active
    BY <1>0 DEF StateOf, StoreInv, RemovedSourcesAreEmpty
  <2>3. SeenIsActive' /\ ImportIsNew'
    BY <1>0, <2>1, <2>2 DEF SeenIsActive, ImportIsNew
  <2>4. PayloadStoredOnce'
    BY <1>0 DEF OnceInv, PayloadStoredOnce, Stored
  <2> QED
    BY <2>3, <2>4 DEF OnceInv
<1>2. CASE FetchNotModified \/ FetchContent
  <2>1. /\ upd'.pc # "import" /\ upd.pc \in ReadSteps
        /\ upd'.src = upd.src /\ upd'.seen = upd.seen
    BY <1>0, <1>2 DEF FetchNotModified, FetchContent, UpdateRun, ReadSteps
  <2> QED
    BY <1>0, <2>1, GoesOnOnce
<1>3. CASE Resolve
  <2>1. PICK g : upd' = [upd EXCEPT !.target = g,
                                    !.pc = IF g = None THEN "audit"
                                           ELSE IF upd.seen.active \notin {None, g}
                                           THEN "reactivate"
                                           ELSE "mark"]
    BY <1>3 DEF Resolve
  <2>2. upd'.pc # "import" /\ upd'.src = upd.src /\ upd'.seen = upd.seen
    BY <1>0, <2>1 DEF UpdateRun
  <2>3. upd.pc \in ReadSteps
    BY <1>3 DEF Resolve, ReadSteps
  <2> QED
    BY <1>0, <2>2, <2>3, GoesOnOnce
<1>4. CASE CompareContent
  <2>0. upd.pc \in ReadSteps
    BY <1>4 DEF CompareContent, ReadSteps
  <2>1. ASSUME NEW g, NEW step \in {"mark", "reactivate"},
               upd' = [upd EXCEPT !.pc = step, !.target = g]
        PROVE  OnceInv'
    <3>1. upd'.pc # "import" /\ upd'.src = upd.src /\ upd'.seen = upd.seen
      BY <1>0, <2>1 DEF UpdateRun
    <3> QED
      BY <1>0, <2>0, <3>1, GoesOnOnce
  <2>2. CASE ~ContentIsActive /\ Reusable(upd.src, upd.content) = {} /\ Goto("import")
    <3>1. /\ upd'.pc = "import" /\ upd'.src = upd.src /\ upd'.seen = upd.seen
          /\ upd'.content = upd.content
      BY <1>0, <2>2 DEF Goto, UpdateRun
    <3>2. SeenIsActive'
      BY <1>0, <2>0, <3>1 DEF OnceInv, SeenIsActive
    <3>3. ASSUME NEW g \in GenIds, Stored(upd.src, g), gens[g].sha = upd.content
          PROVE  FALSE
      <4>1. gens[g].stored = gens[g].count
        BY <3>3, StoredIsWhole DEF Whole
      <4>2. gens[g].status \in {"inactive", "active"}
        <5>1. gens[g] \in GenRow
          BY DEF TypeOK
        <5> QED
          BY <3>3, <5>1 DEF Stored, GenRow, GenStatus
      <4>3. gens[g].status # "inactive"
        BY <2>2, <3>3, <4>1 DEF Reusable
      <4>4. g \in ActiveOf(upd.src)
        BY <3>3, <4>2, <4>3 DEF ActiveOf, Stored
      <4>5. state[upd.src].active = g /\ g # None
        BY <1>0, <4>4, NoneAssumption DEF StoreInv, PointerNamesTheActiveGeneration
      <4>6. upd.seen.active = g
        BY <2>0, <4>5 DEF OnceInv, SeenIsActive
      <4> QED
        BY <2>2, <3>3, <4>5, <4>6 DEF ContentIsActive
    <3>4. ImportIsNew'
      BY <1>0, <3>1, <3>3 DEF ImportIsNew, Stored
    <3>5. PayloadStoredOnce'
      BY <1>0 DEF OnceInv, PayloadStoredOnce, Stored
    <3> QED
      BY <3>2, <3>4, <3>5 DEF OnceInv
  <2> QED
    BY <1>4, <2>1, <2>2 DEF CompareContent
<1> QED
  BY <1>1, <1>2, <1>3, <1>4

\* What an import and a reactivation have in common: the source of the run is
\* switched to g, which holds c, and its state row is written anew.
KeptRow(h) ==
    /\ gens'[h].source = gens[h].source
    /\ gens'[h].sha = gens[h].sha
    /\ gens'[h].count = gens[h].count
    /\ gens'[h].stored = gens[h].stored
    /\ gens'[h].status = "absent" <=> gens[h].status = "absent"

RunSwitches(g, c) ==
    /\ gens[g].status # "absent" => gens[g].source = upd.src
    /\ gens'[g].status # "absent" /\ gens'[g].source = upd.src /\ gens'[g].sha = c
    /\ \A h \in GenIds \ {g} : KeptRow(h)
    /\ \A t \in Sources \ {upd.src} : state'[t] = state[t]
    /\ state'[upd.src].active = g /\ state'[upd.src].remote = g
    /\ state'[upd.src].sha = c /\ state'[upd.src].etag = ResponseValidator
    /\ upd'.pc = "audit" /\ upd'.target = g /\ upd'.src = upd.src /\ upd'.http = upd.http

LEMMA ImportSwitches ==
    ASSUME IntegrityInv, ImportGeneration
    PROVE  \E g \in GenIds : gens[g].status = "absent" /\ RunSwitches(g, upd.content)
<1> USE DEF IntegrityInv, TypeInv
<1>0. upd \in UpdateRun /\ upd.src \in Sources /\ state \in [Sources -> StateRow]
  BY DEF TypeOK, RunTyped, ImportGeneration
<1> DEFINE n        == EntryCount[upd.content]
           previous == CurrentActive(upd.src)
           row      == [status |-> "active", source |-> upd.src, sha |-> upd.content,
                        count |-> n, stored |-> n, previous |-> previous]
           srow(g)  == [status |-> "active", etag |-> ResponseValidator,
                        sha |-> upd.content, count |-> n, active |-> g, remote |-> g]
<1>1. PICK g \in GenIds \ usedIds :
        /\ gens' = [h \in GenIds |-> IF h = g THEN row
                                     ELSE IF h = previous
                                     THEN [gens[h] EXCEPT !.status = "inactive"]
                                     ELSE gens[h]]
        /\ state' = [state EXCEPT ![upd.src] = srow(g)]
        /\ upd' = [upd EXCEPT !.pc = "audit", !.target = g, !.ok = TRUE]
  BY DEF ImportGeneration
<1>2. gens[g].status = "absent"
  BY DEF StoreInv, StoredRowsAreWhole
<1>3. gens'[g].status # "absent" /\ gens'[g].source = upd.src /\ gens'[g].sha = upd.content
  BY <1>1
<1>4. previous # None => previous \in GenIds /\ gens[previous].status = "active"
  <2>1. CASE source[upd.src].present
    BY <1>0, <2>1, ActiveFacts DEF CurrentActive, StateOf
  <2>2. CASE ~source[upd.src].present
    BY <2>2 DEF CurrentActive, StateOf, EmptyState
  <2> QED
    BY <2>1, <2>2
<1>5. ASSUME NEW h \in GenIds \ {g} PROVE KeptRow(h)
  <2>1. gens[h] \in GenRow
    BY DEF TypeOK
  <2>2. h # previous => gens'[h] = gens[h]
    BY <1>1, <1>5
  <2>3. CASE h = previous
    <3>1. gens'[h] = [gens[h] EXCEPT !.status = "inactive"]
      BY <1>1, <1>5, <2>3
    <3>2. h # None
      BY NoneAssumption
    <3>3. gens[h].status = "active"
      BY <1>4, <2>3, <3>2
    <3> QED
      BY <2>1, <3>1, <3>3 DEF GenRow, KeptRow
  <2> QED
    BY <2>2, <2>3 DEF KeptRow
<1>6. /\ \A t \in Sources \ {upd.src} : state'[t] = state[t]
      /\ state'[upd.src] = srow(g)
  BY <1>0, <1>1
<1>7. upd'.pc = "audit" /\ upd'.target = g /\ upd'.src = upd.src /\ upd'.http = upd.http
  BY <1>0, <1>1 DEF UpdateRun
<1>8. /\ srow(g).active = g /\ srow(g).remote = g
      /\ srow(g).sha = upd.content /\ srow(g).etag = ResponseValidator
  OBVIOUS
<1> HIDE DEF n, previous, row, srow
<1> QED
  BY <1>2, <1>3, <1>5, <1>6, <1>7, <1>8 DEF RunSwitches

LEMMA ReactivateSwitches ==
    ASSUME IntegrityInv, Reactivate
    PROVE  /\ upd.target \in GenIds /\ Stored(upd.src, upd.target)
           /\ RunSwitches(upd.target, gens[upd.target].sha)
<1> USE DEF IntegrityInv, TypeInv
<1>0. upd \in UpdateRun /\ upd.src \in Sources /\ state \in [Sources -> StateRow]
  BY DEF TypeOK, RunTyped, Reactivate
<1>1. upd.target \in GenIds /\ Stored(upd.src, upd.target)
  BY DEF TypeOK, RunTyped, Reactivate, MayReactivate, Reusable
<1> DEFINE srow == [status |-> "active", etag |-> ResponseValidator,
                    sha |-> gens[upd.target].sha, count |-> gens[upd.target].count,
                    active |-> upd.target, remote |-> upd.target]
<1>2. ASSUME NEW h \in GenIds PROVE KeptRow(h)
  <2>1. gens[h] \in GenRow
    BY DEF TypeOK
  <2>2. CASE h = upd.target
    <3>1. gens'[h] = [gens[h] EXCEPT !.status = "active",
                                     !.previous = CurrentActive(upd.src)]
      BY <2>2 DEF Reactivate
    <3> QED
      BY <1>1, <2>1, <2>2, <3>1 DEF GenRow, KeptRow, Stored
  <2>3. CASE h # upd.target /\ h \in ActiveOf(upd.src)
    <3>1. gens'[h] = [gens[h] EXCEPT !.status = "inactive"]
      BY <2>3 DEF Reactivate
    <3>2. gens[h].status = "active"
      BY <2>3 DEF ActiveOf
    <3> QED
      BY <2>1, <3>1, <3>2 DEF GenRow, KeptRow
  <2>4. CASE h # upd.target /\ h \notin ActiveOf(upd.src)
    <3>1. gens'[h] = gens[h]
      BY <2>4 DEF Reactivate
    <3> QED
      BY <3>1 DEF KeptRow
  <2> QED
    BY <2>2, <2>3, <2>4
<1>3. /\ \A t \in Sources \ {upd.src} : state'[t] = state[t]
      /\ state'[upd.src] = srow
  BY <1>0 DEF Reactivate
<1>4. /\ upd'.pc = "audit" /\ upd'.target = upd.target /\ upd'.src = upd.src
      /\ upd'.http = upd.http
  BY <1>0 DEF Reactivate, UpdateRun
<1>5. /\ srow.active = upd.target /\ srow.remote = upd.target
      /\ srow.sha = gens[upd.target].sha /\ srow.etag = ResponseValidator
  OBVIOUS
<1> HIDE DEF srow
<1> QED
  BY <1>1, <1>2, <1>3, <1>4, <1>5 DEF RunSwitches, KeptRow, Stored

\* The payload that is imported is new to its source, a reactivation stores none.
LEMMA SwitchOnce ==
    ASSUME IntegrityInv, OnceInv, ImportGeneration \/ Reactivate
    PROVE  OnceInv'
<1>1. PICK g \in GenIds, c \in Contents \cup {None} :
        /\ RunSwitches(g, c)
        /\ \/ gens[g].status = "absent" /\ upd.pc = "import" /\ c = upd.content
           \/ Stored(upd.src, g) /\ c = gens[g].sha
  <2> USE DEF IntegrityInv, TypeInv
  <2>1. CASE ImportGeneration
    BY <2>1, ImportSwitches DEF ImportGeneration, RunTyped
  <2>2. CASE Reactivate
    <3>1. gens[upd.target].sha \in Contents \cup {None}
      BY <2>2, ReactivateSwitches DEF TypeOK, GenRow
    <3> QED
      BY <2>2, <3>1, ReactivateSwitches
  <2> QED
    BY <2>1, <2>2
<1>2. upd.src \in Sources
  BY DEF IntegrityInv, TypeInv, RunTyped, ImportGeneration, Reactivate
<1>3. PayloadStoredOnce'
  <2> SUFFICES ASSUME NEW t \in Sources, NEW h \in GenIds, NEW k \in GenIds,
                      Stored(t, h)', Stored(t, k)', gens'[h].sha = gens'[k].sha
               PROVE  h = k
    BY DEF PayloadStoredOnce
  <2>1. ASSUME NEW x \in GenIds, x # g, Stored(t, x)'
        PROVE  Stored(t, x) /\ gens'[x].sha = gens[x].sha
    BY <1>1, <2>1 DEF Stored, RunSwitches, KeptRow
  <2>2. Stored(t, g)' => t = upd.src /\ gens'[g].sha = c
    BY <1>1 DEF Stored, RunSwitches
  <2>3. CASE h # g /\ k # g
    BY <2>1, <2>3 DEF OnceInv, PayloadStoredOnce
  <2>4. ASSUME NEW x \in GenIds, x # g, Stored(t, x)', Stored(t, g)',
               gens'[x].sha = gens'[g].sha
        PROVE  FALSE
    <3>1. Stored(upd.src, x) /\ gens[x].sha = c
      BY <2>1, <2>2, <2>4
    <3> QED
      BY <1>1, <1>2, <2>4, <3>1 DEF OnceInv, ImportIsNew, PayloadStoredOnce
  <2> QED
    BY <2>3, <2>4
<1>4. SeenIsActive' /\ ImportIsNew'
  BY <1>1 DEF SeenIsActive, ImportIsNew, ReadSteps, RunSwitches
<1> QED
  BY <1>3, <1>4 DEF OnceInv

\* Commands, the feed server, and the steps of a run that give up or write a row.
LEMMA MarkRemains ==
    ASSUME IntegrityInv, MarkNotModified \/ MarkFailed
    PROVE  Remains /\ upd'.pc \notin ReadSteps
<1> USE DEF IntegrityInv, TypeInv
<1>0. upd \in UpdateRun /\ upd.src \in Sources /\ state[upd.src] \in StateRow
  BY DEF TypeOK, RunTyped, MarkNotModified, MarkFailed
<1>1. NotModifiedRow(state[upd.src]).active = state[upd.src].active
      /\ FailedRow(state[upd.src]).active = state[upd.src].active
  BY <1>0 DEF NotModifiedRow, FailedRow, StateRow
<1>2. \A t \in Sources : state'[t].active = state[t].active
  BY <1>1 DEF MarkNotModified, MarkFailed, TypeOK
<1>3. gens' = gens
  BY DEF MarkNotModified, MarkFailed
<1>4. upd'.pc \in {"audit", "idle"}
  <2>1. NoRun.pc = "idle"
    BY DEF NoRun
  <2> QED
    BY <1>0, <2>1 DEF MarkNotModified, MarkFailed, Abandon, UpdateRun
<1> QED
  BY <1>2, <1>3, <1>4 DEF Remains, Stored, ReadSteps

LEMMA RemoveRemains ==
    ASSUME IntegrityInv, NEW s \in Sources, RemoveSource(s)
    PROVE  Remains /\ upd' = upd
<1> USE DEF IntegrityInv, TypeInv
<1>1. \A g \in GenIds : gens'[g] = IF gens[g].source = s THEN NoGeneration ELSE gens[g]
  BY DEF RemoveSource
<1>2. NoGeneration.status = "absent" /\ EmptyState.active = None
  BY DEF NoGeneration, EmptyState
<1>3. \A t \in Sources : state'[t].active \in {None, state[t].active}
  BY <1>2 DEF RemoveSource, TypeOK
<1> QED
  BY <1>1, <1>2, <1>3 DEF Remains, Stored, RemoveSource

LEMMA EditRemains ==
    ASSUME IntegrityInv, NEW s \in Sources, NEW u \in Urls, NEW on \in BOOLEAN,
           AddSource(s, u, on) \/ UpdateFetchSettings(s, u) \/ SetEnabled(s, on)
    PROVE  Remains /\ upd' = upd
<1> USE DEF IntegrityInv, TypeInv
<1>1. StateOf(s) = state[s] /\ state[s] \in StateRow
  BY DEF StateOf, StoreInv, RemovedSourcesAreEmpty, TypeOK
<1>2. \A t \in Sources : state'[t].active = state[t].active
  <2>1. CASE AddSource(s, u, on) \/ SetEnabled(s, on)
    BY <1>1, <2>1 DEF AddSource, SetEnabled, TypeOK
  <2>2. CASE UpdateFetchSettings(s, u)
    <3>1. [state[s] EXCEPT !.etag = None].active = state[s].active
      BY <1>1 DEF StateRow
    <3>2. state' = [state EXCEPT ![s] = [state[s] EXCEPT !.etag = None]]
      BY <2>2 DEF UpdateFetchSettings
    <3> QED
      BY <3>1, <3>2 DEF TypeOK
  <2> QED
    BY <2>1, <2>2
<1>3. gens' = gens /\ upd' = upd
  BY DEF AddSource, UpdateFetchSettings, SetEnabled
<1> QED
  BY <1>2, <1>3 DEF Remains, Stored

\* The steps of a run that read nothing it relies on.
LEMMA VacantSteps ==
    ASSUME upd \in UpdateRun,
           \/ FinishUpdate \/ FetchError \/ RejectContent \/ ImportRefused
           \/ ReactivateRefused \/ RecordAudit \/ Crash \/ TimerUpdate
           \/ \E s \in Sources : ReadSource(s)
           \/ \E todo \in SUBSET Sources : CommandUpdate(todo)
    PROVE  upd'.pc \notin ReadSteps /\ UNCHANGED <<state, gens>>
<1>1. UNCHANGED <<state, gens>>
  BY DEF FinishUpdate, FetchError, RejectContent, ImportRefused, ReactivateRefused,
         RecordAudit, Crash, TimerUpdate, ReadSource, CommandUpdate, StartRun
<1>2. upd'.pc \in {"idle", "next", "state", "fail", "audit"}
  <2>1. CASE FinishUpdate \/ ImportRefused \/ Crash
    BY <2>1 DEF FinishUpdate, ImportRefused, Crash, Abandon, NoRun
  <2>2. CASE FetchError \/ RejectContent
    BY <2>2 DEF FetchError, RejectContent, Goto, UpdateRun
  <2>3. CASE ReactivateRefused
    <3>1. NoRun.pc = "idle"
      BY DEF NoRun
    <3> QED
      BY <2>3, <3>1 DEF ReactivateRefused, Goto, Abandon, UpdateRun
  <2>4. CASE RecordAudit \/ TimerUpdate \/ \E todo \in SUBSET Sources : CommandUpdate(todo)
    BY <2>4 DEF RecordAudit, TimerUpdate, CommandUpdate, NextInLoop, StartRun, NoRun
  <2>5. CASE \E s \in Sources : ReadSource(s)
    BY <2>5 DEF ReadSource, NoRun
  <2> QED
    BY <2>1, <2>2, <2>3, <2>4, <2>5
<1> QED
  BY <1>1, <1>2 DEF ReadSteps

LEMMA OnceInductive ==
    ASSUME NoRollback, IntegrityInv, OnceInv, [Next]_vars
    PROVE  OnceInv'
<1>0. upd \in UpdateRun /\ RunTyped
  BY DEF IntegrityInv, TypeInv, TypeOK
<1>1. CASE UNCHANGED vars
  BY <1>0, <1>1, UnchangedRemains, RemainsOnce DEF vars
<1>2. CASE \E u \in Urls, c \in Contents : Publish(u, c)
  BY <1>0, <1>2, UnchangedRemains, RemainsOnce DEF Publish
<1>3. ASSUME NEW s \in Sources, Rollback(s) PROVE FALSE
  BY <1>3 DEF Rollback, Command, NoRollback
<1>4. ASSUME NEW s \in Sources, NEW u \in Urls, NEW on \in BOOLEAN,
             AddSource(s, u, on) \/ UpdateFetchSettings(s, u) \/ SetEnabled(s, on)
      PROVE  OnceInv'
  BY <1>0, <1>4, EditRemains, RemainsOnce
<1>5. ASSUME NEW s \in Sources, NEW on \in BOOLEAN, SetEnabled(s, on) PROVE OnceInv'
  <2>1. source[s].url \in Urls
    BY DEF IntegrityInv, TypeInv, TypeOK, SourceRow
  <2> QED
    BY <1>4, <1>5, <2>1
<1>6. ASSUME NEW s \in Sources, NEW u \in Urls, UpdateFetchSettings(s, u) PROVE OnceInv'
  <2>1. TRUE \in BOOLEAN
    OBVIOUS
  <2> QED
    BY <1>4, <1>6, <2>1
<1>7. ASSUME NEW s \in Sources, RemoveSource(s) PROVE OnceInv'
  BY <1>0, <1>7, RemoveRemains, RemainsOnce
<1>8. CASE MarkNotModified \/ MarkFailed
  BY <1>8, MarkRemains, VacantOnce
<1>9. CASE \/ FinishUpdate \/ FetchError \/ RejectContent \/ ImportRefused
           \/ ReactivateRefused \/ RecordAudit \/ Crash \/ TimerUpdate
           \/ \E s \in Sources : ReadSource(s)
           \/ \E todo \in SUBSET Sources : CommandUpdate(todo)
  BY <1>0, <1>9, VacantSteps, UnchangedRemains, VacantOnce
<1> QED
  BY <1>1, <1>2, <1>3, <1>4, <1>5, <1>6, <1>7, <1>8, <1>9,
     ReadingOnce, SwitchOnce
  DEF Next, RunStep, OperatorStep

\* Without a rollback no sequence of failed, killed, refused and repeated updates,
\* with the source edited, removed and added again, stores a payload twice.
THEOREM PayloadsAreStoredOnce ==
    ASSUME NoRollback
    PROVE  Spec => []PayloadStoredOnce
<1>1. Init => OnceInv
  BY DEF Init, NoRun, NoGeneration, OnceInv, SeenIsActive, ImportIsNew, ReadSteps,
         PayloadStoredOnce, Stored
<1>2. IntegrityInv /\ OnceInv /\ [Next]_vars => OnceInv'
  BY OnceInductive
<1>3. OnceInv => PayloadStoredOnce
  BY DEF OnceInv
<1> QED
  BY <1>1, <1>2, <1>3, IntegrityHolds, PTL DEF Spec

-----------------------------------------------------------------------------
(* A 304 is resolved to the payload its validator names, on three conditions *)
(* of which the code needs each: nobody rolls back, no run dies (between an   *)
(* activation and its audit row), and no two URLs use the same validator (an  *)
(* edit of the URL during an update).  Then validator, hash, remote           *)
(* generation and audit trail all name the active generation.                 *)

ValidatorsNameUrls ==
    \A u, v \in Urls, c, d \in Contents :
        ValidatorOf[<<u, c>>] = ValidatorOf[<<v, d>>]
            => u = v \/ ValidatorOf[<<u, c>>] = None

\* The validator e was sent with the payload c, if any was.
Names(e, c) == e = None \/ \E u \in Urls : ValidatorOf[<<u, c>>] = e

NothingWithoutActive ==
    \A s \in Sources, g \in GenIds : Stored(s, g) => state[s].active # None

StateNamesActive ==
    \A s \in Sources : state[s].active # None =>
        /\ state[s].remote = state[s].active
        /\ state[s].sha = gens[state[s].active].sha
        /\ Names(state[s].etag, gens[state[s].active].sha)

Newest(s, i) ==
    /\ IsValidRemote(s, audit[s][i])
    /\ \A j \in 1..Len(audit[s]) : i < j => ~IsValidRemote(s, audit[s][j])

\* Activated, but not recorded yet.
Unrecorded(s) == upd.pc = "audit" /\ upd.http = "ok" /\ upd.ok /\ upd.src = s

AuditNamesActive ==
    \A s \in Sources : ~Unrecorded(s) =>
        \A i \in 1..Len(audit[s]) : Newest(s, i) => audit[s][i] = state[s].active

StoreNames == NothingWithoutActive /\ StateNamesActive /\ AuditNamesActive

\* The same of what the run carries, unless its source has been removed since.
SeenNamesActive ==
    upd.pc \in ReadSteps /\ state[upd.src].active # None =>
        /\ upd.seen.remote = upd.seen.active
        /\ upd.seen.sha = gens[upd.seen.active].sha
        /\ Names(upd.seen.etag, gens[upd.seen.active].sha)

AnswerNamesActive ==
    upd.pc = "resolve" /\ state[upd.src].active # None =>
        ValidatorOf[<<upd.url, gens[upd.seen.active].sha>>] = upd.seen.etag

NotModifiedTarget ==
    /\ upd.pc \in {"mark", "reactivate"}
    /\ upd.http = "not modified"
    /\ gens[upd.target].status # "absent"
    => /\ upd.pc = "mark"
       /\ upd.target = state[upd.src].active
       /\ ValidatorOf[<<upd.url, gens[upd.target].sha>>] = upd.seen.etag

ContentTarget ==
    /\ upd.pc \in {"mark", "reactivate"} => upd.http \in {"ok", "not modified"}
    /\ upd.pc = "mark" /\ upd.http = "ok" /\ state[upd.src].active # None
          => upd.target = state[upd.src].active /\ gens[upd.target].sha = upd.content
    /\ upd.pc = "reactivate" /\ upd.http = "ok" /\ gens[upd.target].status # "absent"
          => gens[upd.target].sha = upd.content

DoneTarget ==
    upd.pc = "audit" /\ upd.ok /\ state[upd.src].active # None
        => upd.target = state[upd.src].active

RunNames ==
    SeenNamesActive /\ AnswerNamesActive /\ NotModifiedTarget /\ ContentTarget /\ DoneTarget

NamesInv == IntegrityInv /\ OnceInv /\ StoreNames /\ RunNames

\* What a run has read of a source that still serves something is what it serves.
LEMMA SeenFacts ==
    ASSUME NamesInv, upd.pc \in ReadSteps, state[upd.src].active # None
    PROVE  /\ upd.src \in Sources
           /\ upd.seen.active = state[upd.src].active
           /\ state[upd.src].active \in GenIds
           /\ gens[state[upd.src].active].status = "active"
           /\ gens[state[upd.src].active].source = upd.src
           /\ IsValidRemote(upd.src, state[upd.src].active)
<1> USE DEF NamesInv, IntegrityInv, TypeInv
<1>1. upd.src \in Sources
  BY DEF ReadSteps, RunTyped
<1>2. upd.seen.active = state[upd.src].active
  BY DEF OnceInv, SeenIsActive
<1>3. IsValidRemote(upd.src, state[upd.src].active)
  BY <1>1 DEF StoreInv, StateRowDescribesGenerations
<1> QED
  BY <1>1, <1>2, <1>3, ActiveFacts

\* The audit query answers with the active generation, or nothing.
LEMMA LatestIsActive ==
    ASSUME AuditNamesActive, NEW s \in Sources, ~Unrecorded(s)
    PROVE  LatestRemote(s) \in {None, state[s].active}
<1>1. CASE \E i \in 1..Len(audit[s]) : Newest(s, i)
  <2> DEFINE k == CHOOSE i \in 1..Len(audit[s]) : Newest(s, i)
  <2>1. k \in 1..Len(audit[s]) /\ Newest(s, k)
    BY <1>1
  <2>2. LatestRemote(s) = audit[s][k]
    BY <1>1 DEF LatestRemote, Newest
  <2> HIDE DEF k
  <2> QED
    BY <2>1, <2>2 DEF AuditNamesActive
<1>2. CASE ~\E i \in 1..Len(audit[s]) : Newest(s, i)
  BY <1>2 DEF LatestRemote, Newest
<1> QED
  BY <1>1, <1>2

\* So a 304 is never taken for anything but the active generation.
LEMMA ResolvesToActive ==
    ASSUME NamesInv, upd.pc = "resolve",
           NEW g \in ResolveRemote(upd.src, upd.seen), g # None
    PROVE  g = state[upd.src].active /\ g = upd.seen.active
<1> USE DEF NamesInv
<1>1. upd.src \in Sources /\ upd.seen \in StateRow
  BY DEF IntegrityInv, TypeInv, TypeOK, RunTyped, UpdateRun
<1>2. IsValidRemote(upd.src, g)
  BY <1>1, ResolvedIsValid
<1>3. state[upd.src].active # None
  BY <1>1, <1>2 DEF StoreNames, NothingWithoutActive, IsValidRemote
<1>4. upd.pc \in ReadSteps
  BY DEF ReadSteps
<1> DEFINE a == state[upd.src].active
<1>5. upd.seen.active = a /\ IsValidRemote(upd.src, a)
  BY <1>3, <1>4, SeenFacts
<1>6. upd.seen.remote = a /\ upd.seen.sha = gens[a].sha
  BY <1>3, <1>4, <1>5 DEF RunNames, SeenNamesActive
<1>7. LatestRemote(upd.src) \in {None, a}
  BY <1>1, LatestIsActive DEF StoreNames, Unrecorded
<1>8. ResolveRemote(upd.src, upd.seen) = {a}
  <2> HIDE DEF a, NamesInv
  <2> QED
    BY <1>5, <1>6, <1>7 DEF ResolveRemote
<1> QED
  BY <1>5, <1>8

-----------------------------------------------------------------------------
(* The steps.                                                                *)

\* Steps that leave the tables alone, other than the last of a run.
LEMMA SameStore ==
    ASSUME StoreNames, UNCHANGED <<state, gens, audit>>,
           upd' = upd \/ upd.pc # "audit"
    PROVE  StoreNames'
<1>1. \A s, g : /\ Stored(s, g)' <=> Stored(s, g)
                /\ IsValidRemote(s, g)' <=> IsValidRemote(s, g)
  BY DEF Stored, IsValidRemote
<1>2. NothingWithoutActive' /\ StateNamesActive'
  BY <1>1 DEF StoreNames, NothingWithoutActive, StateNamesActive
<1>3. AuditNamesActive'
  BY <1>1 DEF StoreNames, AuditNamesActive, Newest, Unrecorded
<1> QED
  BY <1>2, <1>3 DEF StoreNames

\* A run between sources, or one that ends without a success, claims nothing.
LEMMA VacantNames ==
    ASSUME upd'.pc \notin ReadSteps, upd'.pc = "audit" => ~upd'.ok
    PROVE  RunNames'
BY DEF RunNames, SeenNamesActive, AnswerNamesActive, NotModifiedTarget, ContentTarget,
       DoneTarget, ReadSteps

\* Commands that edit the rows of a source; an edit of the URL drops its validator.
LEMMA EditNames ==
    ASSUME NamesInv, gens' = gens, audit' = audit, upd' = upd,
           \A t \in Sources :
              /\ state'[t].active = state[t].active
              /\ state'[t].remote = state[t].remote
              /\ state'[t].sha = state[t].sha
              /\ state'[t].etag \in {None, state[t].etag}
    PROVE  StoreNames' /\ RunNames'
<1> USE DEF NamesInv
<1>1. \A s, g : /\ Stored(s, g)' <=> Stored(s, g)
                /\ IsValidRemote(s, g)' <=> IsValidRemote(s, g)
  BY DEF Stored, IsValidRemote
<1>2. NothingWithoutActive' /\ StateNamesActive'
  BY <1>1 DEF StoreNames, NothingWithoutActive, StateNamesActive, Names
<1>3. AuditNamesActive'
  BY <1>1 DEF StoreNames, AuditNamesActive, Newest, Unrecorded
<1>4. upd.pc \in ReadSteps \cup {"audit"} => upd.src \in Sources
  BY DEF IntegrityInv, TypeInv, RunTyped, ReadSteps
<1>5. RunNames'
  BY <1>4 DEF RunNames, SeenNamesActive, AnswerNamesActive, NotModifiedTarget,
              ContentTarget, DoneTarget, ReadSteps
<1> QED
  BY <1>2, <1>3, <1>5 DEF StoreNames

LEMMA CommandNames ==
    ASSUME NamesInv, NEW s \in Sources, NEW u \in Urls, NEW on \in BOOLEAN,
           AddSource(s, u, on) \/ UpdateFetchSettings(s, u) \/ SetEnabled(s, on)
    PROVE  StoreNames' /\ RunNames'
<1> USE DEF NamesInv, IntegrityInv, TypeInv
<1>1. StateOf(s) = state[s] /\ state[s] \in StateRow
  BY DEF StateOf, StoreInv, RemovedSourcesAreEmpty, TypeOK
<1>2. gens' = gens /\ audit' = audit /\ upd' = upd
  BY DEF AddSource, UpdateFetchSettings, SetEnabled
<1>3. CASE AddSource(s, u, on) \/ SetEnabled(s, on)
  <2>1. \A t \in Sources : state'[t] = state[t]
    BY <1>1, <1>3 DEF AddSource, SetEnabled, TypeOK
  <2> QED
    BY <1>2, <2>1, EditNames
<1>4. CASE UpdateFetchSettings(s, u)
  <2> DEFINE row == [state[s] EXCEPT !.etag = None]
  <2>1. /\ row.active = state[s].active /\ row.remote = state[s].remote
        /\ row.sha = state[s].sha /\ row.etag = None
    BY <1>1 DEF StateRow
  <2>2. state' = [state EXCEPT ![s] = row]
    BY <1>4 DEF UpdateFetchSettings
  <2>3. \A t \in Sources : state'[t] = IF t = s THEN row ELSE state[t]
    BY <2>2 DEF TypeOK
  <2> HIDE DEF row, NamesInv
  <2> QED
    BY <1>2, <2>1, <2>3, EditNames
<1> QED
  BY <1>3, <1>4

\* A removal takes everything that could be named.
LEMMA RemoveNames ==
    ASSUME NamesInv, NEW s \in Sources, RemoveSource(s)
    PROVE  StoreNames' /\ RunNames'
<1> USE DEF NamesInv, IntegrityInv, TypeInv
<1>1. /\ \A g \in GenIds : gens'[g] = IF gens[g].source = s THEN NoGeneration ELSE gens[g]
      /\ \A t \in Sources : state'[t] = IF t = s THEN EmptyState ELSE state[t]
      /\ audit' = audit /\ upd' = upd
  BY DEF RemoveSource, TypeOK
<1>2. NoGeneration.status = "absent" /\ EmptyState.active = None
  BY DEF NoGeneration, EmptyState
<1>3. ASSUME NEW t \in Sources, NEW g \in GenIds
      PROVE  Stored(t, g)' <=> t # s /\ Stored(t, g)
  BY <1>1, <1>2 DEF Stored
<1>4. ASSUME NEW t \in Sources, NEW g
      PROVE  IsValidRemote(t, g)' <=> t # s /\ IsValidRemote(t, g)
  <2>1. CASE g \in GenIds /\ Stored(t, g) /\ t # s
    BY <1>1, <1>3, <2>1 DEF IsValidRemote, Stored
  <2>2. CASE ~(g \in GenIds /\ Stored(t, g) /\ t # s)
    BY <1>3, <2>2 DEF IsValidRemote
  <2> QED
    BY <2>1, <2>2
<1>5. NothingWithoutActive'
  BY <1>1, <1>3 DEF StoreNames, NothingWithoutActive
<1>6. ASSUME NEW t \in Sources, t # s, state[t].active # None
      PROVE  state[t].active \in GenIds /\ gens'[state[t].active] = gens[state[t].active]
  BY <1>1, <1>6, ActiveFacts
<1>7. StateNamesActive'
  BY <1>1, <1>2, <1>6 DEF StoreNames, StateNamesActive
<1>8. AuditNamesActive'
  <2> SUFFICES ASSUME NEW t \in Sources, ~Unrecorded(t)', NEW i \in 1..Len(audit[t]),
                      Newest(t, i)'
               PROVE  audit[t][i] = state'[t].active
    BY <1>1 DEF AuditNamesActive
  <2>1. t # s
    BY <1>4 DEF Newest
  <2>2. Newest(t, i)
    BY <1>1, <1>4, <2>1 DEF Newest
  <2>3. ~Unrecorded(t)
    BY <1>1 DEF Unrecorded
  <2> QED
    BY <1>1, <2>1, <2>2, <2>3 DEF StoreNames, AuditNamesActive
<1>9. upd.pc \in ReadSteps \cup {"audit"} => upd.src \in Sources
  BY DEF RunTyped, ReadSteps
<1>10. SeenNamesActive' /\ AnswerNamesActive'
  <2> SUFFICES ASSUME upd.pc \in ReadSteps, state'[upd.src].active # None
               PROVE  /\ upd.seen.remote = upd.seen.active
                      /\ upd.seen.sha = gens'[upd.seen.active].sha
                      /\ Names(upd.seen.etag, gens'[upd.seen.active].sha)
                      /\ upd.pc = "resolve" =>
                            ValidatorOf[<<upd.url, gens'[upd.seen.active].sha>>] = upd.seen.etag
    BY <1>1 DEF SeenNamesActive, AnswerNamesActive, ReadSteps
  <2>1. upd.src # s /\ state[upd.src].active # None
    BY <1>1, <1>2, <1>9
  <2>2. gens'[upd.seen.active] = gens[upd.seen.active]
    BY <1>6, <1>9, <2>1, SeenFacts
  <2> QED
    BY <2>1, <2>2 DEF RunNames, SeenNamesActive, AnswerNamesActive
<1>11. NotModifiedTarget' /\ ContentTarget'
  <2>1. upd.pc \in {"mark", "reactivate"} => upd.target \in GenIds /\ upd.src \in Sources
    BY DEF RunTyped
  <2>2. ASSUME upd.pc \in {"mark", "reactivate"}, gens'[upd.target].status # "absent"
        PROVE  gens'[upd.target] = gens[upd.target] /\ gens[upd.target].source # s
    BY <1>1, <1>2, <2>1, <2>2
  <2>3. NotModifiedTarget'
    <3> SUFFICES ASSUME upd.pc \in {"mark", "reactivate"}, upd.http = "not modified",
                        gens'[upd.target].status # "absent"
                 PROVE  /\ upd.pc = "mark"
                        /\ upd.target = state'[upd.src].active
                        /\ ValidatorOf[<<upd.url, gens'[upd.target].sha>>] = upd.seen.etag
      BY <1>1 DEF NotModifiedTarget
    <3>0. gens[upd.target].status # "absent"
      BY <2>2
    <3>1. /\ upd.pc = "mark"
          /\ upd.target = state[upd.src].active
          /\ ValidatorOf[<<upd.url, gens[upd.target].sha>>] = upd.seen.etag
      BY <3>0 DEF RunNames, NotModifiedTarget
    <3>2. upd.target # None
      BY <2>1, NoneAssumption
    <3>3. upd.src # s
      <4>1. upd.src \in Sources /\ state[upd.src].active # None
        BY <2>1, <3>1, <3>2
      <4>2. gens[state[upd.src].active].source = upd.src
        BY <4>1, ActiveFacts DEF IntegrityInv, TypeInv
      <4>3. gens[upd.target].source # s
        BY <2>2
      <4> QED
        BY <3>1, <4>2, <4>3
    <3> QED
      BY <1>1, <2>1, <2>2, <3>1, <3>3
  <2>4. ContentTarget'
    <3>1. ASSUME upd.pc = "mark", upd.http = "ok", state'[upd.src].active # None
          PROVE  upd.target = state'[upd.src].active /\ gens'[upd.target].sha = upd.content
      <4>1. upd.src # s /\ state'[upd.src] = state[upd.src]
        BY <1>1, <1>2, <2>1, <3>1
      <4>2. upd.target = state[upd.src].active /\ gens[upd.target].sha = upd.content
        BY <3>1, <4>1 DEF RunNames, ContentTarget
      <4> QED
        BY <1>6, <2>1, <3>1, <4>1, <4>2
    <3>2. ASSUME upd.pc = "reactivate", upd.http = "ok", gens'[upd.target].status # "absent"
          PROVE  gens'[upd.target].sha = upd.content
      BY <2>2, <3>2 DEF RunNames, ContentTarget
    <3>3. upd.pc \in {"mark", "reactivate"} => upd.http \in {"ok", "not modified"}
      BY DEF RunNames, ContentTarget
    <3> QED
      BY <1>1, <3>1, <3>2, <3>3 DEF ContentTarget
  <2> QED
    BY <2>3, <2>4
<1>12. DoneTarget'
  BY <1>1, <1>2, <1>9 DEF RunNames, DoneTarget
<1> QED
  BY <1>5, <1>7, <1>8, <1>10, <1>11, <1>12 DEF StoreNames, RunNames

\* A run goes on with what it has read.
LEMMA SeenStays ==
    ASSUME NamesInv, UNCHANGED <<state, gens, audit>>, upd.pc \in ReadSteps,
           upd'.src = upd.src, upd'.seen = upd.seen
    PROVE  StoreNames' /\ SeenNamesActive'
<1>1. StoreNames'
  BY SameStore DEF NamesInv, ReadSteps
<1>2. SeenNamesActive'
  BY DEF NamesInv, RunNames, SeenNamesActive
<1> QED
  BY <1>1, <1>2

LEMMA FetchNames ==
    ASSUME ValidatorsNameUrls, NamesInv, ReadState \/ FetchNotModified \/ FetchContent
    PROVE  StoreNames' /\ RunNames'
<1> USE DEF NamesInv
<1>0. /\ upd \in UpdateRun /\ upd.src \in Sources /\ upd.url \in Urls
      /\ UNCHANGED <<state, gens, audit>> /\ remote \in [Urls -> Contents]
  BY DEF IntegrityInv, TypeInv, TypeOK, RunTyped, ReadState, FetchNotModified, FetchContent
<1>1. CASE ReadState
  <2>1. upd'.pc = "fetch" /\ upd'.src = upd.src /\ upd'.seen = StateOf(upd.src)
    BY <1>0, <1>1 DEF ReadState, UpdateRun
  <2>2. state[upd.src].active # None => StateOf(upd.src) = state[upd.src]
    BY <1>0, ActiveFacts DEF IntegrityInv, TypeInv
  <2>3. SeenNamesActive'
    BY <1>0, <2>1, <2>2 DEF SeenNamesActive, StoreNames, StateNamesActive
  <2>4. AnswerNamesActive' /\ NotModifiedTarget' /\ ContentTarget' /\ DoneTarget'
    BY <2>1 DEF AnswerNamesActive, NotModifiedTarget, ContentTarget, DoneTarget
  <2>5. StoreNames'
    BY <1>0, <1>1, SameStore DEF ReadState
  <2> QED
    BY <2>3, <2>4, <2>5 DEF RunNames
<1>2. CASE FetchNotModified
  <2>1. /\ upd'.pc = "resolve" /\ upd'.src = upd.src /\ upd'.seen = upd.seen
        /\ upd'.url = upd.url /\ upd.pc = "fetch" /\ upd.pc \in ReadSteps
    BY <1>0, <1>2 DEF FetchNotModified, UpdateRun, ReadSteps
  <2>2. ASSUME state[upd.src].active # None
        PROVE  ValidatorOf[<<upd.url, gens[upd.seen.active].sha>>] = upd.seen.etag
    <3>1. Names(upd.seen.etag, gens[upd.seen.active].sha)
      BY <2>1, <2>2 DEF RunNames, SeenNamesActive
    <3>2. upd.seen.etag # None /\ upd.seen.etag = ValidatorOf[<<upd.url, remote[upd.url]>>]
      BY <1>2 DEF FetchNotModified, ServerValidator
    <3>3. PICK u \in Urls : ValidatorOf[<<u, gens[upd.seen.active].sha>>] = upd.seen.etag
      BY <3>1, <3>2 DEF Names
    <3>4. gens[upd.seen.active].sha \in Contents /\ remote[upd.url] \in Contents
      <4>1. upd.seen.active \in GenIds /\ gens[upd.seen.active].status = "active"
        BY <2>1, <2>2, SeenFacts
      <4>2. gens[upd.seen.active].sha # None
        BY <4>1 DEF IntegrityInv, StoreInv, StoredRowsAreWhole
      <4>3. gens[upd.seen.active] \in GenRow
        BY <4>1 DEF IntegrityInv, TypeInv, TypeOK
      <4> QED
        BY <1>0, <4>2, <4>3 DEF GenRow
    <3>5. u = upd.url
      BY <1>0, <3>2, <3>3, <3>4 DEF ValidatorsNameUrls
    <3> QED
      BY <3>3, <3>5
  <2>3. AnswerNamesActive'
    BY <1>0, <2>1, <2>2 DEF AnswerNamesActive
  <2>4. NotModifiedTarget' /\ ContentTarget' /\ DoneTarget'
    BY <2>1 DEF NotModifiedTarget, ContentTarget, DoneTarget
  <2> QED
    BY <1>0, <2>1, <2>3, <2>4, SeenStays DEF RunNames
<1>3. CASE FetchContent
  <2>1. /\ upd'.pc = "compare" /\ upd'.src = upd.src /\ upd'.seen = upd.seen
        /\ upd.pc \in ReadSteps
    BY <1>0, <1>3 DEF FetchContent, UpdateRun, ReadSteps
  <2>2. AnswerNamesActive' /\ NotModifiedTarget' /\ ContentTarget' /\ DoneTarget'
    BY <2>1 DEF AnswerNamesActive, NotModifiedTarget, ContentTarget, DoneTarget
  <2> QED
    BY <1>0, <2>1, <2>2, SeenStays DEF RunNames
<1> QED
  BY <1>1, <1>2, <1>3

\* What a 304 is taken for is the active generation, and holds the payload.
LEMMA ResolveNames ==
    ASSUME NamesInv, Resolve
    PROVE  StoreNames' /\ RunNames'
<1> USE DEF NamesInv
<1>0. /\ upd \in UpdateRun /\ upd.src \in Sources /\ upd.pc = "resolve"
      /\ upd.http = "not modified" /\ ~upd.ok /\ UNCHANGED <<state, gens, audit>>
  BY DEF IntegrityInv, TypeInv, TypeOK, RunTyped, Resolve
<1>1. PICK g \in ResolveRemote(upd.src, upd.seen) :
        upd' = [upd EXCEPT !.target = g,
                           !.pc = IF g = None THEN "audit"
                                  ELSE IF upd.seen.active \notin {None, g}
                                  THEN "reactivate"
                                  ELSE "mark"]
  BY DEF Resolve
<1>2. /\ upd'.src = upd.src /\ upd'.seen = upd.seen /\ upd'.url = upd.url
      /\ upd'.http = upd.http /\ upd'.target = g /\ upd'.ok = upd.ok
      /\ upd'.pc = IF g = None THEN "audit"
                   ELSE IF upd.seen.active \notin {None, g} THEN "reactivate" ELSE "mark"
  BY <1>0, <1>1 DEF UpdateRun
<1>3. StoreNames' /\ SeenNamesActive'
  BY <1>0, <1>2, SeenStays DEF ReadSteps
<1>4. CASE g = None
  <2>1. upd'.pc = "audit"
    BY <1>2, <1>4
  <2> QED
    BY <1>0, <1>2, <1>3, <2>1, VacantNames DEF ReadSteps
<1>5. CASE g # None
  <2>1. g = state[upd.src].active /\ g = upd.seen.active
    BY <1>0, <1>5, ResolvesToActive
  <2>2. upd'.pc = "mark"
    BY <1>2, <1>5, <2>1
  <2>3. ValidatorOf[<<upd.url, gens[g].sha>>] = upd.seen.etag
    BY <1>0, <1>5, <2>1 DEF RunNames, AnswerNamesActive
  <2>4. NotModifiedTarget'
    BY <1>0, <1>2, <2>1, <2>2, <2>3 DEF NotModifiedTarget
  <2>5. AnswerNamesActive' /\ ContentTarget' /\ DoneTarget'
    BY <1>0, <1>2, <2>2 DEF AnswerNamesActive, ContentTarget, DoneTarget
  <2> QED
    BY <1>3, <2>4, <2>5 DEF RunNames
<1> QED
  BY <1>4, <1>5

LEMMA CompareNames ==
    ASSUME NamesInv, CompareContent
    PROVE  StoreNames' /\ RunNames'
<1> USE DEF NamesInv
<1>0. /\ upd \in UpdateRun /\ upd.src \in Sources /\ upd.pc = "compare"
      /\ upd.http = "ok" /\ UNCHANGED <<state, gens, audit>> /\ upd.pc \in ReadSteps
  BY DEF IntegrityInv, TypeInv, TypeOK, RunTyped, CompareContent, ReadSteps
<1>1. CASE ContentIsActive /\ upd' = [upd EXCEPT !.pc = "mark", !.target = upd.seen.active]
  <2>1. /\ upd'.pc = "mark" /\ upd'.target = upd.seen.active /\ upd'.src = upd.src
        /\ upd'.http = "ok" /\ upd'.content = upd.content /\ upd'.seen = upd.seen
    BY <1>0, <1>1 DEF UpdateRun
  <2>2. gens[upd.seen.active].sha = upd.content
    BY <1>1 DEF ContentIsActive
  <2>3. state[upd.src].active # None => upd.seen.active = state[upd.src].active
    BY <1>0, SeenFacts
  <2>4. ContentTarget'
    BY <1>0, <2>1, <2>2, <2>3 DEF ContentTarget
  <2>5. AnswerNamesActive' /\ NotModifiedTarget' /\ DoneTarget'
    BY <2>1 DEF AnswerNamesActive, NotModifiedTarget, DoneTarget
  <2> QED
    BY <1>0, <2>1, <2>4, <2>5, SeenStays DEF RunNames
<1>2. ASSUME NEW g \in Reusable(upd.src, upd.content),
             upd' = [upd EXCEPT !.pc = "reactivate", !.target = g]
      PROVE  StoreNames' /\ RunNames'
  <2>1. /\ upd'.pc = "reactivate" /\ upd'.target = g /\ upd'.src = upd.src
        /\ upd'.http = "ok" /\ upd'.content = upd.content /\ upd'.seen = upd.seen
    BY <1>0, <1>2 DEF UpdateRun
  <2>2. gens[g].sha = upd.content
    BY <1>2 DEF Reusable
  <2>3. ContentTarget'
    BY <1>0, <2>1, <2>2 DEF ContentTarget
  <2>4. AnswerNamesActive' /\ NotModifiedTarget' /\ DoneTarget'
    BY <2>1 DEF AnswerNamesActive, NotModifiedTarget, DoneTarget
  <2> QED
    BY <1>0, <2>1, <2>3, <2>4, SeenStays DEF RunNames
<1>3. CASE Goto("import")
  <2>1. upd'.pc = "import" /\ upd'.src = upd.src /\ upd'.seen = upd.seen
    BY <1>0, <1>3 DEF Goto, UpdateRun
  <2>2. AnswerNamesActive' /\ NotModifiedTarget' /\ ContentTarget' /\ DoneTarget'
    BY <2>1 DEF AnswerNamesActive, NotModifiedTarget, ContentTarget, DoneTarget
  <2> QED
    BY <1>0, <2>1, <2>2, SeenStays DEF RunNames
<1> QED
  BY <1>1, <1>2, <1>3 DEF CompareContent

\* Import and reactivation: only an HTTP 200 reactivates, and every row is written
\* from the one response.
LEMMA SwitchNames ==
    ASSUME NamesInv, ImportGeneration \/ Reactivate
    PROVE  StoreNames' /\ RunNames'
<1> USE DEF NamesInv
<1>0. upd.src \in Sources /\ upd.url \in Urls /\ upd.pc # "audit" /\ audit' = audit
  BY DEF IntegrityInv, TypeInv, RunTyped, ImportGeneration, Reactivate
<1>1. PICK g \in GenIds : RunSwitches(g, upd.content) /\ upd.http = "ok"
  <2>1. CASE ImportGeneration
    BY <2>1, ImportSwitches DEF ImportGeneration, IntegrityInv, TypeInv, RunTyped
  <2>2. CASE Reactivate
    <3>1. upd.target \in GenIds /\ Stored(upd.src, upd.target) /\ upd.pc = "reactivate"
          /\ RunSwitches(upd.target, gens[upd.target].sha)
      BY <2>2, ReactivateSwitches DEF Reactivate
    <3>2. upd.http = "ok"
      BY <3>1 DEF RunNames, NotModifiedTarget, ContentTarget, Stored
    <3>3. gens[upd.target].sha = upd.content
      BY <3>1, <3>2 DEF RunNames, ContentTarget, Stored
    <3> QED
      BY <3>1, <3>2, <3>3
  <2> QED
    BY <2>1, <2>2
<1>2. ResponseValidator = ValidatorOf[<<upd.url, upd.content>>]
  BY <1>1 DEF ResponseValidator
<1>3. g # None
  BY NoneAssumption
<1>4. ASSUME NEW t \in Sources, t # upd.src, NEW h
      PROVE  /\ h \in GenIds => (Stored(t, h)' <=> Stored(t, h))
             /\ IsValidRemote(t, h)' <=> IsValidRemote(t, h)
  BY <1>1, <1>4 DEF RunSwitches, KeptRow, Stored, IsValidRemote
<1>5. NothingWithoutActive'
  <2> SUFFICES ASSUME NEW t \in Sources, NEW h \in GenIds, Stored(t, h)'
               PROVE  state'[t].active # None
    BY DEF NothingWithoutActive
  <2>1. CASE t = upd.src
    BY <1>1, <1>3, <2>1 DEF RunSwitches
  <2>2. CASE t # upd.src
    BY <1>1, <1>4, <2>2 DEF RunSwitches, StoreNames, NothingWithoutActive
  <2> QED
    BY <2>1, <2>2
<1>6. StateNamesActive'
  <2> SUFFICES ASSUME NEW t \in Sources, state'[t].active # None
               PROVE  /\ state'[t].remote = state'[t].active
                      /\ state'[t].sha = gens'[state'[t].active].sha
                      /\ Names(state'[t].etag, gens'[state'[t].active].sha)
    BY DEF StateNamesActive
  <2>1. CASE t = upd.src
    BY <1>0, <1>1, <1>2, <2>1 DEF RunSwitches, Names
  <2>2. CASE t # upd.src
    <3>1. state'[t] = state[t]
      BY <1>1, <2>2 DEF RunSwitches
    <3>2. /\ state[t].active \in GenIds /\ gens[state[t].active].source = t
          /\ gens[state[t].active].status = "active"
      BY <3>1, ActiveFacts DEF IntegrityInv, TypeInv
    <3>3. gens'[state[t].active].sha = gens[state[t].active].sha
      BY <1>1, <2>2, <3>2 DEF RunSwitches, KeptRow
    <3> QED
      BY <3>1, <3>3 DEF StoreNames, StateNamesActive
  <2> QED
    BY <2>1, <2>2
<1>7. AnswerNamesActive' /\ NotModifiedTarget' /\ ContentTarget' /\ SeenNamesActive'
  BY <1>1 DEF RunSwitches, AnswerNamesActive, NotModifiedTarget, ContentTarget,
              SeenNamesActive, ReadSteps
<1>8. DoneTarget'
  BY <1>1 DEF RunSwitches, DoneTarget
<1>9. upd'.ok
  BY DEF ImportGeneration, Reactivate, IntegrityInv, TypeInv, TypeOK, UpdateRun
<1>10. AuditNamesActive'
  <2> SUFFICES ASSUME NEW t \in Sources, ~Unrecorded(t)', NEW i \in 1..Len(audit[t]),
                      Newest(t, i)'
               PROVE  audit[t][i] = state'[t].active
    BY <1>0 DEF AuditNamesActive
  <2>1. t # upd.src
    BY <1>1, <1>9 DEF RunSwitches, Unrecorded
  <2>2. Newest(t, i)
    BY <1>0, <1>4, <2>1 DEF Newest
  <2>3. audit[t][i] = state[t].active
    BY <1>0, <2>2 DEF StoreNames, AuditNamesActive, Unrecorded
  <2> QED
    BY <1>1, <2>1, <2>3 DEF RunSwitches
<1> QED
  BY <1>5, <1>6, <1>7, <1>8, <1>10 DEF StoreNames, RunNames

\* Validators and remote generation are those of the active generation again.
LEMMA MarkNames ==
    ASSUME NamesInv, MarkNotModified
    PROVE  StoreNames' /\ RunNames'
<1> USE DEF NamesInv
<1>0. /\ upd \in UpdateRun /\ upd.src \in Sources /\ upd.url \in Urls /\ upd.pc = "mark"
      /\ state[upd.src] \in StateRow /\ state \in [Sources -> StateRow]
      /\ upd.pc \in ReadSteps
  BY DEF IntegrityInv, TypeInv, TypeOK, RunTyped, MarkNotModified, ReadSteps
<1> DEFINE s   == upd.src
           row == NotModifiedRow(state[s])
<1>1. gens' = gens /\ audit' = audit /\ upd' = [upd EXCEPT !.pc = "audit", !.ok = TRUE]
  BY DEF MarkNotModified
<1>2. /\ row.active = state[s].active /\ row.sha = state[s].sha /\ row.remote = upd.target
      /\ row.etag = IF ResponseValidator = None THEN state[s].etag ELSE ResponseValidator
  BY <1>0 DEF NotModifiedRow, StateRow
<1>3. /\ \A t \in Sources \ {s} : state'[t] = state[t]
      /\ state'[s] \in {row, state[s]}
  BY <1>0 DEF MarkNotModified
<1>4. ASSUME state[s].active # None
      PROVE  /\ upd.target = state[s].active
             /\ ResponseValidator = ValidatorOf[<<upd.url, gens[upd.target].sha>>]
  <2>1. IsValidRemote(s, upd.target)
    BY <1>0, <1>4 DEF IntegrityInv, RunPrepared
  <2>2. gens[upd.target].status # "absent"
    BY <2>1 DEF IsValidRemote, Stored
  <2>3. CASE upd.http = "not modified"
    <3>1. /\ upd.target = state[upd.src].active
          /\ ValidatorOf[<<upd.url, gens[upd.target].sha>>] = upd.seen.etag
      BY <1>0, <2>2, <2>3 DEF RunNames, NotModifiedTarget
    <3> QED
      BY <2>3, <3>1 DEF ResponseValidator
  <2>4. CASE upd.http = "ok"
    BY <1>0, <1>4, <2>4 DEF RunNames, ContentTarget, ResponseValidator
  <2> QED
    BY <1>0, <2>3, <2>4 DEF RunNames, ContentTarget
<1>5. \A t, g : /\ Stored(t, g)' <=> Stored(t, g)
                /\ IsValidRemote(t, g)' <=> IsValidRemote(t, g)
  BY <1>1 DEF Stored, IsValidRemote
<1>6. \A t \in Sources : state'[t].active = state[t].active
  BY <1>2, <1>3
<1>7. NothingWithoutActive'
  BY <1>5, <1>6 DEF StoreNames, NothingWithoutActive
<1>8. ASSUME state[s].active # None
      PROVE  /\ row.remote = row.active /\ row.sha = gens[row.active].sha
             /\ Names(row.etag, gens[row.active].sha)
  <2>1. state[s].sha = gens[state[s].active].sha
        /\ Names(state[s].etag, gens[state[s].active].sha)
    BY <1>0, <1>8 DEF StoreNames, StateNamesActive
  <2>2. ResponseValidator # None => Names(ResponseValidator, gens[state[s].active].sha)
    BY <1>0, <1>4, <1>8 DEF Names
  <2> HIDE DEF row, s
  <2> QED
    BY <1>2, <1>4, <1>8, <2>1, <2>2
<1>9. StateNamesActive'
  <2> SUFFICES ASSUME NEW t \in Sources, state'[t].active # None
               PROVE  /\ state'[t].remote = state'[t].active
                      /\ state'[t].sha = gens[state'[t].active].sha
                      /\ Names(state'[t].etag, gens[state'[t].active].sha)
    BY <1>1 DEF StateNamesActive
  <2>1. state[t].active # None
    BY <1>6
  <2>2. CASE state'[t] = state[t]
    BY <2>1, <2>2 DEF StoreNames, StateNamesActive
  <2>3. CASE t = s /\ state'[t] = row
    <3> HIDE DEF row, s
    <3> QED
      BY <1>8, <2>1, <2>3
  <2> QED
    BY <1>3, <2>2, <2>3
<1>10. AuditNamesActive'
  BY <1>0, <1>1, <1>5, <1>6 DEF StoreNames, AuditNamesActive, Newest, Unrecorded
<1>11. upd'.pc = "audit" /\ upd'.target = upd.target /\ upd'.src = upd.src
  BY <1>0, <1>1 DEF UpdateRun
<1>12. DoneTarget'
  BY <1>0, <1>4, <1>6, <1>11 DEF DoneTarget
<1>13. AnswerNamesActive' /\ NotModifiedTarget' /\ ContentTarget' /\ SeenNamesActive'
  BY <1>11 DEF AnswerNamesActive, NotModifiedTarget, ContentTarget, SeenNamesActive, ReadSteps
<1> QED
  BY <1>7, <1>9, <1>10, <1>12, <1>13 DEF StoreNames, RunNames

LEMMA FailedNames ==
    ASSUME NamesInv, MarkFailed
    PROVE  StoreNames' /\ RunNames'
<1> USE DEF NamesInv
<1>0. /\ upd \in UpdateRun /\ upd.src \in Sources /\ upd.pc = "fail" /\ ~upd.ok
      /\ state[upd.src] \in StateRow /\ state \in [Sources -> StateRow]
  BY DEF IntegrityInv, TypeInv, TypeOK, RunTyped, MarkFailed
<1>1. gens' = gens /\ audit' = audit
  BY DEF MarkFailed
<1> DEFINE row == FailedRow(state[upd.src])
<1>2. /\ row.active = state[upd.src].active /\ row.sha = state[upd.src].sha
      /\ row.remote = state[upd.src].remote /\ row.etag = state[upd.src].etag
  BY <1>0 DEF FailedRow, StateRow
<1>3. \A t \in Sources : state'[t] = state[t] \/ (t = upd.src /\ state'[t] = row)
  BY <1>0 DEF MarkFailed
<1> HIDE DEF row
<1>4. \A t \in Sources :
        /\ state'[t].active = state[t].active
        /\ state'[t].remote = state[t].remote
        /\ state'[t].sha = state[t].sha
        /\ state'[t].etag = state[t].etag
  BY <1>2, <1>3
<1>5. \A t, g : /\ Stored(t, g)' <=> Stored(t, g)
                /\ IsValidRemote(t, g)' <=> IsValidRemote(t, g)
  BY <1>1 DEF Stored, IsValidRemote
<1>6. NothingWithoutActive' /\ StateNamesActive'
  BY <1>1, <1>4, <1>5 DEF StoreNames, NothingWithoutActive, StateNamesActive
<1>7. AuditNamesActive'
  BY <1>0, <1>1, <1>4, <1>5 DEF StoreNames, AuditNamesActive, Newest, Unrecorded
<1>8. upd'.pc \in {"audit", "idle"} /\ ~upd'.ok
  <2>1. NoRun.pc = "idle" /\ ~NoRun.ok
    BY DEF NoRun
  <2>2. upd' = [upd EXCEPT !.pc = "audit", !.http = "none"] \/ upd' = NoRun
    BY DEF MarkFailed, Abandon
  <2> QED
    BY <1>0, <2>1, <2>2 DEF UpdateRun
<1> QED
  BY <1>6, <1>7, <1>8, VacantNames DEF StoreNames, ReadSteps

\* The audit row that was missing is written; from now on it is the newest.
LEMMA AuditNames ==
    ASSUME NamesInv, RecordAudit
    PROVE  StoreNames' /\ RunNames'
<1> USE DEF NamesInv
<1>0. /\ upd \in UpdateRun /\ upd.src \in Sources /\ upd.pc = "audit"
      /\ UNCHANGED <<state, gens>> /\ audit \in [Sources -> Seq(GenIds)]
  BY DEF IntegrityInv, TypeInv, TypeOK, RunTyped, RecordAudit
<1>1. upd'.pc = "next"
  BY DEF RecordAudit, NextInLoop, NoRun
<1>2. RunNames'
  BY <1>1, VacantNames DEF ReadSteps
<1>3. \A t, g : /\ Stored(t, g)' <=> Stored(t, g)
                /\ IsValidRemote(t, g)' <=> IsValidRemote(t, g)
  BY <1>0 DEF Stored, IsValidRemote
<1>4. NothingWithoutActive' /\ StateNamesActive'
  BY <1>0, <1>3 DEF StoreNames, NothingWithoutActive, StateNamesActive
<1>5. AuditNamesActive'
  <2> SUFFICES ASSUME NEW t \in Sources, NEW i \in 1..Len(audit'[t]), Newest(t, i)'
               PROVE  audit'[t][i] = state[t].active
    BY <1>0 DEF AuditNamesActive
  <2>1. CASE ~Unrecorded(t)
    <3>1. audit'[t] = audit[t]
      BY <1>0, <2>1 DEF RecordAudit, AuditOk, Unrecorded
    <3> QED
      BY <1>3, <2>1, <3>1 DEF Newest, StoreNames, AuditNamesActive
  <2>2. CASE Unrecorded(t)
    <3>1. t = upd.src /\ upd.ok /\ upd.target \in GenIds /\ audit' = AuditOk(t, upd.target)
      BY <2>2 DEF Unrecorded, RecordAudit, IntegrityInv, TypeInv, RunTyped
    <3>2. Len(audit'[t]) \in Nat \ {0} /\ audit'[t][Len(audit'[t])] = upd.target
      <4>1. audit[t] \in Seq(GenIds)
        BY <1>0
      <4>2. CASE audit[t] # <<>> /\ audit[t][Len(audit[t])] = upd.target
        BY <3>1, <4>1, <4>2 DEF AuditOk
      <4>3. CASE ~(audit[t] # <<>> /\ audit[t][Len(audit[t])] = upd.target)
        <5>1. audit'[t] = Append(audit[t], upd.target)
          BY <1>0, <3>1, <4>3 DEF AuditOk
        <5> QED
          BY <4>1, <5>1
      <4> QED
        BY <4>2, <4>3
    <3>3. state[t].active # None
      BY <1>3 DEF Newest, StoreNames, NothingWithoutActive, IsValidRemote
    <3>4. upd.target = state[t].active
      BY <1>0, <3>1, <3>3 DEF RunNames, DoneTarget
    <3>5. IsValidRemote(t, upd.target)
      BY <3>3, <3>4 DEF IntegrityInv, StoreInv, StateRowDescribesGenerations
    <3>6. i = Len(audit'[t])
      BY <1>3, <3>2, <3>5 DEF Newest
    <3> QED
      BY <3>2, <3>4, <3>6
  <2> QED
    BY <2>1, <2>2
<1> QED
  BY <1>2, <1>4, <1>5 DEF StoreNames

\* The steps of a run that write nothing and claim nothing.
LEMMA QuietNames ==
    ASSUME NamesInv,
           \/ FinishUpdate \/ FetchError \/ RejectContent \/ ImportRefused
           \/ ReactivateRefused \/ TimerUpdate
           \/ \E s \in Sources : ReadSource(s)
           \/ \E todo \in SUBSET Sources : CommandUpdate(todo)
    PROVE  StoreNames' /\ RunNames'
<1>0. upd \in UpdateRun /\ upd.pc # "audit" /\ ~upd.ok
  BY DEF NamesInv, IntegrityInv, TypeInv, TypeOK, RunTyped, FinishUpdate, FetchError,
         RejectContent, ImportRefused, ReactivateRefused, TimerUpdate, ReadSource,
         CommandUpdate, StartRun
<1>1. upd'.pc \notin ReadSteps /\ UNCHANGED <<state, gens>>
  BY <1>0, VacantSteps
<1>2. audit' = audit
  BY DEF FinishUpdate, FetchError, RejectContent, ImportRefused, ReactivateRefused,
         TimerUpdate, ReadSource, CommandUpdate, StartRun
<1>3. ~upd'.ok
  <2>1. ~NoRun.ok
    BY DEF NoRun
  <2>2. \A step : Goto(step) => ~upd'.ok
    BY <1>0 DEF Goto, UpdateRun
  <2>3. CASE FinishUpdate \/ FetchError \/ RejectContent \/ ImportRefused \/ ReactivateRefused
    BY <2>1, <2>2, <2>3 DEF FinishUpdate, FetchError, RejectContent, ImportRefused,
                            ReactivateRefused, Abandon
  <2>4. CASE TimerUpdate \/ \E todo \in SUBSET Sources : CommandUpdate(todo)
    BY <2>4 DEF TimerUpdate, CommandUpdate, StartRun, NoRun
  <2>5. CASE \E s \in Sources : ReadSource(s)
    BY <2>5 DEF ReadSource, NoRun
  <2> QED
    BY <2>3, <2>4, <2>5
<1> QED
  BY <1>0, <1>1, <1>2, <1>3, SameStore, VacantNames DEF NamesInv

\* Nothing changes but what servers offer, or a counter.
LEMMA StutterNames ==
    ASSUME NamesInv, UNCHANGED <<state, gens, audit, upd>>
    PROVE  StoreNames' /\ RunNames'
BY EditNames

LEMMA NamesInductive ==
    ASSUME NoRollback, MaxCrashes = 0, ValidatorsNameUrls, NamesInv, [Next]_vars
    PROVE  NamesInv'
<1>1. IntegrityInv'
  BY IntegrityInductive DEF NamesInv
<1>2. OnceInv'
  BY OnceInductive DEF NamesInv
<1>3. ASSUME Crash PROVE FALSE
  <2>1. spent.crash \in Nat
    BY DEF NamesInv, IntegrityInv, TypeInv, TypeOK, Counters
  <2>2. spent.crash < 0
    BY <1>3 DEF Crash
  <2> QED
    BY <2>1, <2>2
<1>4. ASSUME NEW s \in Sources, Rollback(s) PROVE FALSE
  BY <1>4 DEF Rollback, Command, NoRollback
<1>5. ASSUME UNCHANGED vars PROVE StoreNames' /\ RunNames'
  BY <1>5, StutterNames DEF vars
<1>6. ASSUME NEW u \in Urls, NEW c \in Contents, Publish(u, c)
      PROVE  StoreNames' /\ RunNames'
  BY <1>6, StutterNames DEF Publish
<1>7. ASSUME NEW s \in Sources, NEW on \in BOOLEAN, SetEnabled(s, on)
      PROVE  StoreNames' /\ RunNames'
  <2>1. source[s].url \in Urls
    BY DEF NamesInv, IntegrityInv, TypeInv, TypeOK, SourceRow
  <2> QED
    BY <1>7, <2>1, CommandNames
<1>8. ASSUME NEW s \in Sources, NEW u \in Urls, UpdateFetchSettings(s, u)
      PROVE  StoreNames' /\ RunNames'
  <2>1. TRUE \in BOOLEAN
    OBVIOUS
  <2> QED
    BY <1>8, <2>1, CommandNames
<1>9. StoreNames' /\ RunNames'
  BY <1>3, <1>4, <1>5, <1>6, <1>7, <1>8, CommandNames, RemoveNames, FetchNames,
     ResolveNames, CompareNames, SwitchNames, MarkNames, FailedNames, AuditNames,
     QuietNames
  DEF Next, RunStep, OperatorStep
<1> QED
  BY <1>1, <1>2, <1>9 DEF NamesInv

\* On these conditions a 304 is taken for the payload its validator was sent with,
\* for any sources, URLs, failing requests, edits, removals and additions.
THEOREM NotModifiedIsUnderstood ==
    ASSUME NoRollback, MaxCrashes = 0, ValidatorsNameUrls
    PROVE  Spec => []NotModifiedMeansValidatedPayload
<1>1. Init => NamesInv
  <2> SUFFICES ASSUME Init PROVE NamesInv
    OBVIOUS
  <2>1. IntegrityInv
    BY InitType, InitStore DEF IntegrityInv
  <2>2. OnceInv
    BY DEF Init, NoRun, NoGeneration, OnceInv, SeenIsActive, ImportIsNew, ReadSteps,
           PayloadStoredOnce, Stored
  <2>3. StoreNames
    BY DEF Init, NoGeneration, EmptyState, StoreNames, NothingWithoutActive,
           StateNamesActive, AuditNamesActive, Stored
  <2>4. RunNames
    BY DEF Init, NoRun, RunNames, SeenNamesActive, AnswerNamesActive, NotModifiedTarget,
           ContentTarget, DoneTarget, ReadSteps
  <2> QED
    BY <2>1, <2>2, <2>3, <2>4 DEF NamesInv
<1>2. NamesInv /\ [Next]_vars => NamesInv'
  BY NamesInductive
<1>3. NamesInv => NotModifiedMeansValidatedPayload
  BY DEF NamesInv, RunNames, NotModifiedTarget, NotModifiedMeansValidatedPayload
<1> QED
  BY <1>1, <1>2, <1>3, PTL DEF Spec

=============================================================================
