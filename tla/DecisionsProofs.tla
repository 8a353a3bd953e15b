--------------------------- MODULE DecisionsProofs ---------------------------
(* Theorems about Decisions, for every number of analyzers, every limit and   *)
(* cooldown, every profile of a domain and whatever the model answers.        *)
EXTENDS Decisions, FiniteSetTheorems, WellFoundedInduction, TLAPS

-----------------------------------------------------------------------------
(* The gate *)

\* An analyzer that has found no cooldown and has not called yet.
Passing(p) == call[p].pc \in {"window", "calls", "start", "zero", "take"}

Pcs == {"out", "enter", "window", "calls", "start", "zero", "take", "generate", "punish", "done"}

Results == {"none"} \cup Unasked \cup Unanswered \cup DOMAIN Answers

\* Without the bounds of the type invariant.
CallRecord == [pc : Pcs, lag : Int, expired : BOOLEAN, calls : Nat, result : Results]

GateInv ==
    /\ cooldown \in Int
    /\ hot \in [Analyzers -> {0, 1}]
    /\ call \in [Analyzers -> CallRecord]
    /\ windowCalls \in Nat
    /\ cooldown <= 0 => \A p \in Analyzers : hot[p] = 0
    /\ \A p \in Analyzers : Passing(p) => hot[p] = 0

LEMMA BoundsTyped == Cooldown \in Nat /\ MaxMishaps \in Nat /\ MaxLag \in Nat
BY GateAssumption, GateBounds

\* What is in a call, at a step of the gate.
At(c, pc) == c \in CallRecord /\ c.pc = pc

LEMMA ReachedTyped ==
    \A pc \in Pcs, n \in Nat, r \in Results : At(Reached(pc, n, r), pc)
BY DEF Reached, At, CallRecord

LEMMA StageTyped == (\A pc \in Pcs : At(Stage(pc), pc)) /\ At(NoCall, "out")
<1>1. "none" \in Results /\ "out" \in Pcs
  BY DEF Results, Pcs
<1> QED
  BY <1>1, ReachedTyped DEF Stage, NoCall

LEMMA FinishedTyped ==
    ASSUME NEW p, NEW r \in Results
    PROVE  /\ At(Finished(p, r), "out") \/ At(Finished(p, r), "done")
           /\ At(With(p, "punish", r), "punish")
<1>1. "none" \in Results /\ {"punish", "done"} \subseteq Pcs
  BY DEF Results, Pcs
<1>2. ASSUME NEW pc \in Pcs PROVE At(With(p, pc, r), pc)
  BY <1>1, ReachedTyped DEF With
<1> QED
  BY <1>1, <1>2, StageTyped DEF Finished

LEMMA ResultsTyped ==
    /\ Unanswered \cup DOMAIN Answers \subseteq Results
    /\ {"ai_disabled", "ai_cooldown", "ai_rate_limited"} \subseteq Results
BY DEF Results, Unasked

LEMMA GateInvInit == Init => GateInv
<1> SUFFICES ASSUME Init PROVE GateInv
  OBVIOUS
<1>1. cooldown \in Int
  BY BoundsTyped DEF Init
<1>2. /\ hot = [p \in Analyzers |-> 0] /\ call = [p \in Analyzers |-> NoCall] /\ windowCalls = 0
  BY DEF Init
<1> QED
  BY <1>1, <1>2, StageTyped DEF GateInv, Passing, At

\* A step of one analyzer that starts no cooldown and begins no call.
LEMMA CallStep ==
    ASSUME GateInv, NEW p \in Analyzers, NEW c \in CallRecord, call' = [call EXCEPT ![p] = c],
           UNCHANGED <<cooldown, hot>>, windowCalls' \in Nat,
           c.pc \in {"window", "calls", "start", "zero", "take"} => Passing(p) \/ cooldown <= 0
    PROVE  GateInv'
<1>1. call' \in [Analyzers -> CallRecord] /\ call'[p] = c
      /\ \A q \in Analyzers : q # p => call'[q] = call[q]
  BY DEF GateInv
<1> QED
  BY <1>1 DEF GateInv, Passing

LEMMA GateStepKeeps ==
    ASSUME GateInv, NEW p \in Analyzers, GateStep(p)
    PROVE  GateInv'
<1>1. /\ call[p] \in CallRecord /\ cooldown \in Int /\ hot \in [Analyzers -> {0, 1}]
      /\ call \in [Analyzers -> CallRecord] /\ windowCalls \in Nat
  BY DEF GateInv
<1>2. call[p].result \in Results /\ call[p].calls \in Nat /\ "none" \in Results
  BY <1>1 DEF CallRecord, Results
<1> HIDE DEF Passing
<1>a. {"out", "window", "calls", "start", "zero", "take", "generate", "done"} \subseteq Pcs
  BY DEF Pcs
<1>3. CASE CheckCooldown(p)
  <2> DEFINE c == IF ~AIEnabled THEN Finished(p, "ai_disabled")
                  ELSE IF InCooldown THEN Finished(p, "ai_cooldown")
                  ELSE IF MaxCalls = 0 THEN Finished(p, "ai_rate_limited")
                  ELSE Stage("window")
  <2>1. call' = [call EXCEPT ![p] = c] /\ UNCHANGED <<cooldown, hot, windowCalls>>
    BY <1>3 DEF CheckCooldown, Step, gate
  <2>2. \/ At(c, "out") \/ At(c, "done")
        \/ At(c, "window") /\ ~(cooldown > 0)
    BY <1>a, StageTyped, FinishedTyped, ResultsTyped DEF InCooldown
  <2> HIDE DEF c
  <2>3. c \in CallRecord /\ (c.pc \in {"out", "done"} \/ cooldown <= 0)
    BY <1>1, <2>2 DEF At
  <2> QED
    BY <1>1, <2>1, <2>3, CallStep
<1>4. CASE ReadWindow(p)
  <2> DEFINE c == [call[p] EXCEPT !.pc = "calls", !.expired = Expired(p)]
  <2>1. call' = [call EXCEPT ![p] = c] /\ UNCHANGED <<cooldown, hot, windowCalls>> /\ Passing(p)
    BY <1>4 DEF ReadWindow, Step, gate, Passing
  <2>2. Expired(p) \in BOOLEAN
    BY DEF Expired
  <2>3. c \in CallRecord
    BY <1>1, <1>a, <2>2 DEF CallRecord
  <2> HIDE DEF c
  <2> QED
    BY <1>1, <2>1, <2>3, CallStep
<1>5. CASE ReadCalls(p)
  <2> DEFINE c == IF call[p].expired THEN [call[p] EXCEPT !.pc = "start"]
                  ELSE IF windowCalls >= MaxCalls THEN Finished(p, "ai_rate_limited")
                  ELSE Reached("take", windowCalls, "none")
  <2>1. call' = [call EXCEPT ![p] = c] /\ UNCHANGED <<cooldown, hot, windowCalls>> /\ Passing(p)
    BY <1>5 DEF ReadCalls, Step, gate, Passing
  <2>2. c \in CallRecord
    <3>1. [call[p] EXCEPT !.pc = "start"] \in CallRecord
      BY <1>1, <1>a DEF CallRecord
    <3> QED
      BY <1>1, <1>2, <1>a, <3>1, ReachedTyped, FinishedTyped, ResultsTyped DEF At
  <2> HIDE DEF c
  <2> QED
    BY <1>1, <2>1, <2>2, CallStep
<1>6. CASE StartWindow(p) \/ ZeroCalls(p)
  <2>1. PICK c \in {Stage("zero"), Stage("take")} : call' = [call EXCEPT ![p] = c]
    BY <1>6 DEF StartWindow, ZeroCalls, Step
  <2>2. c \in CallRecord
    BY <1>a, StageTyped DEF At
  <2>3. Passing(p) /\ UNCHANGED <<cooldown, hot>> /\ windowCalls' \in Nat
    BY <1>1, <1>6 DEF StartWindow, ZeroCalls, Passing
  <2> QED
    BY <1>1, <2>1, <2>2, <2>3, CallStep
<1>7. CASE TakeCall(p)
  <2> DEFINE c == Stage("generate")
  <2>1. /\ call' = [call EXCEPT ![p] = c] /\ cooldown' = cooldown /\ Passing(p)
        /\ hot' = IF cooldown > 0 THEN [hot EXCEPT ![p] = @ + 1] ELSE hot
        /\ windowCalls' = call[p].calls + 1
    BY <1>7 DEF TakeCall, Step, Passing, Reserved
  <2>2. c \in CallRecord /\ c.pc = "generate" /\ windowCalls' \in Nat
    BY <1>1, <1>2, <1>a, <2>1, StageTyped DEF At
  <2> HIDE DEF c
  <2>3. hot[p] = 0
    BY <2>1 DEF GateInv
  <2>4. hot' \in [Analyzers -> {0, 1}] /\ \A q \in Analyzers : q # p => hot'[q] = hot[q]
    BY <1>1, <2>1, <2>3
  <2>5. /\ call' \in [Analyzers -> CallRecord] /\ call'[p] = c
        /\ \A q \in Analyzers : q # p => call'[q] = call[q]
    BY <1>1, <2>1, <2>2
  <2>6. \A q \in Analyzers : call'[q].pc \in {"window", "calls", "start", "zero", "take"}
                                => hot'[q] = 0
    BY <2>2, <2>4, <2>5 DEF GateInv, Passing
  <2>7. cooldown' <= 0 => \A q \in Analyzers : hot'[q] = 0
    BY <1>1, <2>1 DEF GateInv
  <2> QED
    BY <1>1, <2>1, <2>2, <2>4, <2>5, <2>6, <2>7 DEF GateInv, Passing
<1>8. CASE Generate(p)
  <2>1. PICK result \in Unanswered \cup DOMAIN Answers :
           \/ call' = [call EXCEPT ![p] = Finished(p, result)]
           \/ call' = [call EXCEPT ![p] = With(p, "punish", result)]
    BY <1>8 DEF Generate, Step
  <2>2. PICK c \in {Finished(p, result), With(p, "punish", result)} :
           call' = [call EXCEPT ![p] = c]
    BY <2>1
  <2>3. c \in CallRecord /\ c.pc \in {"out", "done", "punish"}
    BY <2>2, FinishedTyped, ResultsTyped DEF At
  <2>4. UNCHANGED <<cooldown, hot, windowCalls>>
    BY <1>8 DEF Generate, gate
  <2> QED
    BY <1>1, <2>2, <2>3, <2>4, CallStep
<1>9. CASE StartCooldown(p)
  <2> DEFINE c == Finished(p, call[p].result)
  <2>1. call' = [call EXCEPT ![p] = c] /\ UNCHANGED windowCalls
    BY <1>9 DEF StartCooldown, Step
  <2>2. c \in CallRecord /\ c.pc \in {"out", "done"}
    BY <1>2, FinishedTyped DEF At
  <2> HIDE DEF c
  <2>3. CASE UNCHANGED <<cooldown, hot>>
    BY <1>1, <2>1, <2>2, <2>3, CallStep
  <2>4. CASE cooldown' = Cooldown /\ hot' = [q \in Analyzers |-> 0]
    <3>1. call' \in [Analyzers -> CallRecord] /\ windowCalls' \in Nat
      BY <1>1, <2>1, <2>2
    <3> QED
      BY <2>4, <3>1, BoundsTyped DEF GateInv
  <2> QED
    BY <1>9, <2>3, <2>4 DEF StartCooldown
<1> QED
  BY <1>3, <1>4, <1>5, <1>6, <1>7, <1>8, <1>9 DEF GateStep

\* Analyses and deaths.
LEMMA CallDropped ==
    ASSUME GateInv, UNCHANGED <<cooldown, hot, windowCalls>>, NEW p \in Analyzers,
           NEW c \in {NoCall, Stage("enter")},
           call' = [call EXCEPT ![p] = c] \/ UNCHANGED call
    PROVE  GateInv'
<1>1. CASE UNCHANGED call
  BY <1>1 DEF GateInv, Passing
<1>2. CASE call' = [call EXCEPT ![p] = c]
  <2>1. c \in CallRecord /\ c.pc \in {"out", "enter"}
    BY StageTyped DEF At, Pcs
  <2> QED
    BY <1>2, <2>1, CallStep DEF GateInv
<1> QED
  BY <1>1, <1>2

LEMMA GateInvNext == GateInv /\ [Next]_vars => GateInv'
<1> SUFFICES ASSUME GateInv, [Next]_vars PROVE GateInv'
  OBVIOUS
<1>2. CASE UNCHANGED vars
  BY <1>2 DEF vars, gate, GateInv, Passing
<1>3. CASE EngineStep \/ BusyDatabase
  <2>1. UNCHANGED <<cooldown, hot, windowCalls>> /\ Engine \in Analyzers
    BY <1>3 DEF EngineStep, BusyDatabase, Analyze, Collect, TakeAIEvidence, Learn, gate, Analyzers
  <2>2. \/ UNCHANGED call
        \/ call' = [call EXCEPT ![Engine] = NoCall]
        \/ call' = [call EXCEPT ![Engine] = Stage("enter")]
    BY <1>3 DEF EngineStep, BusyDatabase, Analyze, Collect, TakeAIEvidence, Learn
  <2> QED
    BY <2>1, <2>2, CallDropped
<1>4. ASSUME NEW p \in Analyzers, Enter(p) \/ Die(p)
      PROVE  GateInv'
  <2>1. /\ UNCHANGED <<cooldown, hot, windowCalls>>
        /\ \/ call' = [call EXCEPT ![p] = NoCall]
           \/ call' = [call EXCEPT ![p] = Stage("enter")]
    BY <1>4 DEF Enter, Die, Step, gate
  <2> QED
    BY <2>1, CallDropped
<1>5. CASE Tick \/ ClockBack
  <2>1. PICK d \in {1, -1} :
           call' = [p \in Analyzers |->
                      IF p \in Holding THEN [call[p] EXCEPT !.lag = @ + d] ELSE call[p]]
    <3>1. CASE Tick
      BY <3>1 DEF Tick
    <3>2. CASE ClockBack
      <4>1. call' = [p \in Analyzers |->
                       IF p \in Holding THEN [call[p] EXCEPT !.lag = @ - 1] ELSE call[p]]
        BY <3>2 DEF ClockBack
      <4>2. \A p \in Analyzers : call[p].lag \in Int
        BY DEF GateInv, CallRecord
      <4>3. \A p \in Analyzers : call[p].lag - 1 = call[p].lag + (-1)
        BY <4>2
      <4> QED
        BY <4>1, <4>3
    <3> QED
      BY <1>5, <3>1, <3>2
  <2>2. \A p \in Analyzers : call'[p] \in CallRecord /\ call'[p].pc = call[p].pc
    <3> SUFFICES ASSUME NEW p \in Analyzers
                 PROVE  call'[p] \in CallRecord /\ call'[p].pc = call[p].pc
      OBVIOUS
    <3>1. call[p] \in CallRecord
      BY DEF GateInv
    <3>2. call'[p] = [call[p] EXCEPT !.lag = @ + d] \/ call'[p] = call[p]
      BY <2>1
    <3> QED
      BY <3>1, <3>2 DEF CallRecord
  <2>3. call' \in [Analyzers -> CallRecord]
    BY <2>1, <2>2
  <2>4. cooldown' \in Int /\ windowCalls' = windowCalls
    BY <1>5, BoundsTyped DEF Tick, ClockBack, CooldownLeft, GateInv
  <2>5. /\ hot' \in [Analyzers -> {0, 1}]
        /\ \A p \in Analyzers : hot[p] = 0 => hot'[p] = 0
        /\ cooldown' <= 0 => \A p \in Analyzers : hot'[p] = 0
    <3>1. CASE Tick
      BY <2>4, <3>1 DEF Tick, GateInv
    <3>2. CASE ClockBack
      BY <3>2 DEF ClockBack, GateInv
    <3> QED
      BY <1>5, <3>1, <3>2
  <2> QED
    BY <2>2, <2>3, <2>4, <2>5 DEF GateInv, Passing
<1>6. ASSUME NEW p \in Analyzers, GateStep(p)
      PROVE  GateInv'
  BY <1>6, GateStepKeeps
<1> QED
  BY <1>2, <1>3, <1>4, <1>5, <1>6 DEF Next

-----------------------------------------------------------------------------
(* The calls of a window *)

\* Twice the calls two analyzers can still begin from a number x of calls on: one holds x
\* while the other one goes up to the limit, then writes x + 1, and so on.
TwiceLeft(x) == (MaxCalls - x) * (MaxCalls - x + 3)

LEMMA LeftInWindow ==
    /\ \A x \in 0 .. MaxCalls - 1 : TwiceLeft(x) = TwiceLeft(x + 1) + 2 * (MaxCalls - x) + 2
    /\ \A x \in 0 .. MaxCalls : /\ TwiceLeft(x) \in Nat
                                /\ TwiceLeft(x) + 2 * x + 2 * MaxCalls <= MaxCalls * (MaxCalls + 5)
    /\ \A c, e \in 0 .. MaxCalls - 1 : c < e => TwiceLeft(e) + 4 * (e - c) <= TwiceLeft(c)
    /\ MaxCalls \in Nat /\ MaxCalls * (MaxCalls + 5) \in Nat
    /\ 2 * MaxCalls <= MaxCalls * (MaxCalls + 5)
<1>0. MaxCalls \in Nat
  BY GateAssumption
<1> DEFINE M == MaxCalls
<1>1. ASSUME NEW x \in 0 .. M - 1 PROVE TwiceLeft(x) = TwiceLeft(x + 1) + 2 * (M - x) + 2
  <2>1. PICK d \in Nat : d = M - x /\ M - (x + 1) = d - 1
    BY <1>0
  <2>2. TwiceLeft(x) = d * (d + 3) /\ TwiceLeft(x + 1) = (d - 1) * (d - 1 + 3)
    BY <2>1 DEF TwiceLeft
  <2> QED
    BY <2>1, <2>2
<1>2. ASSUME NEW x \in 0 .. M PROVE TwiceLeft(x) \in Nat /\ TwiceLeft(x) + 2 * x + 2 * M <= M * (M + 5)
  <2>1. PICK d \in Nat : d = M - x /\ x = M - d /\ d <= M
    BY <1>0
  <2>2. TwiceLeft(x) = d * (d + 3)
    BY <2>1 DEF TwiceLeft
  <2>3. d * (d + 3) \in Nat
    BY <2>1
  <2>4. d * (d + 1) <= M * (M + 1)
    <3>1. d * (d + 1) <= M * (d + 1) /\ M * (d + 1) <= M * (M + 1)
      BY <1>0, <2>1
    <3> QED
      BY <1>0, <2>1, <3>1
  <2>5. d * (d + 3) = d * (d + 1) + 2 * d /\ M * (M + 5) = M * (M + 1) + 4 * M
    BY <1>0, <2>1
  <2> QED
    BY <1>0, <2>1, <2>2, <2>3, <2>4, <2>5
<1>3. ASSUME NEW c \in 0 .. M - 1, NEW e \in 0 .. M - 1, c < e
      PROVE  TwiceLeft(e) + 4 * (e - c) <= TwiceLeft(c)
  <2>1. PICK d \in Nat, n \in Nat : d = M - e /\ n = e - c /\ M - c = d + n /\ 1 <= d
    BY <1>0, <1>3
  <2>2. TwiceLeft(e) = d * (d + 3) /\ TwiceLeft(c) = (d + n) * (d + n + 3)
    BY <2>1 DEF TwiceLeft
  <2>3. (d + n) * (d + n + 3) = d * (d + 3) + 2 * (d * n) + n * n + 3 * n
    BY <2>1
  <2>4. n <= d * n /\ 0 <= n * n
    BY <2>1
  <2> QED
    BY <2>1, <2>2, <2>3, <2>4
<1>4. M * (M + 5) \in Nat /\ 2 * M <= M * (M + 5)
  BY <1>0
<1> QED
  BY <1>0, <1>1, <1>2, <1>3, <1>4

\* An analyzer with a number of calls it has read, and one that has begun a window of
\* which the old number of calls is still there.
Holds(p) == call[p].pc = "take"
Zeroing(p) == call[p].pc = "zero"

\* The numbers of calls the next reservations may start from.
Level(x) == x = windowCalls \/ \E p \in Analyzers : Holds(p) /\ x = call[p].calls

CountInv ==
    /\ made \in Nat /\ windowCalls \in 0 .. MaxCalls
    /\ \A p \in Analyzers : Passing(p) => MaxCalls > 0
    /\ \A p \in Analyzers : Holds(p) => call[p].calls \in 0 .. MaxCalls - 1
    /\ \A p, q \in Analyzers : p # q /\ Holds(p) /\ Holds(q)
                                  => windowCalls = call[p].calls \/ windowCalls = call[q].calls
    /\ \A p, q \in Analyzers : p # q /\ Zeroing(p) /\ Zeroing(q) => made = 0
    /\ (\E p \in Analyzers : Zeroing(p)) => \A x : Level(x) => made <= x
    /\ (\A p \in Analyzers : ~Zeroing(p))
          => \A x : Level(x) =>
                2 * made + TwiceLeft(x) + 2 * x <= 2 * windowCalls + MaxCalls * (MaxCalls + 5)

OneOther == Cardinality(Others) <= 1

LEMMA TwoAnalyzers ==
    ASSUME OneOther, NEW p \in Analyzers, NEW q \in Analyzers, NEW r \in Analyzers,
           p # q, p # r
    PROVE  q = r
<1>1. Others = {} \/ \E x : Others = {x}
  <2>1. IsFiniteSet(Others) /\ Cardinality(Others) \in Nat
    BY GateAssumption, FS_CardinalityType
  <2>2. CASE Cardinality(Others) = 0
    BY <2>1, <2>2, FS_EmptySet
  <2>3. CASE Cardinality(Others) = 1
    BY <2>1, <2>3, FS_Singleton
  <2> QED
    BY <2>1, <2>2, <2>3 DEF OneOther
<1> QED
  BY <1>1 DEF Analyzers

LEMMA CountInvInit == Init => CountInv
<1> SUFFICES ASSUME Init PROVE CountInv
  OBVIOUS
<1>1. /\ made = 0 /\ windowCalls = 0 /\ \A p \in Analyzers : call[p].pc = "out"
  BY StageTyped DEF Init, At
<1>2. \A p \in Analyzers : ~Passing(p) /\ ~Holds(p) /\ ~Zeroing(p)
  BY <1>1 DEF Passing, Holds, Zeroing
<1>3. 0 \in 0 .. MaxCalls
  BY LeftInWindow
<1>4. TwiceLeft(0) \in Nat /\ TwiceLeft(0) + 2 * 0 + 2 * MaxCalls <= MaxCalls * (MaxCalls + 5)
  BY <1>3, LeftInWindow
<1>5. \A x : Level(x) => 2 * made + TwiceLeft(x) + 2 * x <= 2 * windowCalls + MaxCalls * (MaxCalls + 5)
  BY <1>1, <1>2, <1>4, LeftInWindow DEF Level
<1> QED
  BY <1>1, <1>2, <1>3, <1>5 DEF CountInv

\* The other analyzers' calls stay as they are.
Alone(p) == \A q \in Analyzers : q # p =>
               call'[q].pc = call[q].pc /\ call'[q].calls = call[q].calls

\* Anything but a write: a number of calls is read or dropped, or neither.
LEMMA CountStep ==
    ASSUME OneOther, CountInv, NEW p \in Analyzers, Alone(p),
           UNCHANGED <<made, windowCalls>>,
           Passing(p)' => MaxCalls > 0,
           Zeroing(p)' => Zeroing(p),
           Holds(p)' => \/ Holds(p) /\ call'[p].calls = call[p].calls
                        \/ windowCalls < MaxCalls /\ call'[p].calls = windowCalls
    PROVE  CountInv'
<1>1. \A q \in Analyzers : q # p => /\ Holds(q)' = Holds(q) /\ Zeroing(q)' = Zeroing(q)
                                    /\ Passing(q)' = Passing(q) /\ call'[q].calls = call[q].calls
  BY DEF Alone, Holds, Zeroing, Passing
<1>2. \A x : Level(x)' => Level(x)
  BY <1>1 DEF Level
<1>3. made \in Nat /\ windowCalls \in 0 .. MaxCalls /\ windowCalls' = windowCalls /\ made' = made
  BY DEF CountInv
<1>4. \A q \in Analyzers : Passing(q)' => MaxCalls > 0
  BY <1>1 DEF CountInv
<1>5. \A q \in Analyzers : Holds(q)' => call'[q].calls \in 0 .. MaxCalls - 1
  <2>1. windowCalls < MaxCalls => windowCalls \in 0 .. MaxCalls - 1
    BY <1>3, LeftInWindow
  <2> QED
    BY <1>1, <2>1 DEF CountInv
<1>6. ASSUME NEW q \in Analyzers, NEW r \in Analyzers, q # r, Holds(q)', Holds(r)'
      PROVE  windowCalls = call'[q].calls \/ windowCalls = call'[r].calls
  <2>1. \A s \in {q, r} : \/ Holds(s) /\ call'[s].calls = call[s].calls
                          \/ call'[s].calls = windowCalls
    BY <1>1, <1>6
  <2> QED
    BY <1>6, <2>1 DEF CountInv
<1>7. ASSUME NEW q \in Analyzers, NEW r \in Analyzers, q # r, Zeroing(q)', Zeroing(r)'
      PROVE  made = 0
  BY <1>1, <1>7 DEF CountInv
<1>8. ASSUME NEW q \in Analyzers, Zeroing(q)', NEW x, Level(x)' PROVE made <= x
  <2>1. Zeroing(q) /\ Level(x)
    BY <1>1, <1>2, <1>8
  <2> QED
    BY <2>1 DEF CountInv
<1>9. ASSUME \A q \in Analyzers : ~(Zeroing(q)'), NEW x, Level(x)'
      PROVE  2 * made + TwiceLeft(x) + 2 * x <= 2 * windowCalls + MaxCalls * (MaxCalls + 5)
  <2>1. Level(x)
    BY <1>2, <1>9
  <2>2. CASE \A q \in Analyzers : ~Zeroing(q)
    BY <2>1, <2>2 DEF CountInv
  <2>3. CASE \E q \in Analyzers : Zeroing(q)
    <3>1. made <= x /\ made <= windowCalls
      BY <2>1, <2>3 DEF CountInv, Level
    <3>2. x \in 0 .. MaxCalls
      BY <1>3, <2>1, LeftInWindow DEF CountInv, Level
    <3>3. TwiceLeft(x) \in Nat /\ TwiceLeft(x) + 2 * x + 2 * MaxCalls <= MaxCalls * (MaxCalls + 5)
      BY <3>2, LeftInWindow
    <3> QED
      BY <1>3, <3>1, <3>2, <3>3, LeftInWindow
  <2> QED
    BY <2>2, <2>3
<1> QED
  BY <1>3, <1>4, <1>5, <1>6, <1>7, <1>8, <1>9 DEF CountInv

\* The start of a window, which forgets the calls made.
LEMMA StartCounts ==
    ASSUME OneOther, CountInv, NEW p \in Analyzers, Alone(p), Passing(p),
           made' = 0, windowCalls' = windowCalls, Zeroing(p)'
    PROVE  CountInv'
<1>1. \A q \in Analyzers : q # p => /\ Holds(q)' = Holds(q) /\ Zeroing(q)' = Zeroing(q)
                                    /\ Passing(q)' = Passing(q) /\ call'[q].calls = call[q].calls
  BY DEF Alone, Holds, Zeroing, Passing
<1>2. ~(Holds(p)')
  BY DEF Holds, Zeroing
<1>3. windowCalls \in 0 .. MaxCalls /\ MaxCalls \in Nat
  BY LeftInWindow DEF CountInv
<1>4. ASSUME NEW q \in Analyzers, Holds(q)' PROVE Holds(q) /\ call'[q].calls = call[q].calls
  BY <1>1, <1>2, <1>4
<1>5. \A q \in Analyzers : Holds(q)' => call'[q].calls \in 0 .. MaxCalls - 1
  BY <1>4 DEF CountInv
<1>6. \A q, r \in Analyzers : q # r /\ Holds(q)' /\ Holds(r)'
         => windowCalls' = call'[q].calls \/ windowCalls' = call'[r].calls
  BY <1>4 DEF CountInv
<1>7. \A x : Level(x)' => 0 <= x
  BY <1>3, <1>5 DEF Level
<1>8. \A q \in Analyzers : Passing(q)' => MaxCalls > 0
  BY <1>1 DEF CountInv
<1> QED
  BY <1>3, <1>5, <1>6, <1>7, <1>8 DEF CountInv

\* The number of calls of the window before goes.
LEMMA ZeroCounts ==
    ASSUME OneOther, CountInv, NEW p \in Analyzers, Alone(p), Zeroing(p),
           made' = made, windowCalls' = 0, Holds(p)', call'[p].calls = 0
    PROVE  CountInv'
<1>1. \A q \in Analyzers : q # p => /\ Holds(q)' = Holds(q) /\ Zeroing(q)' = Zeroing(q)
                                    /\ Passing(q)' = Passing(q) /\ call'[q].calls = call[q].calls
  BY DEF Alone, Holds, Zeroing, Passing
<1>2. ~(Zeroing(p)') /\ MaxCalls \in Nat /\ MaxCalls > 0
  BY LeftInWindow DEF CountInv, Holds, Zeroing, Passing
<1>3. made \in Nat /\ made <= windowCalls /\ windowCalls \in 0 .. MaxCalls
  BY DEF CountInv, Level
<1>4. \A q \in Analyzers : Holds(q)' => call'[q].calls \in 0 .. MaxCalls - 1
  BY <1>1, <1>2 DEF CountInv
<1>5. \A x : Level(x)' => x \in 0 .. MaxCalls
  BY <1>2, <1>4 DEF Level
<1>6. ASSUME NEW q \in Analyzers, NEW r \in Analyzers, q # r, Holds(q)', Holds(r)'
      PROVE  0 = call'[q].calls \/ 0 = call'[r].calls
  BY <1>6, TwoAnalyzers
<1>7. ASSUME NEW q \in Analyzers, Zeroing(q)' PROVE made = 0
  BY <1>1, <1>2, <1>7 DEF CountInv
<1>8. ASSUME NEW x, Level(x)'
      PROVE  2 * made + TwiceLeft(x) + 2 * x <= MaxCalls * (MaxCalls + 5)
  BY <1>3, <1>5, <1>8, LeftInWindow
<1>9. ASSUME NEW q \in Analyzers, NEW r \in Analyzers, q # r, Zeroing(q)', Zeroing(r)'
      PROVE  FALSE
  BY <1>2, <1>9, TwoAnalyzers
<1>10. \A q \in Analyzers : Passing(q)' => MaxCalls > 0
  BY <1>2
<1>11. (\E q \in Analyzers : Zeroing(q)') => \A x : Level(x)' => made' <= x
  BY <1>5, <1>7
<1>12. \A x : Level(x)' => 2 * made' + TwiceLeft(x) + 2 * x
                              <= 2 * windowCalls' + MaxCalls * (MaxCalls + 5)
  BY <1>3, <1>8, LeftInWindow
<1> QED
  BY <1>2, <1>3, <1>4, <1>6, <1>9, <1>10, <1>11, <1>12 DEF CountInv

\* A call begins, and the number it was reserved with is written.
LEMMA TakeCounts ==
    ASSUME OneOther, CountInv, NEW p \in Analyzers, Alone(p), Holds(p),
           made' = made + 1, windowCalls' = call[p].calls + 1, ~(Passing(p)')
    PROVE  CountInv'
<1> DEFINE c == call[p].calls
           w == windowCalls
           B == MaxCalls * (MaxCalls + 5)
<1>1. \A q \in Analyzers : q # p => /\ Holds(q)' = Holds(q) /\ Zeroing(q)' = Zeroing(q)
                                    /\ Passing(q)' = Passing(q) /\ call'[q].calls = call[q].calls
  BY DEF Alone, Holds, Zeroing, Passing
<1>2. ~(Zeroing(p)') /\ ~(Holds(p)') /\ ~Zeroing(p)
  BY DEF Holds, Zeroing, Passing
<1>3. made \in Nat /\ c \in 0 .. MaxCalls - 1 /\ w \in 0 .. MaxCalls /\ MaxCalls \in Nat /\ B \in Nat
      /\ Level(c) /\ c + 1 \in 0 .. MaxCalls
  BY LeftInWindow DEF CountInv, Level
<1>4. ASSUME NEW q \in Analyzers, Holds(q)'
      PROVE  q # p /\ Holds(q) /\ call'[q].calls = call[q].calls
  BY <1>1, <1>2, <1>4
<1>5. \A q \in Analyzers : Holds(q)' => call'[q].calls \in 0 .. MaxCalls - 1
  BY <1>4 DEF CountInv
<1>6. \A q \in Analyzers : Passing(q)' => MaxCalls > 0
  BY <1>3
<1>7. ASSUME NEW q \in Analyzers, NEW r \in Analyzers, q # p, r # p PROVE q = r
  BY <1>7, TwoAnalyzers
<1>8. ASSUME NEW q \in Analyzers, Zeroing(q)', NEW x, Level(x)' PROVE made + 1 <= x
  <2>1. q # p /\ Zeroing(q)
    BY <1>1, <1>2, <1>8
  <2>2. x = c + 1
    <3>1. \A r \in Analyzers : ~(Holds(r)')
      <4>1. ASSUME NEW r \in Analyzers, Holds(r)' PROVE FALSE
        <5>1. r = q
          BY <1>4, <1>7, <2>1, <4>1
        <5> QED
          BY <1>8, <4>1, <5>1 DEF Holds, Zeroing
      <4> QED
        BY <4>1
    <3> QED
      BY <1>8, <3>1 DEF Level
  <2>3. made <= c
    BY <1>3, <2>1 DEF CountInv
  <2> QED
    BY <1>3, <2>2, <2>3
<1>9. ASSUME \A q \in Analyzers : ~(Zeroing(q)'), NEW x, Level(x)'
      PROVE  2 * (made + 1) + TwiceLeft(x) + 2 * x <= 2 * (c + 1) + B
  <2>1. \A y : Level(y) => 2 * made + TwiceLeft(y) + 2 * y <= 2 * w + B
    <3>1. \A q \in Analyzers : ~Zeroing(q)
      BY <1>1, <1>2, <1>9
    <3> QED
      BY <3>1 DEF CountInv
  <2>2. 2 * made + TwiceLeft(c) + 2 * c <= 2 * w + B
    BY <1>3, <2>1
  <2>3. /\ TwiceLeft(c) = TwiceLeft(c + 1) + 2 * (MaxCalls - c) + 2
        /\ TwiceLeft(c) \in Nat /\ TwiceLeft(c + 1) \in Nat
    BY <1>3, LeftInWindow
  <2> HIDE DEF B, c, w
  <2>4. CASE x = c + 1
    BY <1>3, <2>2, <2>3, <2>4
  <2>5. ASSUME NEW q \in Analyzers, q # p, Holds(q), x = call[q].calls
        PROVE  2 * (made + 1) + TwiceLeft(x) + 2 * x <= 2 * (c + 1) + B
    <3>1. x \in 0 .. MaxCalls - 1 /\ Level(x) /\ (w = c \/ w = x)
      BY <2>5 DEF CountInv, Level, c, w
    <3>2. 2 * made + TwiceLeft(x) + 2 * x <= 2 * w + B /\ TwiceLeft(x) \in Nat
      BY <1>3, <2>1, <3>1, LeftInWindow
    <3>3. c < x => TwiceLeft(x) + 4 * (x - c) <= TwiceLeft(c)
      BY <1>3, <3>1, LeftInWindow
    <3> QED
      BY <1>3, <2>2, <2>3, <3>1, <3>2, <3>3
  <2>6. x = c + 1 \/ \E q \in Analyzers : q # p /\ Holds(q) /\ x = call[q].calls
    BY <1>4, <1>9 DEF Level, c
  <2> QED
    BY <2>4, <2>5, <2>6
<1>10. \A q, r \in Analyzers : q # r => ~(Holds(q)' /\ Holds(r)') /\ ~(Zeroing(q)' /\ Zeroing(r)')
  BY <1>2, <1>4, <1>7
<1> HIDE DEF B
<1>11. (\A q \in Analyzers : ~(Zeroing(q)'))
          => \A x : Level(x)' => 2 * made' + TwiceLeft(x) + 2 * x <= 2 * windowCalls' + B
  BY <1>9
<1> QED
  BY <1>3, <1>5, <1>6, <1>8, <1>10, <1>11 DEF CountInv, B

LEMMA CountGateStep ==
    ASSUME OneOther, GateInv, CountInv, NEW p \in Analyzers, GateStep(p)
    PROVE  CountInv'
<1>1. call \in [Analyzers -> CallRecord] /\ call[p] \in CallRecord /\ windowCalls \in Nat
  BY DEF GateInv
<1>2. MaxCalls \in Nat /\ \A q \in Analyzers : Passing(q) => MaxCalls > 0
  BY LeftInWindow DEF CountInv
<1>a. \A n \in Nat, pc \in Pcs : LET r == Reached(pc, n, "none") IN r.pc = pc /\ r.calls = n
  BY DEF Reached
<1>3. /\ {"out", "window", "calls", "start", "zero", "take", "generate", "done", "punish"} \subseteq Pcs
      /\ \A r \in Results : Finished(p, r).pc \in {"out", "done"}
      /\ \A r \in Results : With(p, "punish", r).pc = "punish"
      /\ \A pc \in Pcs : Stage(pc).pc = pc /\ Stage(pc).calls = 0
  BY <1>a, FinishedTyped DEF Pcs, At, Stage
<1>4. ASSUME NEW c, call' = [call EXCEPT ![p] = c] PROVE Alone(p) /\ call'[p] = c
  BY <1>1, <1>4 DEF Alone
<1>5. CASE CheckCooldown(p)
  <2> DEFINE c == IF ~AIEnabled THEN Finished(p, "ai_disabled")
                  ELSE IF InCooldown THEN Finished(p, "ai_cooldown")
                  ELSE IF MaxCalls = 0 THEN Finished(p, "ai_rate_limited")
                  ELSE Stage("window")
  <2>1. call' = [call EXCEPT ![p] = c] /\ UNCHANGED <<made, windowCalls>>
    BY <1>5 DEF CheckCooldown, Step, gate
  <2>2. c.pc \in {"out", "done"} \/ (c.pc = "window" /\ MaxCalls > 0)
    BY <1>2, <1>3, ResultsTyped
  <2> HIDE DEF c
  <2> QED
    BY <1>4, <2>1, <2>2, CountStep DEF Passing, Holds, Zeroing
<1>6. CASE ReadWindow(p)
  <2> DEFINE c == [call[p] EXCEPT !.pc = "calls", !.expired = Expired(p)]
  <2>1. call' = [call EXCEPT ![p] = c] /\ UNCHANGED <<made, windowCalls>> /\ Passing(p)
    BY <1>6 DEF ReadWindow, Step, gate, Passing
  <2>2. c.pc = "calls"
    BY <1>1 DEF CallRecord
  <2> HIDE DEF c
  <2> QED
    BY <1>2, <1>4, <2>1, <2>2, CountStep DEF Passing, Holds, Zeroing
<1>7. CASE ReadCalls(p)
  <2> DEFINE c == IF call[p].expired THEN [call[p] EXCEPT !.pc = "start"]
                  ELSE IF windowCalls >= MaxCalls THEN Finished(p, "ai_rate_limited")
                  ELSE Reached("take", windowCalls, "none")
  <2>1. call' = [call EXCEPT ![p] = c] /\ UNCHANGED <<made, windowCalls>> /\ Passing(p)
    BY <1>7 DEF ReadCalls, Step, gate, Passing
  <2>2. \/ c.pc \in {"start", "out", "done"}
        \/ c.pc = "take" /\ c.calls = windowCalls /\ windowCalls < MaxCalls
    <3>1. [call[p] EXCEPT !.pc = "start"].pc = "start"
      BY <1>1 DEF CallRecord
    <3> QED
      BY <1>1, <1>2, <1>3, <1>a, <3>1, ResultsTyped
  <2> HIDE DEF c
  <2> QED
    BY <1>2, <1>4, <2>1, <2>2, CountStep DEF Passing, Holds, Zeroing
<1>8. CASE StartWindow(p)
  <2>1. /\ call' = [call EXCEPT ![p] = Stage("zero")] /\ made' = 0 /\ windowCalls' = windowCalls
        /\ Passing(p)
    BY <1>8 DEF StartWindow, Step, Passing
  <2> QED
    BY <1>3, <1>4, <2>1, StartCounts DEF Zeroing
<1>9. CASE ZeroCalls(p)
  <2>1. /\ call' = [call EXCEPT ![p] = Stage("take")] /\ made' = made /\ windowCalls' = 0
        /\ Zeroing(p)
    BY <1>9 DEF ZeroCalls, Step, Zeroing
  <2> QED
    BY <1>3, <1>4, <2>1, ZeroCounts, ZenonT(60) DEF Holds
<1>10. CASE TakeCall(p)
  <2>1. /\ call' = [call EXCEPT ![p] = Stage("generate")] /\ made' = made + 1
        /\ windowCalls' = call[p].calls + 1 /\ Holds(p)
    BY <1>10 DEF TakeCall, Step, Holds, Reserved
  <2>2. ~(Passing(p)')
    BY <1>3, <1>4, <2>1, ZenonT(60) DEF Passing
  <2> QED
    BY <1>4, <2>1, <2>2, TakeCounts
<1>11. CASE Generate(p) \/ StartCooldown(p)
  <2>1. /\ UNCHANGED <<made, windowCalls>>
        /\ \E r \in Results : \/ call' = [call EXCEPT ![p] = Finished(p, r)]
                              \/ call' = [call EXCEPT ![p] = With(p, "punish", r)]
    <3>1. CASE Generate(p)
      BY <3>1, ResultsTyped DEF Generate, Step, gate
    <3>2. CASE StartCooldown(p)
      <4>1. call[p].result \in Results
        BY <1>1 DEF CallRecord
      <4> QED
        BY <3>2, <4>1 DEF StartCooldown, Step
    <3> QED
      BY <1>11, <3>1, <3>2
  <2>2. PICK c : call' = [call EXCEPT ![p] = c] /\ c.pc \in {"out", "done", "punish"}
    BY <1>3, <2>1
  <2> QED
    BY <1>4, <2>1, <2>2, CountStep DEF Passing, Holds, Zeroing
<1> QED
  BY <1>5, <1>6, <1>7, <1>8, <1>9, <1>10, <1>11 DEF GateStep

LEMMA CountInvNext == OneOther /\ GateInv /\ CountInv /\ [Next]_vars => CountInv'
<1> SUFFICES ASSUME OneOther, GateInv, CountInv, [Next]_vars PROVE CountInv'
  OBVIOUS
<1>1. call \in [Analyzers -> CallRecord]
  BY DEF GateInv
<1>2. CASE UNCHANGED <<made, windowCalls, call>>
  BY <1>2 DEF CountInv, Level, Passing, Holds, Zeroing
<1>3. ASSUME NEW p \in Analyzers, UNCHANGED <<made, windowCalls>>,
             \/ call' = [call EXCEPT ![p] = NoCall]
             \/ call' = [call EXCEPT ![p] = Stage("enter")]
      PROVE  CountInv'
  <2>1. PICK c \in {NoCall, Stage("enter")} : call' = [call EXCEPT ![p] = c]
    BY <1>3
  <2>2. c.pc \in {"out", "enter"}
    BY <2>1, StageTyped DEF At, Pcs
  <2>3. Alone(p) /\ call'[p] = c
    BY <1>1, <2>1 DEF Alone
  <2> QED
    BY <1>3, <2>2, <2>3, CountStep DEF Passing, Holds, Zeroing
<1>4. CASE EngineStep \/ BusyDatabase
  <2>1. UNCHANGED <<made, windowCalls>> /\ Engine \in Analyzers
    BY <1>4 DEF EngineStep, BusyDatabase, Analyze, Collect, TakeAIEvidence, Learn, gate, Analyzers
  <2>2. \/ UNCHANGED call
        \/ call' = [call EXCEPT ![Engine] = NoCall]
        \/ call' = [call EXCEPT ![Engine] = Stage("enter")]
    BY <1>4 DEF EngineStep, BusyDatabase, Analyze, Collect, TakeAIEvidence, Learn
  <2> QED
    BY <1>2, <1>3, <2>1, <2>2
<1>5. ASSUME NEW p \in Analyzers, Enter(p) \/ Die(p) PROVE CountInv'
  <2>1. /\ UNCHANGED <<made, windowCalls>>
        /\ \/ call' = [call EXCEPT ![p] = NoCall]
           \/ call' = [call EXCEPT ![p] = Stage("enter")]
    BY <1>5 DEF Enter, Die, Step, gate
  <2> QED
    BY <1>3, <2>1
<1>6. CASE Tick \/ ClockBack
  <2>1. UNCHANGED <<made, windowCalls>>
    BY <1>6 DEF Tick, ClockBack
  <2>2. \A p \in Analyzers : call'[p].pc = call[p].pc /\ call'[p].calls = call[p].calls
    <3> SUFFICES ASSUME NEW p \in Analyzers
                 PROVE  call'[p].pc = call[p].pc /\ call'[p].calls = call[p].calls
      OBVIOUS
    <3>1. call[p] \in CallRecord
      BY <1>1
    <3>2. \/ call'[p] = [call[p] EXCEPT !.lag = @ + 1]
          \/ call'[p] = [call[p] EXCEPT !.lag = @ - 1]
          \/ call'[p] = call[p]
      BY <1>6 DEF Tick, ClockBack
    <3> QED
      BY <3>1, <3>2 DEF CallRecord
  <2> QED
    BY <2>1, <2>2 DEF CountInv, Level, Passing, Holds, Zeroing
<1>7. ASSUME NEW p \in Analyzers, GateStep(p) PROVE CountInv'
  BY <1>7, CountGateStep
<1> QED
  BY <1>2, <1>4, <1>5, <1>6, <1>7 DEF Next, vars, gate

-----------------------------------------------------------------------------
(* The rule of the user, and the names that come before it *)

\* An analysis has these parts, whatever they are.
Shaped(e) == e = [pc |-> e.pc, round |-> e.round, items |-> e.items, failed |-> e.failed,
                  result |-> e.result, decision |-> e.decision]

RuledAfter(failed) == \/ profile.infrastructure
                      \/ profile.rule # "none" /\ "ReputationClassifier" \notin failed
Ruled == RuledAfter(engine.failed)

FirstEvidence ==
    IF profile.infrastructure
    THEN [Item("rule-engine", "local_infrastructure", "safety", -90, 98, "infrastructure")
            EXCEPT !.precedence = 40]
    ELSE ManualRuleEvidence(profile.rule)

AsRuled(decision) ==
    /\ decision.source = IF profile.infrastructure THEN "rule-engine" ELSE "manual-rule"
    /\ decision.risk = IF ~profile.infrastructure /\ profile.rule = "block" THEN 100 ELSE 0

\* With such a name, or a rule that could be read, the model is never asked.
RuleInv ==
    /\ Shaped(engine)
    /\ profile \in Profiles
    /\ engine.pc = "ai" => ~Ruled
    /\ engine.pc = "learn" /\ Ruled => AsRuled(engine.decision)

\* The first evidence is decisive, so what follows it is skipped.
LEMMA RuleAlone ==
    ASSUME NEW failed, RuledAfter(failed)
    PROVE  Collected(failed) = {FirstEvidence} /\ Decisive(FirstEvidence)
<1> DEFINE i == FirstEvidence
<1>1. Decisive(i)
  BY DEF FirstEvidence, ManualRuleEvidence, Item, Decisive
<1>2. \/ RuleEvidence(profile) = {i}
      \/ /\ RuleEvidence(profile) = {} /\ ReputationEvidence(profile, reputation) = {i}
         /\ "ReputationClassifier" \notin failed
  <2>1. CASE profile.infrastructure
    BY <2>1 DEF RuleEvidence, FirstEvidence
  <2>2. CASE ~profile.infrastructure
    BY <2>2 DEF RuleEvidence, ReputationEvidence, RuledAfter, FirstEvidence
  <2> QED
    BY <2>1, <2>2
<1> HIDE DEF i
<1>3. Then({}, {i}) = {i} /\ \A more : Then({i}, more) = {i}
  BY <1>1 DEF Then
<1>4. Collected(failed) = {i}
  BY <1>2, <1>3 DEF Collected
<1> QED
  BY <1>1, <1>4 DEF i

LEMMA RuleOutcome ==
    ASSUME profile \in Profiles, NEW failed, RuledAfter(failed),
           NEW decision \in Decisions({FirstEvidence})
    PROVE  AsRuled(decision)
<1> DEFINE i == FirstEvidence
<1>1. /\ i.classifier = IF profile.infrastructure THEN "rule-engine" ELSE "manual-rule"
      /\ i.polarity = IF profile.infrastructure \/ profile.rule = "allow" THEN "safety" ELSE "risk"
      /\ Decisive(i)
  BY DEF FirstEvidence, ManualRuleEvidence, Item, Decisive
<1>2. profile.infrastructure \/ profile.rule \in {"allow", "block"}
  BY GateAssumption DEF Profile, RuledAfter
<1> HIDE DEF i
<1>3. {j \in {i} : Decisive(j)} = {i} /\ Strongest({i}) = i
  BY <1>1 DEF Strongest
<1>4. decision = Decision(IF i.polarity = "risk" THEN 100 ELSE 0, 10 * i.confidence,
                          i.category, i.classifier)
  BY <1>3 DEF Decisions, i
<1> QED
  BY <1>1, <1>2, <1>4 DEF Decision, AsRuled

LEMMA RuleInvInit == Init => RuleInv
BY DEF Init, RuleInv, Idle, Shaped

\* An idle engine has nothing to answer for.
LEMMA IdleKeeps ==
    ASSUME NEW n, engine' = Idle(n), profile' \in Profiles
    PROVE  RuleInv'
BY DEF Idle, RuleInv, Shaped

LEMMA CollectKeeps ==
    ASSUME RuleInv, NEW busy, Collect(busy)
    PROVE  RuleInv'
<1> DEFINE failed == Raised(busy)
           items  == Collected(failed)
           round  == [engine EXCEPT !.items = items, !.failed = failed]
<1> HIDE DEF failed, items
<1>1. profile' = profile /\ Shaped(engine) /\ profile \in Profiles
  BY DEF Collect, RuleInv
<1>2. CASE ~SkipsAI(items) /\ engine' = [round EXCEPT !.pc = "ai"]
  <2>1. engine'.pc = "ai" /\ engine'.failed = failed /\ Shaped(engine)'
    BY <1>1, <1>2 DEF Shaped
  <2>2. ~(Ruled')
    <3> SUFFICES ASSUME Ruled' PROVE FALSE
      OBVIOUS
    <3>1. items = {FirstEvidence} /\ Decisive(FirstEvidence)
      BY <1>1, <2>1, RuleAlone DEF Ruled, RuledAfter, items
    <3> QED
      BY <1>2, <3>1 DEF SkipsAI
  <2> QED
    BY <1>1, <2>1, <2>2 DEF RuleInv
<1>3. ASSUME SkipsAI(items), NEW decision \in Decisions(items),
             engine' = [round EXCEPT !.pc = "learn", !.decision = decision]
      PROVE  RuleInv'
  <2>1. /\ engine'.pc = "learn" /\ engine'.failed = failed /\ engine'.decision = decision
        /\ Shaped(engine)'
    BY <1>1, <1>3 DEF Shaped
  <2>2. ASSUME Ruled'
        PROVE  AsRuled(decision)
    <3>1. items = {FirstEvidence} /\ RuledAfter(failed)
      BY <1>1, <2>1, <2>2, RuleAlone DEF Ruled, RuledAfter, items
    <3> QED
      BY <1>1, <1>3, <3>1, RuleOutcome
  <2> QED
    BY <1>1, <2>1, <2>2 DEF RuleInv, AsRuled
<1> QED
  BY <1>2, <1>3 DEF Collect, failed, items

\* What the model adds comes after the rule was not there, or not read.
LEMMA ConcludeKeeps ==
    ASSUME RuleInv, engine.pc = "ai", profile' = profile, NEW items, NEW result, NEW failed,
           engine.failed \subseteq failed, failed \subseteq engine.failed \cup {"AIClassifier"},
           Conclude(items, result, failed)
    PROVE  RuleInv'
<1>1. PICK decision \in Decisions(items) :
         engine' = [engine EXCEPT !.pc = "learn", !.items = items, !.result = result,
                                  !.failed = failed, !.decision = decision]
  BY DEF Conclude
<1>2. engine'.pc = "learn" /\ engine'.failed = failed /\ Shaped(engine)'
  BY <1>1 DEF RuleInv, Shaped
<1>3. ~(Ruled')
  BY <1>2 DEF RuleInv, Ruled, RuledAfter
<1> QED
  BY <1>2, <1>3 DEF RuleInv

LEMMA RuleInvNext == RuleInv /\ [Next]_vars => RuleInv'
<1> SUFFICES ASSUME RuleInv, [Next]_vars PROVE RuleInv'
  OBVIOUS
<1>1. CASE UNCHANGED <<engine, profile>>
  BY <1>1 DEF RuleInv, Ruled, RuledAfter, AsRuled, Shaped
<1>2. CASE Analyze
  BY <1>2, CollectKeeps DEF Analyze
<1>3. CASE TakeAIEvidence
  <2>1. PICK items, result : Conclude(items, result, engine.failed)
    BY <1>3 DEF TakeAIEvidence
  <2> QED
    BY <1>3, <2>1, ConcludeKeeps DEF TakeAIEvidence
<1>4. CASE Learn
  BY <1>4, IdleKeeps DEF Learn, RuleInv
<1>5. CASE BusyDatabase
  <2>1. CASE \E classifier \in DatabaseReaders : Collect({classifier})
    BY <2>1, CollectKeeps
  <2>2. CASE /\ engine.pc = "ai" /\ profile' = profile
             /\ Conclude(engine.items, "none", engine.failed \cup {"AIClassifier"})
    BY <2>2, ConcludeKeeps
  <2> QED
    BY <1>5, <2>1, <2>2 DEF BusyDatabase
<1>6. ASSUME NEW p \in Analyzers, Die(p)
      PROVE  RuleInv'
  BY <1>1, <1>6, IdleKeeps DEF Die, RuleInv
<1>7. CASE Tick \/ ClockBack \/ \E p \in Analyzers : Enter(p) \/ GateStep(p)
  BY <1>1, <1>7 DEF Tick, ClockBack, Enter, GateStep, GateOnly, CheckCooldown, ReadWindow,
     ReadCalls, StartWindow, ZeroCalls, TakeCall, Generate, StartCooldown
<1> QED
  BY <1>1, <1>2, <1>3, <1>4, <1>5, <1>6, <1>7 DEF Next, EngineStep, vars

-----------------------------------------------------------------------------
(* The sum of a set.  Influence and ConfidenceSum are folds; that they do not *)
(* depend on the order of the items, and so do not change with an item of no  *)
(* weight, is shown by the smallest set for which they would.                 *)

LEMMA SmallestNumber ==
    ASSUME NEW T \in SUBSET Nat, T # {}
    PROVE  \E x \in T : \A y \in T : x <= y
<1> DEFINE R == OpToRel(<, Nat)
<1>1. PICK x \in T : \A y \in T : ~(<<y, x>> \in R)
  <2>1. IsWellFoundedOn(R, Nat)
    BY NatLessThanWellFounded
  <2> HIDE DEF R
  <2> QED
    BY <2>1, WFMin
<1>2. ASSUME NEW y \in T PROVE x <= y
  <2>1. ~(y < x)
    BY <1>1 DEF OpToRel
  <2> QED
    BY <2>1
<1> QED
  BY <1>2

Pick(s) == CHOOSE x \in s : TRUE

\* f gives the sum of the weights of every set of the family D.
Sums(w, f, D) ==
    f = [s \in D |-> IF s = {} THEN 0 ELSE w[Pick(s)] + f[s \ {Pick(s)}]]

UpTo(S, n) == {s \in SUBSET S : Cardinality(s) <= n}

\* Sets with one element less are smaller.
LEMMA OneLess ==
    ASSUME NEW S, IsFiniteSet(S), NEW s \in SUBSET S, NEW y \in s
    PROVE  /\ IsFiniteSet(s) /\ Cardinality(s) \in Nat \ {0} /\ s \ {y} \in SUBSET S
           /\ Cardinality(s \ {y}) = Cardinality(s) - 1
<1>1. IsFiniteSet(s)
  BY FS_Subset
<1>2. Cardinality(s) \in Nat /\ Cardinality(s) # 0
  BY <1>1, FS_CardinalityType, FS_EmptySet
<1>3. Cardinality(s \ {y}) = Cardinality(s) - 1
  BY <1>1, FS_RemoveElement
<1> QED
  BY <1>1, <1>2, <1>3

LEMMA SumsUpTo ==
    ASSUME NEW w, NEW S, IsFiniteSet(S), NEW n \in Nat
    PROVE  \E f : Sums(w, f, UpTo(S, n))
<1> DEFINE T == {k \in Nat : ~ \E f : Sums(w, f, UpTo(S, k))}
<1> SUFFICES ASSUME n \in T PROVE FALSE
  OBVIOUS
<1>1. PICK m \in T : \A k \in T : m <= k
  <2>1. T \in SUBSET Nat /\ T # {}
    OBVIOUS
  <2> HIDE DEF T
  <2> QED
    BY <2>1, SmallestNumber
<1>2. m \in Nat /\ ~ \E f : Sums(w, f, UpTo(S, m))
  BY <1>1
<1>3. ASSUME NEW f, m = 0 \/ Sums(w, f, UpTo(S, m - 1))
      PROVE  FALSE
  <2> DEFINE g == [s \in UpTo(S, m) |->
                     IF s = {} THEN 0 ELSE w[Pick(s)] + f[s \ {Pick(s)}]]
  <2>1. ASSUME NEW s \in UpTo(S, m), s # {}
        PROVE  g[s \ {Pick(s)}] = f[s \ {Pick(s)}]
    <3> DEFINE t == s \ {Pick(s)}
    <3>1. Pick(s) \in s /\ s \in SUBSET S /\ Cardinality(s) <= m
      BY <2>1 DEF Pick, UpTo
    <3>2. Cardinality(s) \in Nat \ {0} /\ Cardinality(t) = Cardinality(s) - 1 /\ t \in SUBSET S
      BY <3>1, OneLess
    <3>3. m # 0 /\ Cardinality(t) <= m - 1 /\ Cardinality(t) <= m
      BY <1>2, <3>1, <3>2
    <3>4. t \in UpTo(S, m - 1) /\ t \in UpTo(S, m)
      BY <3>2, <3>3 DEF UpTo
    <3>5. g[t] = IF t = {} THEN 0 ELSE w[Pick(t)] + f[t \ {Pick(t)}]
      BY <3>4
    <3>6. f[t] = IF t = {} THEN 0 ELSE w[Pick(t)] + f[t \ {Pick(t)}]
      BY <1>3, <3>3, <3>4 DEF Sums
    <3> QED
      BY <3>5, <3>6
  <2>2. g = [s \in UpTo(S, m) |-> IF s = {} THEN 0 ELSE w[Pick(s)] + g[s \ {Pick(s)}]]
    <3> DEFINE h == [s \in UpTo(S, m) |->
                       IF s = {} THEN 0 ELSE w[Pick(s)] + g[s \ {Pick(s)}]]
    <3>1. \A s \in UpTo(S, m) : g[s] = h[s]
      <4> SUFFICES ASSUME NEW s \in UpTo(S, m) PROVE g[s] = h[s]
        OBVIOUS
      <4>1. CASE s = {}
        BY <4>1
      <4>2. CASE s # {}
        <5>1. g[s] = w[Pick(s)] + f[s \ {Pick(s)}]
          BY <4>2
        <5>2. h[s] = w[Pick(s)] + g[s \ {Pick(s)}]
          BY <4>2
        <5> HIDE DEF g, h
        <5> QED
          BY <2>1, <4>2, <5>1, <5>2
      <4> QED
        BY <4>1, <4>2
    <3> QED
      BY <3>1
  <2> HIDE DEF g
  <2> QED
    BY <1>2, <2>2 DEF Sums
<1>4. CASE m = 0
  BY <1>3, <1>4
<1>5. CASE m # 0
  <2>1. m - 1 \in Nat /\ ~(m <= m - 1)
    BY <1>2, <1>5
  <2>2. m - 1 \notin T
    <3> HIDE DEF T
    <3> QED
      BY <1>1, <2>1
  <2>3. PICK f : Sums(w, f, UpTo(S, m - 1))
    BY <2>1, <2>2
  <2> QED
    BY <1>3, <2>3
<1> QED
  BY <1>4, <1>5

LEMMA SumExists ==
    ASSUME NEW w, NEW S, IsFiniteSet(S)
    PROVE  \E f : Sums(w, f, SUBSET S)
<1>1. Cardinality(S) \in Nat
  BY FS_CardinalityType
<1>2. UpTo(S, Cardinality(S)) = SUBSET S
  <2>1. \A s \in SUBSET S : Cardinality(s) <= Cardinality(S)
    BY FS_Subset
  <2> QED
    BY <2>1 DEF UpTo
<1>3. \E f : Sums(w, f, UpTo(S, Cardinality(S)))
  BY <1>1, SumsUpTo
<1> QED
  BY <1>2, <1>3

\* Any element of a set may be added last.
LEMMA AnyOrder ==
    ASSUME NEW w, NEW S, IsFiniteSet(S), NEW f, Sums(w, f, SUBSET S), \A i \in S : w[i] \in Int
    PROVE  \A s \in SUBSET S : /\ f[s] \in Int
                               /\ \A y \in s : f[s] = w[y] + f[s \ {y}]
<1> DEFINE Good(s) == f[s] \in Int /\ \A y \in s : f[s] = w[y] + f[s \ {y}]
           T == {Cardinality(s) : s \in {r \in SUBSET S : ~Good(r)}}
<1> SUFFICES ASSUME NEW r \in SUBSET S, ~Good(r) PROVE FALSE
  OBVIOUS
<1>1. \A s \in SUBSET S : IsFiniteSet(s) /\ Cardinality(s) \in Nat
  BY FS_Subset, FS_CardinalityType
<1>2. PICK s \in SUBSET S : ~Good(s) /\ \A t \in SUBSET S : ~Good(t) => Cardinality(s) <= Cardinality(t)
  <2>1. T \in SUBSET Nat /\ T # {}
    BY <1>1
  <2>2. PICK m \in T : \A k \in T : m <= k
    <3> HIDE DEF T
    <3> QED
      BY <2>1, SmallestNumber
  <2> QED
    BY <2>2
<1>3. ASSUME NEW y \in s PROVE s \ {y} \in SUBSET S /\ Good(s \ {y})
  <2>1. s \ {y} \in SUBSET S /\ Cardinality(s \ {y}) = Cardinality(s) - 1
    BY OneLess
  <2>2. ~(Cardinality(s) <= Cardinality(s \ {y}))
    BY <1>1, <2>1
  <2> HIDE DEF Good
  <2> QED
    BY <1>2, <2>1, <2>2
<1>4. f[s] = IF s = {} THEN 0 ELSE w[Pick(s)] + f[s \ {Pick(s)}]
  BY DEF Sums
<1>5. CASE s = {}
  BY <1>2, <1>4, <1>5
<1>6. CASE s # {}
  <2> DEFINE x == Pick(s)
  <2>1. x \in s
    BY <1>6 DEF Pick
  <2> HIDE DEF x
  <2>2. f[s] = w[x] + f[s \ {x}] /\ f[s \ {x}] \in Int /\ w[x] \in Int
    BY <1>3, <1>4, <1>6, <2>1 DEF x
  <2>3. ASSUME NEW y \in s PROVE f[s] = w[y] + f[s \ {y}]
    <3>1. CASE y = x
      BY <2>2, <3>1
    <3>2. CASE y # x
      <4>1. y \in s \ {x} /\ x \in s \ {y} /\ (s \ {x}) \ {y} = (s \ {y}) \ {x}
        BY <2>1, <3>2
      <4>2. f[s \ {x}] = w[y] + f[(s \ {x}) \ {y}]
        BY <1>3, <2>1, <4>1
      <4>3. f[s \ {y}] = w[x] + f[(s \ {y}) \ {x}]
        BY <1>3, <2>3, <4>1
      <4>4. f[(s \ {x}) \ {y}] \in Int /\ w[y] \in Int
        <5>1. (s \ {x}) \ {y} \in SUBSET S
          OBVIOUS
        <5>2. s \ {x} \in SUBSET S /\ Cardinality(s \ {x}) = Cardinality(s) - 1
          BY <2>1, OneLess
        <5> DEFINE u == s \ {x}
        <5>a. u \in SUBSET S /\ y \in u
          BY <4>1, <5>2
        <5> HIDE DEF u
        <5>b. Cardinality(u \ {y}) = Cardinality(u) - 1
          BY <5>a, OneLess
        <5>3. Cardinality((s \ {x}) \ {y}) = Cardinality(s \ {x}) - 1
          BY <5>b DEF u
        <5>4. ~(Cardinality(s) <= Cardinality((s \ {x}) \ {y}))
          BY <1>1, <5>2, <5>3
        <5>5. Good((s \ {x}) \ {y})
          <6> HIDE DEF Good
          <6> QED
            BY <1>2, <5>1, <5>4
        <5> QED
          BY <2>3, <5>5
      <4>5. f[(s \ {y}) \ {x}] = f[(s \ {x}) \ {y}]
        BY <4>1
      <4> QED
        BY <2>2, <4>2, <4>3, <4>4, <4>5
    <3> QED
      BY <3>1, <3>2
  <2>4. f[s] \in Int
    BY <2>2
  <2> QED
    BY <1>2, <2>3, <2>4
<1> QED
  BY <1>5, <1>6

\* The sum of a set is the same within any larger one.
LEMMA SumsAgree ==
    ASSUME NEW w, NEW f, NEW g, NEW Q, NEW C, NEW D, C = SUBSET Q, IsFiniteSet(Q), C \subseteq D,
           Sums(w, f, C), Sums(w, g, D)
    PROVE  f[Q] = g[Q]
<1> DEFINE T == {Cardinality(s) : s \in {r \in SUBSET Q : f[r] # g[r]}}
<1> SUFFICES ASSUME f[Q] # g[Q] PROVE FALSE
  OBVIOUS
<1>1. \A s \in SUBSET Q : IsFiniteSet(s) /\ Cardinality(s) \in Nat
  BY FS_Subset, FS_CardinalityType
<1>2. PICK s \in SUBSET Q : f[s] # g[s] /\ \A t \in SUBSET Q : f[t] # g[t] => Cardinality(s) <= Cardinality(t)
  <2>1. T \in SUBSET Nat /\ T # {}
    BY <1>1
  <2>2. PICK m \in T : \A k \in T : m <= k
    <3> HIDE DEF T
    <3> QED
      BY <2>1, SmallestNumber
  <2> QED
    BY <2>2
<1>3. f[s] = IF s = {} THEN 0 ELSE w[Pick(s)] + f[s \ {Pick(s)}]
  BY DEF Sums
<1>4. g[s] = IF s = {} THEN 0 ELSE w[Pick(s)] + g[s \ {Pick(s)}]
  BY DEF Sums
<1>5. s # {}
  BY <1>2, <1>3, <1>4
<1>6. Pick(s) \in s
  BY <1>5 DEF Pick
<1>7. s \ {Pick(s)} \in SUBSET Q /\ Cardinality(s \ {Pick(s)}) = Cardinality(s) - 1
  BY <1>6, OneLess
<1>8. ~(Cardinality(s) <= Cardinality(s \ {Pick(s)}))
  BY <1>1, <1>7
<1>9. f[s \ {Pick(s)}] = g[s \ {Pick(s)}]
  BY <1>2, <1>7, <1>8
<1> QED
  BY <1>2, <1>3, <1>4, <1>5, <1>9

\* The sums are those of the decision engine.
LEMMA InfluenceIsSum ==
    ASSUME NEW w, NEW S, IsFiniteSet(S), \A i \in S : w[i] = i.score * i.confidence
    PROVE  \E f : Sums(w, f, SUBSET S) /\ Influence(S) = f[S]
<1> DEFINE Raw(f) == f = [s \in SUBSET S |-> IF s = {} THEN 0
                            ELSE Pick(s).score * Pick(s).confidence + f[s \ {Pick(s)}]]
<1>1. Influence(S) = (CHOOSE f : Raw(f))[S]
  BY DEF Influence, MapThenSumSet, MapThenFoldSet, Pick
<1>2. \A s \in SUBSET S : s # {} => w[Pick(s)] = Pick(s).score * Pick(s).confidence
  BY DEF Pick
<1>3. ASSUME NEW f PROVE Raw(f) <=> Sums(w, f, SUBSET S)
  BY <1>2 DEF Sums
<1> HIDE DEF Raw
<1>4. \E f : Raw(f)
  BY <1>3, SumExists
<1>5. Raw(CHOOSE f : Raw(f))
  BY <1>4
<1> QED
  BY <1>1, <1>3, <1>5

LEMMA ConfidenceIsSum ==
    ASSUME NEW w, NEW S, IsFiniteSet(S), \A i \in S : w[i] = i.confidence
    PROVE  \E f : Sums(w, f, SUBSET S) /\ ConfidenceSum(S) = f[S]
<1> DEFINE Raw(f) == f = [s \in SUBSET S |-> IF s = {} THEN 0
                            ELSE Pick(s).confidence + f[s \ {Pick(s)}]]
<1>1. ConfidenceSum(S) = (CHOOSE f : Raw(f))[S]
  BY DEF ConfidenceSum, MapThenSumSet, MapThenFoldSet, Pick
<1>2. \A s \in SUBSET S : s # {} => w[Pick(s)] = Pick(s).confidence
  BY DEF Pick
<1>3. ASSUME NEW f PROVE Raw(f) <=> Sums(w, f, SUBSET S)
  BY <1>2 DEF Sums
<1> HIDE DEF Raw
<1>4. \E f : Raw(f)
  BY <1>3, SumExists
<1>5. Raw(CHOOSE f : Raw(f))
  BY <1>4
<1> QED
  BY <1>1, <1>3, <1>5

\* An item of evidence as any classifier gives it.
Proper(i) == i.score \in Int /\ i.confidence \in Int /\ i.precedence \in Nat

LEMMA SumsAreNumbers ==
    ASSUME NEW S, IsFiniteSet(S), \A i \in S : Proper(i)
    PROVE  Influence(S) \in Int /\ ConfidenceSum(S) \in Int
<1>1. S \in SUBSET S
  OBVIOUS
<1>2. Influence(S) \in Int
  <2> DEFINE w == [i \in S |-> i.score * i.confidence]
  <2>1. \A i \in S : w[i] = i.score * i.confidence /\ w[i] \in Int
    BY DEF Proper
  <2> HIDE DEF w
  <2>2. PICK f : Sums(w, f, SUBSET S) /\ Influence(S) = f[S]
    BY <2>1, InfluenceIsSum
  <2>3. \A i \in S : w[i] \in Int
    BY <2>1
  <2> QED
    BY <1>1, <2>2, <2>3, AnyOrder
<1>3. ConfidenceSum(S) \in Int
  <2> DEFINE w == [i \in S |-> i.confidence]
  <2>1. \A i \in S : w[i] = i.confidence /\ w[i] \in Int
    BY DEF Proper
  <2> HIDE DEF w
  <2>2. PICK f : Sums(w, f, SUBSET S) /\ ConfidenceSum(S) = f[S]
    BY <2>1, ConfidenceIsSum
  <2>3. \A i \in S : w[i] \in Int
    BY <2>1
  <2> QED
    BY <1>1, <2>2, <2>3, AnyOrder
<1> QED
  BY <1>2, <1>3

\* What the model did not say has no influence.
LEMMA NoWeightNoInfluence ==
    ASSUME NEW S, IsFiniteSet(S), \A i \in S : Proper(i),
           NEW a, a \notin S, Proper(a), a.confidence = 0
    PROVE  Influence(S \cup {a}) = Influence(S)
<1> DEFINE U == S \cup {a}
           w == [i \in U |-> i.score * i.confidence]
<1>1. IsFiniteSet(U)
  BY FS_AddElement
<1>2. \A i \in U : w[i] = i.score * i.confidence /\ w[i] \in Int
  BY DEF Proper
<1>3. a \in U /\ S = U \ {a} /\ S \subseteq U /\ w[a] = 0
  BY DEF Proper
<1> HIDE DEF U, w
<1>4. PICK f : Sums(w, f, SUBSET S) /\ Influence(S) = f[S]
  BY <1>2, <1>3, InfluenceIsSum
<1>5. PICK g : Sums(w, g, SUBSET U) /\ Influence(U) = g[U]
  BY <1>1, <1>2, InfluenceIsSum
<1>6. g[U] = w[a] + g[U \ {a}] /\ g[U \ {a}] \in Int
  <2>1. \A i \in U : w[i] \in Int
    BY <1>2
  <2>2. U \in SUBSET U /\ U \ {a} \in SUBSET U
    OBVIOUS
  <2>3. \A s \in SUBSET U : g[s] \in Int /\ \A y \in s : g[s] = w[y] + g[s \ {y}]
    BY <1>1, <1>5, <2>1, AnyOrder
  <2> QED
    BY <1>3, <2>2, <2>3
<1>7. f[S] = g[S]
  <2>1. S \subseteq U /\ Sums(w, f, SUBSET S) /\ Sums(w, g, SUBSET U)
    BY <1>3, <1>4, <1>5
  <2>2. SUBSET S \subseteq SUBSET U
    BY <2>1
  <2>3. ASSUME NEW Q, NEW C, NEW D, IsFiniteSet(Q), C = SUBSET Q, C \subseteq D,
               Sums(w, f, C), Sums(w, g, D)
        PROVE  f[Q] = g[Q]
    BY <2>3, SumsAgree
  <2>4. PICK C, D : C = SUBSET S /\ D = SUBSET U
    OBVIOUS
  <2>5. C \subseteq D /\ Sums(w, f, C) /\ Sums(w, g, D)
    BY <2>1, <2>2, <2>4
  <2> QED
    BY <2>3, <2>4, <2>5
<1>8. Influence(U) = Influence(S)
  BY <1>3, <1>4, <1>5, <1>6, <1>7
<1> QED
  BY <1>8 DEF U

-----------------------------------------------------------------------------
(* The evidence *)

Evidence(S) == IsFiniteSet(S) /\ \A i \in S : Proper(i)

\* What the classifiers before the model find.
BeforeAI(S) == Evidence(S) /\ \A i \in S : i.classifier # "ai"

LEMMA ItemProper ==
    ASSUME NEW c, NEW t, NEW p, NEW s \in Int, NEW k \in Int, NEW g
    PROVE  /\ Proper(Item(c, t, p, s, k, g)) /\ ~Decisive(Item(c, t, p, s, k, g))
           /\ Item(c, t, p, s, k, g).classifier = c /\ Item(c, t, p, s, k, g).polarity = p
BY DEF Item, Proper, Decisive, Clamp

LEMMA PreferredProper ==
    ASSUME NEW c, NEW t, NEW p, NEW s \in Int, NEW k \in Int, NEW g, NEW n \in Nat
    PROVE  /\ Proper([Item(c, t, p, s, k, g) EXCEPT !.precedence = n])
           /\ [Item(c, t, p, s, k, g) EXCEPT !.precedence = n].classifier = c
BY DEF Item, Proper, Clamp

\* One item for each member of a finite set.
LEMMA ImageFinite ==
    ASSUME NEW S, NEW f, IsFiniteSet(S)
    PROVE  IsFiniteSet({f[x] : x \in S})
<1> DEFINE T == {f[x] : x \in S}
           h == [x \in S |-> f[x]]
<1>1. h \in Surjection(S, T)
  BY DEF Surjection
<1> QED
  BY <1>1, FS_Surjection

LEMMA UnionBeforeAI ==
    ASSUME NEW S, NEW W, BeforeAI(S), BeforeAI(W)
    PROVE  BeforeAI(Then(S, W))
BY FS_Union DEF BeforeAI, Evidence, Then

LEMMA RulesBeforeAI ==
    /\ \A p : BeforeAI(RuleEvidence(p))
    /\ \A rule : BeforeAI({ManualRuleEvidence(rule)})
<1>1. ASSUME NEW p PROVE BeforeAI(RuleEvidence(p))
  <2> DEFINE i == [Item("rule-engine", "local_infrastructure", "safety", -90, 98, "infrastructure")
                     EXCEPT !.precedence = 40]
  <2>1. Proper(i) /\ i.classifier = "rule-engine"
    BY PreferredProper
  <2>2. RuleEvidence(p) = {i} \/ RuleEvidence(p) = {}
    BY DEF RuleEvidence
  <2> HIDE DEF i
  <2> QED
    BY <2>1, <2>2, FS_EmptySet, FS_Singleton DEF BeforeAI, Evidence
<1>2. ASSUME NEW rule PROVE BeforeAI({ManualRuleEvidence(rule)})
  <2>1. /\ Proper(ManualRuleEvidence(rule))
        /\ ManualRuleEvidence(rule).classifier = "manual-rule"
    BY PreferredProper, SMTT(40) DEF ManualRuleEvidence
  <2> QED
    BY <2>1, FS_Singleton DEF BeforeAI, Evidence
<1> QED
  BY <1>1, <1>2

LEMMA LearnedBeforeAI ==
    ASSUME NEW rows \in SUBSET Reputation, IsFiniteSet(rows)
    PROVE  BeforeAI({LearnedEvidence(row) : row \in rows})
<1>1. ASSUME NEW row \in Reputation
      PROVE  Proper(LearnedEvidence(row)) /\ LearnedEvidence(row).classifier # "ai"
  <2>1. row.score \in Int /\ row.confidence \in Int /\ HighRiskThreshold \in Int
    BY ThresholdAssumption DEF Reputation
  <2> DEFINE s == IF row.score > 60 THEN -60 ELSE -row.score
  <2>2. s \in Int
    BY <2>1
  <2>3. \/ LearnedEvidence(row) = Item("local-reputation", "learned_reputation", "safety", s,
                                       row.confidence, "benign")
        \/ LearnedEvidence(row) = Item("local-reputation", "learned_reputation", "risk", row.score,
                                       row.confidence, "suspicious")
    BY DEF LearnedEvidence
  <2> HIDE DEF s
  <2>4. PICK p, n, g : /\ n \in Int
                       /\ LearnedEvidence(row) = Item("local-reputation", "learned_reputation", p, n,
                                                     row.confidence, g)
    BY <2>1, <2>2, <2>3
  <2> QED
    BY <2>1, <2>4, ItemProper
<1>2. IsFiniteSet({LearnedEvidence(row) : row \in rows})
  <2> DEFINE f == [row \in rows |-> LearnedEvidence(row)]
  <2>1. IsFiniteSet({f[row] : row \in rows})
    BY ImageFinite
  <2>2. \A row \in rows : f[row] = LearnedEvidence(row)
    OBVIOUS
  <2> HIDE DEF f
  <2> QED
    BY <2>1, <2>2
<1> QED
  BY <1>1, <1>2 DEF BeforeAI, Evidence

LEMMA IntelBeforeAI ==
    ASSUME NEW p \in Profiles
    PROVE  BeforeAI(IntelEvidence(p))
<1>1. /\ \A hit \in p.hit : hit.confidence \in 0 .. 100
      /\ \A hit, other \in p.hit : hit = other
  BY GateAssumption DEF Profile
<1>2. ASSUME NEW hit \in p.hit
      PROVE  Proper(IntelItem(hit)) /\ IntelItem(hit).classifier = "threat-intel"
  <2> DEFINE s == Clamp(IF hit.fresh THEN 70 ELSE 50, hit.confidence, 100)
             g == IF hit.category \in HarmfulCategories THEN hit.category ELSE "suspicious"
             n == IF hit.confidence >= 70 /\ hit.fresh THEN 30 ELSE 1000
  <2>1. s \in Int /\ n \in Nat /\ hit.confidence \in Int
    BY <1>1 DEF Clamp
  <2>2. IntelItem(hit) = [Item("threat-intel", "feed_hit", "risk", s, hit.confidence, g)
                            EXCEPT !.precedence = n]
    BY DEF IntelItem
  <2> HIDE DEF s, g, n
  <2> QED
    BY <2>1, <2>2, PreferredProper
<1>3. IsFiniteSet({IntelItem(hit) : hit \in p.hit})
  <2>1. CASE p.hit = {}
    <3>1. {IntelItem(hit) : hit \in p.hit} = {}
      BY <2>1
    <3> QED
      BY <3>1, FS_EmptySet
  <2>2. CASE p.hit # {}
    <3>1. PICK h \in p.hit : TRUE
      BY <2>2
    <3>2. {IntelItem(hit) : hit \in p.hit} = {IntelItem(h)}
      BY <1>1, <3>1
    <3> QED
      BY <3>2, FS_Singleton
  <2> QED
    BY <2>1, <2>2
<1> QED
  BY <1>2, <1>3, FS_EmptySet DEF IntelEvidence, BeforeAI, Evidence

LEMMA HeuristicsBeforeAI ==
    ASSUME NEW p \in Profiles
    PROVE  BeforeAI(HeuristicEvidence(p))
<1>1. IsFiniteSet(DOMAIN Points)
  <2> DEFINE A == {"punycode", "long_domain", "deep_subdomain", "many_digits", "high_entropy"}
             B == {"suspicious_tld", "phishing_word", "many_hyphens", "random_label",
                   "high_query_frequency"}
  <2>1. \A a, b, c, d, e : IsFiniteSet({a, b, c, d, e})
    <3> SUFFICES ASSUME NEW a, NEW b, NEW c, NEW d, NEW e PROVE IsFiniteSet({a, b, c, d, e})
      OBVIOUS
    <3>1. /\ IsFiniteSet({a}) /\ IsFiniteSet({b}) /\ IsFiniteSet({c}) /\ IsFiniteSet({d})
          /\ IsFiniteSet({e})
      BY FS_Singleton
    <3>2. IsFiniteSet({a} \cup {b}) /\ IsFiniteSet({c} \cup {d})
      BY <3>1, FS_Union
    <3>3. IsFiniteSet(({a} \cup {b}) \cup ({c} \cup {d}))
      BY <3>2, FS_Union
    <3>4. IsFiniteSet((({a} \cup {b}) \cup ({c} \cup {d})) \cup {e})
      BY <3>1, <3>3, FS_Union
    <3>5. {a, b, c, d, e} = (({a} \cup {b}) \cup ({c} \cup {d})) \cup {e}
      OBVIOUS
    <3> QED
      BY <3>4, <3>5
  <2>2. IsFiniteSet(A) /\ IsFiniteSet(B)
    BY <2>1
  <2>3. DOMAIN Points = A \cup B
    BY DEF Points
  <2> HIDE DEF A, B
  <2> QED
    BY <2>2, <2>3, FS_Union
<1>2. p.signals \subseteq DOMAIN Points
  BY GateAssumption DEF Profile
<1>3. \A signal \in DOMAIN Points : Points[signal] \in Int
  BY DEF Points
<1> DEFINE item(signal) == Item("heuristics", signal, "risk", Points[signal],
                                IF signal = "punycode" THEN 85 ELSE 70, "suspicious")
<1>4. ASSUME NEW signal \in p.signals
      PROVE  Proper(item(signal)) /\ item(signal).classifier = "heuristics"
  <2>1. Points[signal] \in Int /\ (IF signal = "punycode" THEN 85 ELSE 70) \in Int
    BY <1>2, <1>3
  <2>2. PICK n \in Int, k \in Int : item(signal) = Item("heuristics", signal, "risk", n, k, "suspicious")
    BY <2>1
  <2> HIDE DEF item
  <2> QED
    BY <2>2, ItemProper
<1>5. IsFiniteSet(p.signals)
  BY <1>1, <1>2, FS_Subset
<1>6. HeuristicEvidence(p) = {item(signal) : signal \in p.signals}
  BY DEF HeuristicEvidence
<1> HIDE DEF item
<1>7. IsFiniteSet({item(signal) : signal \in p.signals})
  <2> DEFINE f == [signal \in p.signals |-> item(signal)]
  <2>1. IsFiniteSet({f[signal] : signal \in p.signals})
    BY <1>5, ImageFinite
  <2>2. \A signal \in p.signals : f[signal] = item(signal)
    OBVIOUS
  <2> HIDE DEF f
  <2> QED
    BY <2>1, <2>2
<1> QED
  BY <1>4, <1>6, <1>7 DEF BeforeAI, Evidence

LEMMA CollectedBeforeAI ==
    ASSUME profile \in Profiles, reputation \in SUBSET Reputation, IsFiniteSet(reputation),
           NEW failed
    PROVE  BeforeAI(Collected(failed))
<1>1. BeforeAI({})
  BY FS_EmptySet DEF BeforeAI, Evidence
<1>2. BeforeAI(ReputationEvidence(profile, reputation))
  BY RulesBeforeAI, LearnedBeforeAI DEF ReputationEvidence
<1>3. /\ BeforeAI(RuleEvidence(profile)) /\ BeforeAI(IntelEvidence(profile))
      /\ BeforeAI(HeuristicEvidence(profile))
  BY RulesBeforeAI, IntelBeforeAI, HeuristicsBeforeAI
<1> DEFINE reputed == IF "ReputationClassifier" \in failed THEN {}
                      ELSE ReputationEvidence(profile, reputation)
           listed  == IF "ThreatIntelClassifier" \in failed THEN {} ELSE IntelEvidence(profile)
<1>4. BeforeAI(reputed) /\ BeforeAI(listed)
  BY <1>1, <1>2, <1>3
<1>5. Collected(failed) = Then(Then(Then(RuleEvidence(profile), reputed), listed),
                               HeuristicEvidence(profile))
  BY DEF Collected
<1> HIDE DEF reputed, listed
<1>6. BeforeAI(Then(RuleEvidence(profile), reputed))
  BY <1>3, <1>4, UnionBeforeAI
<1>7. BeforeAI(Then(Then(RuleEvidence(profile), reputed), listed))
  BY <1>4, <1>6, UnionBeforeAI
<1> QED
  BY <1>3, <1>5, <1>7, UnionBeforeAI

-----------------------------------------------------------------------------
(* The decision *)

LEMMA RoundedTyped == \A n \in Int, d \in Nat \ {0} : Rounded(n, d) \in Int
BY DEF Rounded

LEMMA AIItemProper ==
    ASSUME NEW type, NEW answer, answer.risk \in Int, answer.confidence \in Int
    PROVE  Proper(AIItem(type, answer)) /\ ~Decisive(AIItem(type, answer))
<1> DEFINE p == IF answer.risk > 50 THEN "risk" ELSE IF answer.risk < 50 THEN "safety" ELSE "neutral"
           s == IF answer.risk > 50 THEN answer.risk
                ELSE IF answer.risk < 50 THEN answer.risk - 100 ELSE 0
<1>1. AIItem(type, answer) = Item("ai", type, p, s, answer.confidence, answer.category)
  BY DEF AIItem
<1>2. s \in Int
  OBVIOUS
<1> HIDE DEF p, s
<1> QED
  BY <1>1, <1>2, ItemProper

\* A call that was not made or not answered gives an item of no weight.
LEMMA SkipItem ==
    ASSUME NEW reason
    PROVE  /\ Proper(AISkipItem(reason)) /\ ~Decisive(AISkipItem(reason))
           /\ AISkipItem(reason).classifier = "ai" /\ AISkipItem(reason).polarity # "risk"
           /\ AISkipItem(reason).confidence = 0
<1> DEFINE t == IF reason = "unavailable" THEN "ai_result" ELSE "ai_skipped"
           p == IF reason = "unavailable" THEN "neutral" ELSE "safety"
           s == IF reason = "unavailable" THEN 0 ELSE -100
<1>1. AISkipItem(reason) = Item("ai", t, p, s, 0, "unknown")
  BY DEF AISkipItem, AIItem, NoAnswer
<1>2. s \in Int /\ 0 \in Int /\ p # "risk"
  OBVIOUS
<1> HIDE DEF t, p, s
<1>3. Item("ai", t, p, s, 0, "unknown").confidence = 0
  BY DEF Item, Clamp
<1> QED
  BY <1>1, <1>2, <1>3, ItemProper

\* With an item of no weight the risk stays, and with it category and verdict.
LEMMA UnaskedOutcome ==
    ASSUME NEW S, Evidence(S), \A i \in S : ~Decisive(i),
           NEW a, a \notin S, Proper(a), ~Decisive(a), a.confidence = 0, a.polarity # "risk",
           NEW d \in Decisions(S \cup {a})
    PROVE  Outcome(d) \in {Outcome(e) : e \in Decisions(S)}
<1> DEFINE W == S \cup {a}
<1>1. Influence(W) = Influence(S)
  BY NoWeightNoInfluence DEF Evidence
<1>2. AggregateRisk(W) = AggregateRisk(S)
  BY <1>1 DEF AggregateRisk
<1>3. {i \in W : i.polarity = "risk"} = {i \in S : i.polarity = "risk"}
  OBVIOUS
<1>4. W # {} /\ {i \in W : Decisive(i)} = {} /\ {i \in S : Decisive(i)} = {}
  OBVIOUS
<1> HIDE DEF W
<1>5. \A risk : CategoriesFromEvidence(W, risk) = CategoriesFromEvidence(S, risk)
  BY <1>3, Zenon DEF CategoriesFromEvidence
<1>6. PICK category \in CategoriesFromEvidence(W, AggregateRisk(W)) :
         d = Decision(AggregateRisk(W), AggregateConfidence(W), category, "decision-engine")
  <2>1. d \in Decisions(W)
    BY DEF W
  <2> QED
    BY <1>4, <2>1 DEF Decisions
<1>7. \A c : Outcome(Decision(AggregateRisk(W), c, category, "decision-engine")) = Outcome(d)
  BY <1>6 DEF Outcome, Decision
<1>8. CASE S # {}
  <2> DEFINE e == Decision(AggregateRisk(S), AggregateConfidence(S), category, "decision-engine")
  <2>1. category \in CategoriesFromEvidence(S, AggregateRisk(S))
    BY <1>2, <1>5, <1>6
  <2>2. e \in Decisions(S)
    BY <1>4, <1>8, <2>1 DEF Decisions
  <2>3. Outcome(e) = Outcome(d)
    BY <1>2, <1>7
  <2> QED
    BY <2>2, <2>3
<1>9. CASE S = {}
  <2> DEFINE e == Decision(50, 0, "unknown", "decision-engine")
  <2>1. Influence({}) = 0
    <3> DEFINE w == [i \in {} |-> 0]
    <3>1. IsFiniteSet({}) /\ \A i \in {} : w[i] = i.score * i.confidence
      BY FS_EmptySet
    <3> HIDE DEF w
    <3>2. PICK f : Sums(w, f, SUBSET {}) /\ Influence({}) = f[{}]
      BY <3>1, InfluenceIsSum
    <3> QED
      BY <3>2 DEF Sums
  <2>2. AggregateRisk(W) = 50
    <3>1. 10000 + Influence(W) = 10000
      BY <1>1, <1>9, <2>1
    <3>2. Rounded(10000, 200) = 50
      BY DEF Rounded
    <3> QED
      BY <3>1, <3>2 DEF AggregateRisk, Clamp
  <2>3. category = "unknown"
    <3>1. CategoriesFromEvidence({}, 50) = {"unknown"}
      BY DEF CategoriesFromEvidence, CategoryForRisk
    <3> QED
      BY <1>5, <1>6, <1>9, <2>2, <3>1
  <2>4. e \in Decisions(S)
    BY <1>4, <1>9 DEF Decisions
  <2>5. Outcome(e) = Outcome(d)
    BY <1>7, <2>2, <2>3
  <2> QED
    BY <2>4, <2>5
<1> QED
  BY <1>8, <1>9

\* What is learned from a decision is a row of numbers.
LEMMA DecisionTyped ==
    ASSUME NEW S, Evidence(S), NEW d \in Decisions(S)
    PROVE  d.risk \in Int /\ d.confidence \in Int
<1> DEFINE decisive == {i \in S : Decisive(i)}
<1>1. CASE decisive # {}
  <2>1. PICK i \in decisive : \A j \in decisive : i.precedence <= j.precedence
    <3> DEFINE T == {i.precedence : i \in decisive}
    <3>1. T \in SUBSET Nat /\ T # {}
      BY <1>1 DEF Evidence, Proper
    <3>2. PICK n \in T : \A m \in T : n <= m
      <4> HIDE DEF T
      <4> QED
        BY <3>1, SmallestNumber
    <3> QED
      BY <3>2
  <2>2. Strongest(decisive) \in decisive
    BY <2>1 DEF Strongest
  <2> DEFINE item == Strongest(decisive)
  <2>3. item.confidence \in Int
    BY <2>2 DEF Evidence, Proper
  <2>4. d = Decision(IF item.polarity = "risk" THEN 100 ELSE 0, 10 * item.confidence,
                     item.category, item.classifier)
    BY <1>1 DEF Decisions
  <2> HIDE DEF item
  <2> QED
    BY <2>3, <2>4 DEF Decision
<1>2. CASE S = {}
  <2>1. d = Decision(50, 0, "unknown", "decision-engine")
    BY <1>2 DEF Decisions
  <2> QED
    BY <2>1 DEF Decision
<1>3. CASE decisive = {} /\ S # {}
  <2>1. /\ d.risk = AggregateRisk(S) /\ d.confidence = AggregateConfidence(S)
    BY <1>3 DEF Decisions, Decision
  <2>2. Influence(S) \in Int /\ ConfidenceSum(S) \in Int
    BY SumsAreNumbers DEF Evidence
  <2>3. AggregateRisk(S) \in Int
    <3>1. Rounded(10000 + Influence(S), 200) \in Int
      BY <2>2, RoundedTyped
    <3> QED
      BY <3>1 DEF AggregateRisk, Clamp
  <2>4. AggregateConfidence(S) \in Int
    <3>1. Cardinality(S) \in Nat \ {0}
      BY <1>3, FS_CardinalityType, FS_EmptySet DEF Evidence
    <3>2. 10 * ConfidenceSum(S) + 150 * Cardinality(S) \in Int
      BY <2>2, <3>1
    <3>3. Rounded(10 * ConfidenceSum(S) + 150 * Cardinality(S), Cardinality(S)) \in Int
      BY <3>1, <3>2, RoundedTyped
    <3> QED
      BY <3>3 DEF AggregateConfidence, Clamp
  <2> QED
    BY <2>1, <2>3, <2>4
<1> QED
  BY <1>1, <1>2, <1>3

-----------------------------------------------------------------------------
(* The model that was not asked *)

EvidenceInv ==
    /\ reputation \in SUBSET Reputation /\ IsFiniteSet(reputation)
    /\ engine.pc \in {"idle", "ai"} => engine.result = "none"
    /\ engine.pc = "ai" => BeforeAI(engine.items) /\ \A i \in engine.items : ~Decisive(i)
    /\ engine.pc = "learn" => engine.decision.risk \in Int /\ engine.decision.confidence \in Int
    /\ UnaskedAIChangesNothing

LEMMA FirstRowsTyped == \A rows \in FirstRows : rows \in SUBSET Reputation /\ IsFiniteSet(rows)
<1>1. \A row \in FirstReputation : {row} \in SUBSET Reputation /\ IsFiniteSet({row})
  BY GateAssumption, FS_Singleton
<1>2. {} \in SUBSET Reputation /\ IsFiniteSet({})
  BY FS_EmptySet
<1> QED
  BY <1>1, <1>2 DEF FirstRows

LEMMA EvidenceInvInit == Init => EvidenceInv
BY FirstRowsTyped DEF Init, Idle, EvidenceInv, UnaskedAIChangesNothing, Decided

LEMMA IdleEvidence ==
    ASSUME NEW n, engine' = Idle(n), reputation' \in SUBSET Reputation, IsFiniteSet(reputation')
    PROVE  EvidenceInv'
BY DEF Idle, EvidenceInv, UnaskedAIChangesNothing, Decided

LEMMA NoneIsNoReason == "none" \notin Unasked \cup Unanswered
BY DEF Unasked, Unanswered

LEMMA CollectEvidence ==
    ASSUME RuleInv, EvidenceInv, NEW busy, Collect(busy)
    PROVE  EvidenceInv'
<1> DEFINE failed == Raised(busy)
           items  == Collected(failed)
           round  == [engine EXCEPT !.items = items, !.failed = failed]
<1>1. reputation' = reputation /\ engine.result = "none" /\ Shaped(engine)
  BY DEF Collect, RuleInv, EvidenceInv
<1>2. BeforeAI(items)
  BY CollectedBeforeAI DEF RuleInv, EvidenceInv
<1> HIDE DEF failed, items
<1>3. CASE ~SkipsAI(items) /\ engine' = [round EXCEPT !.pc = "ai"]
  <2>1. engine'.pc = "ai" /\ engine'.items = items /\ engine'.result = "none"
    BY <1>1, <1>3 DEF Shaped
  <2>2. \A i \in items : ~Decisive(i)
    BY <1>3 DEF SkipsAI
  <2> QED
    BY <1>1, <1>2, <2>1, <2>2 DEF EvidenceInv, UnaskedAIChangesNothing, Decided
<1>4. ASSUME NEW decision \in Decisions(items),
             engine' = [round EXCEPT !.pc = "learn", !.decision = decision]
      PROVE  EvidenceInv'
  <2>1. engine'.pc = "learn" /\ engine'.decision = decision /\ engine'.result = "none"
    BY <1>1, <1>4 DEF Shaped
  <2>2. decision.risk \in Int /\ decision.confidence \in Int
    BY <1>2, DecisionTyped DEF BeforeAI
  <2>3. UnaskedAIChangesNothing'
    BY <2>1, NoneIsNoReason DEF UnaskedAIChangesNothing
  <2> QED
    BY <1>1, <2>1, <2>2, <2>3 DEF EvidenceInv
<1> QED
  BY <1>3, <1>4 DEF Collect, failed, items

\* The decision after the model's turn.
LEMMA ConcludeEvidence ==
    ASSUME RuleInv, EvidenceInv, reputation' = reputation, NEW items, NEW result, NEW failed,
           Evidence(items), Conclude(items, result, failed),
           NEW others, others = {i \in items : i.classifier # "ai"},
           ASSUME result \in Unasked \cup Unanswered, NEW d \in Decisions(items)
           PROVE  Outcome(d) \in {Outcome(e) : e \in Decisions(others)}
    PROVE  EvidenceInv'
<1>1. PICK decision \in Decisions(items) :
         engine' = [engine EXCEPT !.pc = "learn", !.items = items, !.result = result,
                                  !.failed = failed, !.decision = decision]
  BY DEF Conclude
<1>2. /\ engine'.pc = "learn" /\ engine'.items = items /\ engine'.result = result
      /\ engine'.decision = decision
  BY <1>1 DEF RuleInv, Shaped
<1>3. decision.risk \in Int /\ decision.confidence \in Int
  BY DecisionTyped
<1>4. UnaskedAIChangesNothing'
  <2>1. ASSUME result \in Unasked \cup Unanswered
        PROVE  Outcome(decision) \in {Outcome(e) : e \in Decisions(others)}
    BY <2>1
  <2> QED
    BY <1>2, <2>1 DEF UnaskedAIChangesNothing
<1> QED
  BY <1>2, <1>3, <1>4 DEF EvidenceInv

LEMMA TakeEvidence ==
    ASSUME RuleInv, EvidenceInv, TakeAIEvidence
    PROVE  EvidenceInv'
<1> DEFINE result == call[Engine].result
           item   == IF result \in DOMAIN Answers THEN AIItem("ai_result", Answers[result])
                     ELSE AISkipItem(result)
           items  == engine.items \cup {item}
           others == {i \in items : i.classifier # "ai"}
<1>1. /\ engine.pc = "ai" /\ reputation' = reputation
      /\ Conclude(items, result, engine.failed)
  BY DEF TakeAIEvidence
<1>2. BeforeAI(engine.items) /\ \A i \in engine.items : ~Decisive(i)
  BY <1>1 DEF EvidenceInv
<1>3. Proper(item)
  <2>1. \A name \in DOMAIN Answers : Answers[name].risk \in Int /\ Answers[name].confidence \in Int
    BY GateAssumption DEF Answer
  <2> QED
    BY <2>1, AIItemProper, SkipItem
<1>4. Evidence(items)
  <2> HIDE DEF item
  <2> QED
    BY <1>2, <1>3, FS_AddElement DEF BeforeAI, Evidence
<1>5. ASSUME result \in Unasked \cup Unanswered, NEW d \in Decisions(items)
      PROVE  Outcome(d) \in {Outcome(e) : e \in Decisions(others)}
  <2>1. item = AISkipItem(result)
    BY <1>5, GateAssumption
  <2>2. /\ Proper(item) /\ ~Decisive(item) /\ item.classifier = "ai" /\ item.polarity # "risk"
        /\ item.confidence = 0
    BY <2>1, SkipItem
  <2> HIDE DEF item
  <2>3. item \notin engine.items /\ others = engine.items /\ Evidence(engine.items)
    BY <1>2, <2>2 DEF BeforeAI
  <2> QED
    BY <1>2, <1>5, <2>2, <2>3, UnaskedOutcome
<1> HIDE DEF item, items, result
<1> QED
  BY <1>1, <1>4, <1>5, ConcludeEvidence

LEMMA EvidenceInvNext == RuleInv /\ EvidenceInv /\ [Next]_vars => EvidenceInv'
<1> SUFFICES ASSUME RuleInv, EvidenceInv, [Next]_vars PROVE EvidenceInv'
  OBVIOUS
<1>1. CASE UNCHANGED <<engine, reputation>>
  BY <1>1 DEF EvidenceInv, UnaskedAIChangesNothing, Decided
<1>2. CASE Analyze
  BY <1>2, CollectEvidence DEF Analyze
<1>3. CASE TakeAIEvidence
  BY <1>3, TakeEvidence
<1>4. CASE Learn
  <2>1. reputation' \in SUBSET Reputation /\ IsFiniteSet(reputation')
    <3>1. CASE reputation' \in FirstRows
      BY <3>1, FirstRowsTyped
    <3>2. CASE reputation' = Learned(Analysis(engine.decision), reputation)
      <4> DEFINE result == Analysis(engine.decision)
                 row == [score |-> Clamp(0, result.risk, 100),
                         confidence |-> Clamp(0, result.confidence, 100)]
      <4>1. engine.decision.risk \in Int /\ engine.decision.confidence \in Int
        BY <1>4 DEF Learn, EvidenceInv
      <4>2. result.risk \in Int /\ result.confidence \in Int
        BY <4>1, RoundedTyped DEF Analysis
      <4> HIDE DEF result
      <4>3. row \in Reputation
        BY <4>2 DEF Reputation, Clamp
      <4>4. reputation' = {row} \/ reputation' = reputation
        BY <3>2 DEF Learned, result
      <4> HIDE DEF row
      <4> QED
        BY <4>3, <4>4, FS_Singleton, ZenonT(60) DEF EvidenceInv
    <3> QED
      BY <1>4, <3>1, <3>2 DEF Learn
  <2> QED
    BY <1>4, <2>1, IdleEvidence DEF Learn
<1>5. CASE BusyDatabase
  <2>1. CASE \E classifier \in DatabaseReaders : Collect({classifier})
    BY <2>1, CollectEvidence
  <2>2. CASE /\ engine.pc = "ai" /\ reputation' = reputation
             /\ Conclude(engine.items, "none", engine.failed \cup {"AIClassifier"})
    <3>1. Evidence(engine.items)
      BY <2>2 DEF EvidenceInv, BeforeAI
    <3> QED
      BY <2>2, <3>1, ConcludeEvidence, NoneIsNoReason
  <2> QED
    BY <1>5, <2>1, <2>2 DEF BusyDatabase
<1>6. ASSUME NEW p \in Analyzers, Die(p)
      PROVE  EvidenceInv'
  BY <1>1, <1>6, IdleEvidence DEF Die, EvidenceInv
<1>7. CASE Tick \/ ClockBack \/ \E p \in Analyzers : Enter(p) \/ GateStep(p)
  BY <1>1, <1>7 DEF Tick, ClockBack, Enter, GateStep, GateOnly, CheckCooldown, ReadWindow,
     ReadCalls, StartWindow, ZeroCalls, TakeCall, Generate, StartCooldown
<1> QED
  BY <1>1, <1>2, <1>3, <1>4, <1>5, <1>6, <1>7 DEF Next, EngineStep, vars

-----------------------------------------------------------------------------
(* The theorems *)

\* Whatever the analyzers' steps, deaths and the clock do, none of them calls
\* the model twice while it cools down (AIClassifier.classify, _in_cooldown,
\* _start_cooldown).
THEOREM CooldownHolds == Spec => []CooldownIsKept
<1>1. GateInv => CooldownIsKept
  BY DEF GateInv, CooldownIsKept
<1> QED
  BY <1>1, GateInvInit, GateInvNext, PTL DEF Spec

\* For every profile and reputation, and whatever the model would have answered: local
\* infrastructure is safe whatever rule there is, and any other name is decided by a rule
\* that could be read (RuleEngine.classify, ReputationClassifier.collect_evidence,
\* should_skip_ai, decide).
THEOREM RulesDecide == Spec => []RuleDecides
<1>1. RuleInv => RuleDecides
  BY DEF RuleInv, RuleDecides, Ruled, RuledAfter, AsRuled, Decided
<1> QED
  BY <1>1, RuleInvInit, RuleInvNext, PTL DEF Spec

\* A model that was not asked, timed out or gave no valid answer changes neither risk nor
\* category nor verdict, whatever the evidence beside it and whatever was learned before
\* (AIClassifier.collect_evidence, _aggregate_score, decide).
THEOREM UnaskedModelIsIgnored == Spec => []UnaskedAIChangesNothing
<1>1. EvidenceInv => UnaskedAIChangesNothing
  BY DEF EvidenceInv
<1> QED
  BY <1>1, RuleInvInit, RuleInvNext, EvidenceInvInit, EvidenceInvNext, PTL DEF Spec

\* With one analyzer beside the engine the calls of a window stay within half of
\* M(M + 5), whatever the order in which the two read and write window and number, and
\* whoever dies with a number in hand: the lost updates of _reserve_call cost at most
\* that, for every limit M.
THEOREM CallsStayBounded == Spec => []CallsAreBounded
<1>1. CASE OneOther
  <2>1. CountInv => CallsAreBounded
    <3> SUFFICES ASSUME CountInv PROVE 2 * made <= MaxCalls * (MaxCalls + 5)
      BY DEF CallsAreBounded
    <3>1. /\ made \in Nat /\ windowCalls \in 0 .. MaxCalls /\ Level(windowCalls)
          /\ TwiceLeft(windowCalls) \in Nat
      BY LeftInWindow DEF CountInv, Level
    <3>2. CASE \E p \in Analyzers : Zeroing(p)
      <4>1. made <= windowCalls
        BY <3>1, <3>2 DEF CountInv
      <4> QED
        BY <3>1, <4>1, LeftInWindow
    <3>3. CASE \A p \in Analyzers : ~Zeroing(p)
      <4>1. 2 * made + TwiceLeft(windowCalls) + 2 * windowCalls
               <= 2 * windowCalls + MaxCalls * (MaxCalls + 5)
        BY <3>1, <3>3 DEF CountInv
      <4> QED
        BY <3>1, <4>1, LeftInWindow
    <3> QED
      BY <3>2, <3>3
  <2>2. GateInv /\ CountInv /\ [Next]_vars => CountInv'
    BY <1>1, CountInvNext
  <2> QED
    BY <2>1, <2>2, GateInvInit, GateInvNext, CountInvInit, PTL DEF Spec
<1>2. CASE ~OneOther
  <2>1. CallsAreBounded
    BY <1>2 DEF CallsAreBounded, OneOther
  <2> QED
    BY <2>1, PTL
<1> QED
  BY <1>1, <1>2

=============================================================================
