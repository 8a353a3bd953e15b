----------------------------- MODULE Decisions -----------------------------
(***************************************************************************)
(* The analysis of a domain: ClassifierPipeline.classify with the          *)
(* classifiers one after the other, the gate in front of the local model   *)
(* (AIClassifier and the app_state rows it keeps), the decision, and what  *)
(* the engine learns from it for the next analysis.                        *)
(*                                                                         *)
(* Engine is the engine's process.  The other analyzers are benchmarks     *)
(* (pihole-ai evaluate --include-ai) and engines started by hand; they     *)
(* share the gate's rows with the engine and keep no result, so of them    *)
(* only the way through the gate is modelled.  Each read and each write of *)
(* app_state is a transaction and an action of its own.                    *)
(*                                                                         *)
(* Times are relative to the clock: age is now - ai.window_started_at and  *)
(* cooldown is ai.cooldown_until - now, both cut off where no comparison   *)
(* tells the difference; lag is how long ago a process read the clock.     *)
(* The cached analysis of the domain has expired whenever an analysis      *)
(* begins.                                                                 *)
(***************************************************************************)
EXTENDS Classifiers

CONSTANTS
    Engine,       \* the engine's process
    Others,       \* other analyzers that reach the gate
    Profiles,     \* what the tables may say of the domain
    Answers,      \* the answers the model gives, by name
    FirstReputation, \* the reputation rows the domain may start with
    AIEnabled,    \* settings.ai_enabled
    MaxCalls,     \* settings.ai_max_calls_per_minute
    Window,       \* the minute of the window
    Cooldown      \* settings.ai_cooldown_seconds

\* Bounds: how often in a row the same domain is analyzed, how long a process
\* stays between two transactions, and how often something goes wrong: the
\* clock is set back, the database is busy for a classifier, a process dies.
CONSTANTS MaxRounds, MaxLag, MaxMishaps

ASSUME GateAssumption ==
    /\ Engine \notin Others
    /\ IsFiniteSet(Others)
    /\ Profiles \subseteq Profile
    /\ \A p \in Profiles : \A hit, other \in p.hit : hit = other
    /\ \A name \in DOMAIN Answers : Answers[name] \in Answer
    /\ DOMAIN Answers \cap ({"none"} \cup Unasked \cup Unanswered) = {}
    /\ FirstReputation \subseteq Reputation
    /\ AIEnabled \in BOOLEAN
    /\ MaxCalls \in Nat
    /\ Window \in Nat \ {0}
    /\ Cooldown \in Nat

ASSUME GateBounds == {MaxRounds, MaxLag, MaxMishaps} \subseteq Nat

VARIABLES
    profile,     \* what the tables say of the domain
    reputation,  \* domain_reputation: the row of the domain, if any
    age,         \* now - ai.window_started_at
    windowCalls, \* ai.window_calls
    cooldown,    \* ai.cooldown_until - now
    engine,      \* the engine's analysis
    call,        \* each analyzer's way through the gate
    made,        \* history: the calls begun since the window was started
    hot,         \* history: each analyzer's calls begun while cooling down
    mishaps      \* how often something went wrong

gate == <<age, windowCalls, cooldown>>
vars == <<profile, reputation, gate, engine, call, made, hot, mishaps>>

Analyzers == Others \cup {Engine}

OldestAge == Window + MaxLag + MaxMishaps

\* lag: since time.time() was read; expired and calls: what was read of the rows.
Call == [pc      : {"out", "enter", "window", "calls", "start", "zero", "take",
                    "generate", "punish", "done"},
         lag     : -MaxMishaps .. MaxLag,
         expired : BOOLEAN,
         calls   : 0 .. MaxCalls,
         result  : {"none"} \cup Unasked \cup Unanswered \cup DOMAIN Answers]

Reached(pc, calls, result) ==
    [pc |-> pc, lag |-> 0, expired |-> FALSE, calls |-> calls, result |-> result]
Stage(pc) == Reached(pc, 0, "none")
NoCall == Stage("out")

DatabaseReaders == {"ReputationClassifier", "ThreatIntelClassifier"}

NoDecision == Decision(50, 0, "unknown", "decision-engine")

Idle(round) == [pc |-> "idle", round |-> round, items |-> {}, failed |-> {},
                result |-> "none", decision |-> NoDecision]

FirstRows == {{}} \cup {{row} : row \in FirstReputation}

Init ==
    /\ profile \in Profiles
    /\ reputation \in FirstRows
    /\ age = OldestAge
    /\ windowCalls = 0
    /\ cooldown = -MaxMishaps
    /\ engine = Idle(0)
    /\ call = [p \in Analyzers |-> NoCall]
    /\ made = 0
    /\ hot = [p \in Analyzers |-> 0]
    /\ mishaps = 0

-----------------------------------------------------------------------------
(* The engine's analysis *)

\* Decisive evidence ends the round: the classifiers after it are skipped.
Then(items, more) == IF \E i \in items : Decisive(i) THEN items ELSE items \cup more

\* The classifiers before the model, in their order.  One that raises is
\* recorded in the trace as failed and the round goes on.
Raised(busy) ==
    busy \cup (IF IntelRaises(profile) THEN {"ThreatIntelClassifier"} ELSE {})

Collected(failed) ==
    LET ruled     == RuleEvidence(profile)
        reputed   == IF "ReputationClassifier" \in failed THEN {}
                     ELSE ReputationEvidence(profile, reputation)
        listed    == IF "ThreatIntelClassifier" \in failed THEN {} ELSE IntelEvidence(profile)
    IN Then(Then(Then(ruled, reputed), listed), HeuristicEvidence(profile))

\* The classifiers up to should_skip_ai; busy are those that find the
\* database locked.
Collect(busy) ==
    LET failed == Raised(busy)
        items  == Collected(failed)
        round  == [engine EXCEPT !.items = items, !.failed = failed]
    IN
    /\ engine.pc = "idle"
    /\ \/ /\ ~SkipsAI(items)
          /\ engine' = [round EXCEPT !.pc = "ai"]
          /\ call' = [call EXCEPT ![Engine] = Stage("enter")]
       \/ /\ SkipsAI(items)
          /\ \E decision \in Decisions(items) :
                engine' = [round EXCEPT !.pc = "learn", !.decision = decision]
          /\ UNCHANGED call
    /\ UNCHANGED <<profile, reputation, gate, made, hot>>

Analyze == Collect({}) /\ UNCHANGED mishaps

Conclude(items, result, failed) ==
    \E decision \in Decisions(items) :
       engine' = [engine EXCEPT !.pc = "learn", !.items = items, !.result = result,
                                !.failed = failed, !.decision = decision]

TakeAIEvidence ==
    /\ engine.pc = "ai"
    /\ call[Engine].pc = "done"
    /\ LET result == call[Engine].result
           item   == IF result \in DOMAIN Answers THEN AIItem("ai_result", Answers[result])
                     ELSE AISkipItem(result)
       IN Conclude(engine.items \cup {item}, result, engine.failed)
    /\ call' = [call EXCEPT ![Engine] = NoCall]
    /\ UNCHANGED <<profile, reputation, gate, made, hot, mishaps>>

BusyDatabase ==
    /\ mishaps < MaxMishaps
    /\ mishaps' = mishaps + 1
    /\ \/ \E classifier \in DatabaseReaders : Collect({classifier})
       \/ /\ engine.pc = "ai"
          /\ call[Engine].pc \notin {"generate", "done"}
          /\ Conclude(engine.items, "none", engine.failed \cup {"AIClassifier"})
          /\ call' = [call EXCEPT ![Engine] = NoCall]
          /\ UNCHANGED <<profile, reputation, gate, made, hot>>

\* save_analysis_with_decision, then update_reputation_from_analysis.  The
\* next analysis is of the same domain, or of another one.
Learn ==
    /\ engine.pc = "learn"
    /\ \/ /\ engine.round + 1 < MaxRounds
          /\ reputation' = Learned(Analysis(engine.decision), reputation)
          /\ engine' = Idle(engine.round + 1)
          /\ UNCHANGED profile
       \/ /\ profile' \in Profiles
          /\ reputation' \in FirstRows
          /\ engine' = Idle(0)
    /\ UNCHANGED <<gate, call, made, hot, mishaps>>

-----------------------------------------------------------------------------
(* The gate: AIClassifier.classify *)

Step(p, next) == call' = [call EXCEPT ![p] = next]

GateOnly == <<profile, reputation, engine, mishaps>>

\* A benchmark case that reaches the AI classifier.
Enter(p) ==
    /\ p \in Others
    /\ call[p].pc = "out"
    /\ Step(p, Stage("enter"))
    /\ UNCHANGED <<GateOnly, gate, made, hot>>

\* Only the engine goes on with the result.
With(p, pc, result) == Reached(pc, 0, IF p = Engine THEN result ELSE "none")
Finished(p, result) == IF p = Engine THEN With(p, "done", result) ELSE NoCall

Faulty_InCooldown == cooldown > 1
Sticky_InCooldown == cooldown >= -MaxMishaps
InCooldown == cooldown > 0

\* ai_enabled, time.time(), _in_cooldown, and the first test of _reserve_call.
CheckCooldown(p) ==
    /\ call[p].pc = "enter"
    /\ Step(p, IF ~AIEnabled THEN Finished(p, "ai_disabled")
               ELSE IF InCooldown THEN Finished(p, "ai_cooldown")
               ELSE IF MaxCalls = 0 THEN Finished(p, "ai_rate_limited")
               ELSE Stage("window"))
    /\ UNCHANGED <<GateOnly, gate, made, hot>>

\* now is the process's own reading of the clock.
Expired(p) == age - call[p].lag >= Window

ReadWindow(p) ==
    /\ call[p].pc = "window"
    /\ Step(p, [call[p] EXCEPT !.pc = "calls", !.expired = Expired(p)])
    /\ UNCHANGED <<GateOnly, gate, made, hot>>

ReadCalls(p) ==
    /\ call[p].pc = "calls"
    /\ Step(p, IF call[p].expired THEN [call[p] EXCEPT !.pc = "start"]
               ELSE IF windowCalls >= MaxCalls THEN Finished(p, "ai_rate_limited")
               ELSE Reached("take", windowCalls, "none"))
    /\ UNCHANGED <<GateOnly, gate, made, hot>>

StartWindow(p) ==
    /\ call[p].pc = "start"
    /\ age' = call[p].lag
    /\ made' = 0
    /\ Step(p, Stage("zero"))
    /\ UNCHANGED <<GateOnly, windowCalls, cooldown, hot>>

ZeroCalls(p) ==
    /\ call[p].pc = "zero"
    /\ windowCalls' = 0
    /\ Step(p, Stage("take"))
    /\ UNCHANGED <<GateOnly, age, cooldown, made, hot>>

Faulty_Reserved(calls) == calls
Reserved(calls) == calls + 1

\* The reservation, and with it the call to the model.
TakeCall(p) ==
    /\ call[p].pc = "take"
    /\ windowCalls' = Reserved(call[p].calls)
    /\ made' = made + 1
    /\ hot' = IF cooldown > 0 THEN [hot EXCEPT ![p] = @ + 1] ELSE hot
    /\ Step(p, Stage("generate"))
    /\ UNCHANGED <<GateOnly, age, cooldown>>

\* An answer in time; one after the time limit, an invalid one, none.
Generate(p) ==
    /\ call[p].pc = "generate"
    /\ \/ \E answer \in DOMAIN Answers : Step(p, Finished(p, answer))
       \/ \E result \in Unanswered \cup DOMAIN Answers :
             Step(p, With(p, "punish", result))
    /\ UNCHANGED <<GateOnly, gate, made, hot>>

StartCooldown(p) ==
    /\ call[p].pc = "punish"
    /\ IF Cooldown > 0
       THEN cooldown' = Cooldown /\ hot' = [q \in Analyzers |-> 0]
       ELSE UNCHANGED <<cooldown, hot>>
    /\ Step(p, Finished(p, call[p].result))
    /\ UNCHANGED <<GateOnly, age, windowCalls, made>>

-----------------------------------------------------------------------------
(* The clock, and death *)

\* Processes that hold a reading of the clock they still use.
Holding == {p \in Analyzers : call[p].pc \in {"window", "calls", "start"}}

CooldownLeft(n) == IF n > -MaxMishaps THEN n - 1 ELSE n

Tick ==
    /\ \A p \in Holding : call[p].lag < MaxLag
    /\ age' = IF age < OldestAge THEN age + 1 ELSE age
    /\ cooldown' = CooldownLeft(cooldown)
    /\ hot' = IF cooldown' > 0 THEN hot ELSE [p \in Analyzers |-> 0]
    /\ call' = [p \in Analyzers |->
                  IF p \in Holding THEN [call[p] EXCEPT !.lag = @ + 1] ELSE call[p]]
    /\ UNCHANGED <<GateOnly, windowCalls, made>>

ClockBack ==
    /\ mishaps < MaxMishaps
    /\ mishaps' = mishaps + 1
    /\ age' = age - 1
    /\ cooldown' = cooldown + 1
    /\ call' = [p \in Analyzers |->
                  IF p \in Holding THEN [call[p] EXCEPT !.lag = @ - 1] ELSE call[p]]
    /\ UNCHANGED <<profile, reputation, engine, windowCalls, made, hot>>

Die(p) ==
    /\ mishaps < MaxMishaps
    /\ IF p = Engine THEN engine.pc # "idle" ELSE call[p].pc # "out"
    /\ mishaps' = mishaps + 1
    /\ call' = [call EXCEPT ![p] = NoCall]
    /\ engine' = IF p = Engine THEN Idle(engine.round) ELSE engine
    /\ UNCHANGED <<profile, reputation, gate, made, hot>>

GateStep(p) ==
    \/ CheckCooldown(p) \/ ReadWindow(p) \/ ReadCalls(p) \/ StartWindow(p)
    \/ ZeroCalls(p) \/ TakeCall(p) \/ Generate(p) \/ StartCooldown(p)

EngineStep == Analyze \/ TakeAIEvidence \/ Learn

Next ==
    \/ EngineStep \/ BusyDatabase \/ Tick \/ ClockBack
    \/ \E p \in Analyzers : Enter(p) \/ GateStep(p) \/ Die(p)

\* Later makes no difference to the rows.
Settled == age = OldestAge /\ cooldown = -MaxMishaps

\* The engine goes on as long as queries come in, a call of the model ends
\* by its time limit at the latest, and time passes: Tick waits only for
\* readings of the clock to be used, by the bound MaxLag.
Fairness ==
    /\ WF_vars(EngineStep)
    /\ \A p \in Analyzers : WF_vars(GateStep(p))
    /\ []<>Settled \/ []<><<Tick>>_vars

-----------------------------------------------------------------------------
(* Properties *)

DecisionsTypeOK ==
    /\ profile \in Profile
    /\ reputation \in SUBSET Reputation
    /\ \A row, other \in reputation : row = other
    /\ age \in -MaxLag - 2 * MaxMishaps .. OldestAge
    /\ windowCalls \in 0 .. MaxCalls
    /\ cooldown \in -MaxMishaps .. Cooldown + MaxMishaps
    /\ call \in [Analyzers -> Call]
    /\ made \in Nat
    /\ hot \in [Analyzers -> Nat]

Spec == Init /\ [][Next]_vars
FairSpec == Spec /\ Fairness

Decided == engine.pc = "learn"

\* The name of a local or reverse lookup is safe, even if the user blocks it: RuleEngine
\* comes first and its decisive evidence ends the round before a rule is read, although
\* docs/ARCHITECTURE.md:29-34 lists manual rules before local infrastructure.  Of every
\* other name a rule of the user decides, whatever was learned of it, whatever the
\* classifiers after it say and whatever the model answers, as long as the rule could be
\* read (manual rules before learned reputation in ReputationClassifier, decisive
\* evidence by precedence in decide()).
RuleDecides ==
    /\ Decided /\ profile.infrastructure
       => engine.decision.source = "rule-engine" /\ engine.decision.risk = 0
    /\ Decided /\ ~profile.infrastructure /\ profile.rule # "none"
               /\ "ReputationClassifier" \notin engine.failed
       => /\ engine.decision.source = "manual-rule"
          /\ engine.decision.risk = IF profile.rule = "block" THEN 100 ELSE 0

\* A model that was not asked, was late or talked nonsense leaves risk,
\* category and verdict as the other classifiers have them, although its
\* result is evidence with a score of -100 (AISkipItem).  The confidence is
\* another matter: the item counts in its mean.
Outcome(decision) == <<decision.risk, decision.category, decision.verdict>>

UnaskedAIChangesNothing ==
    Decided /\ engine.result \in Unasked \cup Unanswered
    => LET others == {i \in engine.items : i.classifier # "ai"}
       IN Outcome(engine.decision) \in {Outcome(d) : d \in Decisions(others)}

\* While the model cools down an analyzer calls it at most once: the call it
\* was on its way to when another one found the model unhealthy
\* (_in_cooldown is read long before the call).
CooldownIsKept == \A p \in Analyzers : hot[p] <= 1

\* The calls begun in one window.  The start of the window, its number of
\* calls and the reservation are transactions of their own, so two analyzers
\* overwrite each other's (ai_max_calls_per_minute is no limit).  An old
\* number written back reopens the window, but each one is above the number
\* it was read with: with one other analyzer the calls of a window stay below
\* half of the square of the limit and some.
CallsAreBounded ==
    Cardinality(Others) <= 1 => 2 * made <= MaxCalls * (MaxCalls + 5)

\* The gate opens again: an engine that goes on needing the model does not
\* find it forever closed by a cooldown or a window of the past.
AIIsAskedAgain ==
    []<>(call[Engine].pc = "enter") => []<>(\E p \in Analyzers : call[p].pc = "generate")

\* README.md: "Manual block/allow, local infrastructure, and high-confidence
\* threat-intel hits are decisive."
HighConfidenceHitDecides ==
    Decided /\ (\E hit \in profile.hit : hit.confidence >= 70 /\ hit.fresh)
    => \E i \in {"manual-rule", "rule-engine", "threat-intel"} : engine.decision.source = i

=============================================================================
