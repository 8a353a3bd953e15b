-------------------------- MODULE IntelServiceProofs --------------------------
(* IntelFeed implements IntelService, for every value of the constants: a     *)
(* step of a run, a command or the server is a step of the service or leaves  *)
(* what the classifiers read alone.                                           *)
EXTENDS IntelFeedProofs

\* What is stored, or about to be, was published.
OfferedInv ==
    /\ \A u \in Urls : remote[u] \in offered
    /\ \A g \in GenIds : gens[g].status # "absent" => gens[g].sha \in offered
    /\ upd.pc \in {"compare", "import"} => upd.content \in offered

ServiceInv == IntegrityInv /\ OfferedInv

-----------------------------------------------------------------------------
(* The mapping of the steps *)

\* What readers see depends on the generations alone.
LEMMA SameService ==
    ASSUME gens' = gens, offered' = offered
    PROVE  UNCHANGED Service!vars
<1>1. \A s \in Sources : ActiveOf(s)' = ActiveOf(s)
  BY DEF ActiveOf
<1>2. \A s, g : Stored(s, g)' <=> Stored(s, g)
  BY DEF Stored
<1>3. Serving' = Serving /\ Library' = Library
  BY <1>1, <1>2 DEF Serving, Library
<1> QED
  BY <1>3 DEF Service!vars

\* Readers of the source see the new payload at once and whole, those of other
\* sources nothing.
LEMMA SwitchServes ==
    ASSUME gens \in [GenIds -> GenRow], NEW s \in Sources, NEW c, Switched(s, c)
    PROVE  /\ Serving' = [Serving EXCEPT ![s] = {c}]
           /\ Library' = [Library EXCEPT ![s] = @ \cup {c}]
<1>1. PICK g \in GenIds : SwitchGens(s, g) /\ gens'[g].sha = c /\ (Stored(s, g) => gens[g].sha = c)
  BY DEF Switched
<1>2. \A h \in GenIds : h # g => gens'[h].sha = gens[h].sha /\ gens'[h].source = gens[h].source
  BY <1>1 DEF SwitchGens
<1>3. ASSUME NEW t \in Sources, t # s
      PROVE  ActiveOf(t)' = ActiveOf(t) /\ \A h \in GenIds : Stored(t, h)' <=> Stored(t, h)
  <2>1. ASSUME NEW h \in GenIds
        PROVE  /\ Stored(t, h)' <=> Stored(t, h)
               /\ gens[h].status' = "active" /\ gens[h].source' = t
                    <=> gens[h].status = "active" /\ gens[h].source = t
    <3>1. CASE h = g
      BY <1>1, <1>3, <3>1 DEF SwitchGens, Whole, Stored
    <3>2. CASE h # g
      BY <1>1, <1>3, <3>2 DEF SwitchGens, ActiveOf, Stored
    <3> QED
      BY <3>1, <3>2
  <2> QED
    BY <2>1 DEF ActiveOf
<1>4. ActiveOf(s)' = {g}
  BY <1>1 DEF SwitchGens, Whole, Stored, ActiveOf
<1>5. \A h \in GenIds : Stored(s, h)' <=> Stored(s, h) \/ h = g
  BY <1>1 DEF SwitchGens, Whole, Stored, ActiveOf
<1>6. \A t \in Sources : t # s => ~Stored(t, g) /\ g \notin ActiveOf(t)
  BY <1>1 DEF SwitchGens, Stored, ActiveOf
<1>7. Serving' = [Serving EXCEPT ![s] = {c}]
  <2>1. {gens'[h].sha : h \in ActiveOf(s)'} = {c}
    BY <1>1, <1>4
  <2>2. ASSUME NEW t \in Sources, t # s
        PROVE  {gens'[h].sha : h \in ActiveOf(t)'} = {gens[h].sha : h \in ActiveOf(t)}
    <3>1. \A h \in ActiveOf(t) : gens'[h].sha = gens[h].sha
      BY <1>2, <1>6, <2>2 DEF ActiveOf
    <3> QED
      BY <1>3, <2>2, <3>1
  <2> QED
    BY <2>1, <2>2 DEF Serving
<1>8. Library' = [Library EXCEPT ![s] = @ \cup {c}]
  <2>1. {gens'[h].sha : h \in {i \in GenIds : Stored(s, i)'}}
           = {gens[h].sha : h \in {i \in GenIds : Stored(s, i)}} \cup {c}
    <3>1. {i \in GenIds : Stored(s, i)'} = {i \in GenIds : Stored(s, i)} \cup {g}
      BY <1>5
    <3>2. \A h \in {i \in GenIds : Stored(s, i)} : gens'[h].sha = gens[h].sha
      BY <1>1, <1>2
    <3> QED
      BY <1>1, <3>1, <3>2
  <2>2. ASSUME NEW t \in Sources, t # s
        PROVE  {gens'[h].sha : h \in {i \in GenIds : Stored(t, i)'}}
                  = {gens[h].sha : h \in {i \in GenIds : Stored(t, i)}}
    <3>1. {i \in GenIds : Stored(t, i)'} = {i \in GenIds : Stored(t, i)}
      BY <1>3, <2>2
    <3>2. \A h \in {i \in GenIds : Stored(t, i)} : gens'[h].sha = gens[h].sha
      BY <1>2, <1>6, <2>2
    <3> QED
      BY <3>1, <3>2
  <2> QED
    BY <2>1, <2>2 DEF Library
<1> QED
  BY <1>7, <1>8

\* An update: the payload comes from a server.
LEMMA UpdateActivates ==
    ASSUME ServiceInv, ImportGeneration \/ Reactivate
    PROVE  Service!Next
<1> USE DEF ServiceInv, IntegrityInv, TypeInv
<1>1. PICK c : c \in offered /\ Switched(upd.src, c)
  <2>1. CASE ImportGeneration
    BY <2>1, ImportKeeps DEF OfferedInv, ImportGeneration
  <2>2. CASE Reactivate
    <3>1. upd.target \in GenIds
      BY <2>2 DEF Reactivate, RunTyped
    <3> QED
      BY <2>2, <3>1, ReactivateKeeps DEF OfferedInv, Stored
  <2> QED
    BY <2>1, <2>2
<1>2. upd.src \in Sources /\ offered' = offered
  BY DEF ImportGeneration, Reactivate, RunTyped
<1>3. c \in Contents
  BY <1>1 DEF TypeOK
<1>4. Service!Activate(upd.src, c)
  BY <1>1, <1>2, SwitchServes DEF Service!Activate, TypeOK
<1> QED
  BY <1>2, <1>3, <1>4 DEF Service!Next

\* A rollback: the payload is stored, and there was one to go back from.
LEMMA RollbackGoesBack ==
    ASSUME ServiceInv, NEW s \in Sources, Rollback(s)
    PROVE  Service!Next
<1> USE DEF ServiceInv, IntegrityInv, TypeInv
<1>1. PICK g \in GenIds : Stored(s, g) /\ Switched(s, gens[g].sha)
  BY RollbackKeeps
<1> DEFINE c == gens[g].sha
<1>2. c \in Library[s] /\ c \in Contents
  <2>1. c \in {gens[h].sha : h \in {i \in GenIds : Stored(s, i)}}
    BY <1>1
  <2>2. c \in offered
    BY <1>1 DEF OfferedInv, Stored
  <2> QED
    BY <2>1, <2>2 DEF Library, TypeOK
<1>3. Serving[s] # {}
  <2>1. state[s].active \in ActiveOf(s)
    BY RollbackKeeps, ActiveFacts DEF ActiveOf
  <2>2. gens[state[s].active].sha \in {gens[h].sha : h \in ActiveOf(s)}
    BY <2>1
  <2> QED
    BY <2>2 DEF Serving
<1>4. /\ Serving' = [Serving EXCEPT ![s] = {c}]
      /\ Library' = [Library EXCEPT ![s] = @ \cup {c}]
  BY <1>1, SwitchServes DEF TypeOK
<1>5. Library' = Library
  BY <1>2, <1>4 DEF Library
<1>6. offered' = offered
  BY DEF Rollback
<1> HIDE DEF c
<1>7. Service!GoBack(s, c)
  BY <1>2, <1>3, <1>4, <1>5, <1>6 DEF Service!GoBack
<1> QED
  BY <1>2, <1>7 DEF Service!Next

LEMMA RemovalForgets ==
    ASSUME ServiceInv, NEW s \in Sources, RemoveSource(s)
    PROVE  Service!Next
<1> USE DEF ServiceInv, IntegrityInv, TypeInv
<1>1. gens' = [g \in GenIds |-> IF gens[g].source = s THEN NoGeneration ELSE gens[g]]
      /\ offered' = offered
  BY DEF RemoveSource
<1>2. NoGeneration.status = "absent" /\ NoGeneration.source = None /\ None \notin Sources
  BY NoneAssumption DEF NoGeneration
<1>3. ASSUME NEW g \in GenIds
      PROVE  /\ ~Stored(s, g)' /\ g \notin ActiveOf(s)'
             /\ \A t \in Sources : t # s =>
                   /\ Stored(t, g)' <=> Stored(t, g)
                   /\ g \in ActiveOf(t)' <=> g \in ActiveOf(t)
                   /\ Stored(t, g) \/ g \in ActiveOf(t) => gens'[g] = gens[g]
  BY <1>1, <1>2 DEF Stored, ActiveOf
<1>4. Serving' = [Serving EXCEPT ![s] = {}]
  <2>1. ActiveOf(s)' = {}
    BY <1>3 DEF ActiveOf
  <2>2. ASSUME NEW t \in Sources, t # s
        PROVE  {gens'[h].sha : h \in ActiveOf(t)'} = {gens[h].sha : h \in ActiveOf(t)}
    <3>1. ActiveOf(t)' = ActiveOf(t) /\ \A h \in ActiveOf(t) : gens'[h] = gens[h]
      BY <1>3, <2>2 DEF ActiveOf
    <3> QED
      BY <3>1
  <2> QED
    BY <2>1, <2>2 DEF Serving
<1>5. Library' = [Library EXCEPT ![s] = {}]
  <2>1. {i \in GenIds : Stored(s, i)'} = {}
    BY <1>3
  <2>2. ASSUME NEW t \in Sources, t # s
        PROVE  {gens'[h].sha : h \in {i \in GenIds : Stored(t, i)'}}
                  = {gens[h].sha : h \in {i \in GenIds : Stored(t, i)}}
    <3>1. {i \in GenIds : Stored(t, i)'} = {i \in GenIds : Stored(t, i)}
      BY <1>3, <2>2
    <3>2. \A h \in {i \in GenIds : Stored(t, i)} : gens'[h] = gens[h]
      BY <1>3, <2>2
    <3> QED
      BY <3>1, <3>2
  <2> QED
    BY <2>1, <2>2 DEF Library
<1>6. Service!Forget(s)
  BY <1>1, <1>4, <1>5 DEF Service!Forget
<1> QED
  BY <1>6 DEF Service!Next

LEMMA PublishPublishes ==
    ASSUME NEW u \in Urls, NEW c \in Contents, Publish(u, c)
    PROVE  Service!Next
<1>1. gens' = gens /\ offered' = offered \cup {c}
  BY DEF Publish
<1>2. \A s \in Sources : ActiveOf(s)' = ActiveOf(s)
  BY <1>1 DEF ActiveOf
<1>3. \A s, g : Stored(s, g)' <=> Stored(s, g)
  BY <1>1 DEF Stored
<1>4. Serving' = Serving /\ Library' = Library
  BY <1>1, <1>2, <1>3 DEF Serving, Library
<1> QED
  BY <1>1, <1>4 DEF Service!Next, Service!Publish

\* The other steps write neither generations nor payloads.
Elsewhere ==
    \/ FinishUpdate \/ ReadState \/ FetchNotModified \/ FetchContent \/ FetchError
    \/ Resolve \/ RejectContent \/ CompareContent \/ ImportRefused \/ ReactivateRefused
    \/ MarkNotModified \/ MarkFailed \/ RecordAudit \/ Crash \/ TimerUpdate
    \/ \E s \in Sources : ReadSource(s)
    \/ \E todo \in SUBSET Sources : CommandUpdate(todo)
    \/ \E s \in Sources, u \in Urls, on \in BOOLEAN : AddSource(s, u, on)
    \/ \E s \in Sources, u \in Urls : UpdateFetchSettings(s, u)
    \/ \E s \in Sources, on \in BOOLEAN : SetEnabled(s, on)

LEMMA ElsewhereKeeps == Elsewhere => UNCHANGED <<gens, remote, offered>>
BY DEF Elsewhere, FinishUpdate, ReadState, FetchNotModified, FetchContent, FetchError, Resolve,
   RejectContent, CompareContent, ImportRefused, ReactivateRefused, MarkNotModified, MarkFailed,
   RecordAudit, Crash, TimerUpdate, ReadSource, CommandUpdate, StartRun, AddSource,
   UpdateFetchSettings, SetEnabled

LEMMA StepsSorted ==
    Next => \/ Elsewhere \/ ImportGeneration \/ Reactivate
            \/ \E s \in Sources : Rollback(s) \/ RemoveSource(s)
            \/ \E u \in Urls, c \in Contents : Publish(u, c)
BY DEF Next, RunStep, OperatorStep, Elsewhere

LEMMA StepIsServed == ServiceInv /\ [Next]_vars => [Service!Next]_Service!vars
<1>1. UNCHANGED vars \/ Elsewhere => UNCHANGED Service!vars
  BY ElsewhereKeeps, SameService DEF vars
<1> QED
  BY <1>1, StepsSorted, UpdateActivates, RollbackGoesBack, RemovalForgets, PublishPublishes

-----------------------------------------------------------------------------
(* What is stored was published *)

LEMMA OfferedInit == Init => OfferedInv
BY DEF Init, OfferedInv, NoGeneration, NoRun

\* A step that stores nothing and holds no payload it did not hold before.
LEMMA OfferedStays ==
    ASSUME OfferedInv, UNCHANGED <<remote, offered>>,
           \A g \in GenIds : gens'[g].status # "absent" =>
              gens[g].status # "absent" /\ gens'[g].sha = gens[g].sha,
           upd'.pc \in {"compare", "import"} =>
              upd.pc \in {"compare", "import"} /\ upd'.content = upd.content
    PROVE  OfferedInv'
BY DEF OfferedInv

\* The payload a run holds is the one it fetched.
LEMMA RunHolds ==
    ASSUME TypeInv, Elsewhere
    PROVE  upd'.pc \in {"compare", "import"} =>
              \/ upd.pc \in {"compare", "import"} /\ upd'.content = upd.content
              \/ FetchContent
<1> USE DEF TypeInv
<1>1. upd \in UpdateRun /\ NoRun.pc = "idle"
  BY DEF TypeOK, NoRun
<1>2. CASE FinishUpdate \/ ImportRefused \/ Crash
  BY <1>1, <1>2 DEF FinishUpdate, ImportRefused, Crash, Abandon
<1>3. CASE ReadState \/ FetchNotModified \/ FetchError \/ RejectContent
  BY <1>1, <1>3 DEF ReadState, FetchNotModified, FetchError, RejectContent, Goto, UpdateRun
<1>4. CASE MarkNotModified
  BY <1>1, <1>4 DEF MarkNotModified, UpdateRun
<1>5. CASE ReactivateRefused \/ MarkFailed
  <2>1. \/ upd' = NoRun
        \/ upd' = [upd EXCEPT !.pc = "audit"] \/ upd' = [upd EXCEPT !.pc = "audit", !.http = "none"]
    BY <1>5 DEF ReactivateRefused, MarkFailed, Goto, Abandon
  <2> QED
    BY <1>1, <2>1 DEF UpdateRun
<1>6. CASE Resolve
  BY <1>1, <1>6 DEF Resolve, UpdateRun
<1>7. CASE CompareContent
  BY <1>1, <1>7 DEF CompareContent, Goto, UpdateRun
<1>8. CASE RecordAudit \/ TimerUpdate \/ \E todo \in SUBSET Sources : CommandUpdate(todo)
  BY <1>8 DEF RecordAudit, TimerUpdate, CommandUpdate, NextInLoop, StartRun, NoRun
<1>9. CASE \E s \in Sources : ReadSource(s)
  BY <1>9 DEF ReadSource, NoRun
<1>10. CASE UNCHANGED upd
  BY <1>10
<1> QED
  BY <1>2, <1>3, <1>4, <1>5, <1>6, <1>7, <1>8, <1>9, <1>10
  DEF Elsewhere, AddSource, UpdateFetchSettings, SetEnabled

LEMMA ElsewhereOffers ==
    ASSUME TypeInv, OfferedInv, Elsewhere
    PROVE  OfferedInv'
<1>1. UNCHANGED <<gens, remote, offered>>
  BY ElsewhereKeeps
<1>2. CASE upd'.pc \in {"compare", "import"} =>
              upd.pc \in {"compare", "import"} /\ upd'.content = upd.content
  BY <1>1, <1>2, OfferedStays
<1>3. CASE FetchContent
  <2>1. upd'.content = remote[upd.url] /\ upd.url \in Urls
    BY <1>3 DEF FetchContent, TypeInv, TypeOK, UpdateRun, RunTyped
  <2> QED
    BY <1>1, <2>1 DEF OfferedInv
<1> QED
  BY <1>2, <1>3, RunHolds

\* An activated generation was there, or holds the payload that was fetched.
LEMMA SwitchOffers ==
    ASSUME OfferedInv, NEW s, NEW c \in offered, Switched(s, c), UNCHANGED <<remote, offered>>,
           upd'.pc \notin {"compare", "import"} \/ upd' = upd
    PROVE  OfferedInv'
<1>1. PICK g \in GenIds : SwitchGens(s, g) /\ gens'[g].sha = c
  BY DEF Switched
<1>2. \A h \in GenIds : gens'[h].status # "absent" => gens'[h].sha \in offered
  BY <1>1 DEF OfferedInv, SwitchGens, ActiveOf
<1> QED
  BY <1>2 DEF OfferedInv

LEMMA OfferedNext == ServiceInv /\ [Next]_vars => OfferedInv'
<1> SUFFICES ASSUME ServiceInv, [Next]_vars PROVE OfferedInv'
  OBVIOUS
<1> USE DEF ServiceInv, IntegrityInv, TypeInv
<1>1. CASE UNCHANGED vars
  BY <1>1, OfferedStays DEF vars
<1>2. CASE Elsewhere
  BY <1>2, ElsewhereOffers
<1>3. CASE ImportGeneration
  <2>1. upd'.pc = "audit" /\ UNCHANGED <<remote, offered>> /\ upd.content \in offered
    BY <1>3 DEF ImportGeneration, OfferedInv, TypeOK, UpdateRun
  <2> QED
    BY <1>3, <2>1, ImportKeeps, SwitchOffers
<1>4. CASE Reactivate
  <2>1. upd'.pc = "audit" /\ UNCHANGED <<remote, offered>> /\ upd.target \in GenIds
    BY <1>4 DEF Reactivate, RunTyped, TypeOK, UpdateRun
  <2>2. gens[upd.target].sha \in offered
    BY <1>4, <2>1, ReactivateKeeps DEF OfferedInv, Stored
  <2> QED
    BY <1>4, <2>1, <2>2, ReactivateKeeps, SwitchOffers
<1>5. ASSUME NEW s \in Sources, Rollback(s)
      PROVE  OfferedInv'
  <2>1. PICK g \in GenIds : Stored(s, g) /\ Switched(s, gens[g].sha)
    BY <1>5, RollbackKeeps
  <2>2. gens[g].sha \in offered /\ UNCHANGED <<remote, offered, upd>>
    BY <1>5, <2>1 DEF OfferedInv, Stored, Rollback
  <2> QED
    BY <2>1, <2>2, SwitchOffers
<1>6. ASSUME NEW s \in Sources, RemoveSource(s)
      PROVE  OfferedInv'
  BY <1>6, OfferedStays DEF RemoveSource, NoGeneration
<1>7. ASSUME NEW u \in Urls, NEW c \in Contents, Publish(u, c)
      PROVE  OfferedInv'
  BY <1>7 DEF Publish, OfferedInv, TypeOK
<1> QED
  BY <1>1, <1>2, <1>3, <1>4, <1>5, <1>6, <1>7, StepsSorted

-----------------------------------------------------------------------------
LEMMA InitIsServed == Init => Service!Init
<1> SUFFICES ASSUME Init PROVE Service!Init
  OBVIOUS
<1>1. \A g \in GenIds : gens[g].status = "absent"
  BY DEF Init, NoGeneration
<1>2. Serving = [s \in Sources |-> {}] /\ Library = [s \in Sources |-> {}]
  BY <1>1 DEF Serving, Library, ActiveOf, Stored
<1>3. offered \subseteq Contents
  BY DEF Init
<1> QED
  BY <1>2, <1>3 DEF Service!Init

\* Whatever updates, commands, crashes and servers do, the classifiers read per
\* source one whole payload that was published, which only a removal takes away
\* (activate_intel_generation, activate_existing_threat_intel_generation,
\* rollback_intel_generation, delete_intel_source).
THEOREM ServiceIsKept == Spec => ImplementsService
<1>1. Init => ServiceInv
  BY InitType, InitStore, OfferedInit DEF ServiceInv, IntegrityInv
<1>2. ServiceInv /\ [Next]_vars => ServiceInv'
  BY IntegrityInductive, OfferedNext DEF ServiceInv
<1> QED
  BY <1>1, <1>2, InitIsServed, StepIsServed, PTL DEF Spec, ImplementsService, Service!Spec

===============================================================================
