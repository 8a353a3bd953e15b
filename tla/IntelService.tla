----------------------------- MODULE IntelService -----------------------------
(***************************************************************************)
(* What the managed feeds promise the classifiers (docs/ARCHITECTURE.md,   *)
(* "Threat-intelligence feeds"): per source, the indicators they read are  *)
(* those of one whole payload that a feed server once published; updates   *)
(* and rollbacks replace it in one step; it never goes away while the      *)
(* source is configured, whatever fails.                                   *)
(***************************************************************************)
CONSTANTS Sources, Contents

VARIABLES
    serving,   \* the payloads whose indicators are active, per source
    library,   \* the payloads stored for a source
    offered    \* every payload a server has published

vars == <<serving, library, offered>>

Init ==
    /\ serving = [s \in Sources |-> {}]
    /\ library = [s \in Sources |-> {}]
    /\ offered \in SUBSET Contents

Publish(c) ==
    /\ offered' = offered \cup {c}
    /\ UNCHANGED <<serving, library>>

\* An update activates a payload, a new one or one of the library.
Activate(s, c) ==
    /\ c \in offered
    /\ serving' = [serving EXCEPT ![s] = {c}]
    /\ library' = [library EXCEPT ![s] = @ \cup {c}]
    /\ UNCHANGED offered

\* A rollback goes back to a stored payload, never to nothing.
GoBack(s, c) ==
    /\ serving[s] # {}
    /\ c \in library[s]
    /\ serving' = [serving EXCEPT ![s] = {c}]
    /\ UNCHANGED <<library, offered>>

\* Removing the source forgets its payloads.
Forget(s) ==
    /\ serving' = [serving EXCEPT ![s] = {}]
    /\ library' = [library EXCEPT ![s] = {}]
    /\ UNCHANGED offered

Next ==
    \/ \E c \in Contents : Publish(c)
    \/ \E s \in Sources, c \in Contents : Activate(s, c) \/ GoBack(s, c)
    \/ \E s \in Sources : Forget(s)

Spec == Init /\ [][Next]_vars

===============================================================================
