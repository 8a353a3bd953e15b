-------------------------- MODULE DecisionHistory --------------------------
(***************************************************************************)
(* The stored decisions of a domain: core/db.py from save_analysis_with_   *)
(* decision to cleanup_decision_history, with the reads that               *)
(* pihole_ai/explain.py and the writes that pihole_ai/feedback.py make.    *)
(*                                                                         *)
(* Decisions are numbered in the order in which they are saved.  A stamp   *)
(* is a created_at: the clock may be set back, so the stamps of later      *)
(* decisions may be lower.  The tables decision_records and                *)
(* decision_evidence hold the newest decision of the domain; history and   *)
(* evidence stand for decision_history and decision_history_evidence.      *)
(*                                                                         *)
(* A definition Faulty_X is X with a fault that a change of the code could *)
(* introduce; no specification uses it.                                    *)
(***************************************************************************)
EXTENDS Integers, FiniteSets, Sequences, SequencesExt

CONSTANTS
    Stamps,       \* times at which decisions are made and retention runs
    MaxPerDomain, \* settings.decision_history_max_per_domain
    BatchSize     \* batch_size of cleanup_decision_history

\* Bound: decisions that are saved.
CONSTANT MaxDecisions

ASSUME HistoryAssumption ==
    /\ Stamps \subseteq Nat
    /\ MaxPerDomain \in Nat \ {0}
    /\ BatchSize \in Nat \ {0}

ASSUME HistoryBounds == MaxDecisions \in Nat

VARIABLES
    latest,   \* the newest decision; 0 before the first
    history,  \* the rows of decision_history by decision
    evidence, \* the decisions of which evidence rows are kept
    rule,     \* domain_rules: the rule of the domain
    audit     \* action_audit: the number of rows, and the decisions they refer to

historyVars == <<latest, history, evidence, rule, audit>>

Rules == {"none", "allow", "block"}

Row == [created : Stamps, supersedes : Nat]

HistoryInit ==
    /\ latest = 0
    /\ history = <<>>
    /\ evidence = {}
    /\ rule = "none"
    /\ audit = [rows |-> 0, refs |-> {}]

-----------------------------------------------------------------------------
(* Writers *)

\* decision_records and decision_evidence hold the new decision and its evidence.
Projected == latest + 1

\* The history with the next decision, which supersedes the latest one.
WithDecision(stamp) ==
    [id \in DOMAIN history \cup {latest + 1} |->
        IF id \in DOMAIN history THEN history[id]
        ELSE [created |-> stamp, supersedes |-> latest]]

\* save_analysis_with_decision, one transaction.
SaveDecision ==
    /\ latest < MaxDecisions
    /\ latest' = Projected
    /\ \E stamp \in Stamps : history' = WithDecision(stamp)
    /\ evidence' = evidence \cup {latest + 1}
    /\ UNCHANGED <<rule, audit>>

\* ORDER BY created_at DESC, decision_id DESC: the ids are random, so rows of
\* the same time come in any order.
NewestFirst ==
    {rows \in SetToSeqs(DOMAIN history) :
        \A i, j \in DOMAIN rows :
           i < j => history[rows[i]].created >= history[rows[j]].created}

Faulty_Protected(id) == id = latest
Protected(id) == id = latest \/ id \in audit.refs

\* The rows that neither protection nor retention keeps, newest first.
Eligible(rows, cutoff) ==
    LET goes == {i \in DOMAIN rows : /\ ~Protected(rows[i])
                                     /\ \/ i > MaxPerDomain
                                        \/ history[rows[i]].created < cutoff}
        All[i \in 0 .. Len(rows)] ==
            IF i = 0 THEN <<>>
            ELSE IF i \in goes THEN Append(All[i - 1], rows[i]) ELSE All[i - 1]
    IN All[Len(rows)]

\* The rows that go: all domains share a batch, so of this one there may be any number.
Batch(eligible, n) == SubSeq(eligible, 1, n)
Batches(eligible) ==
    {Batch(eligible, n) : n \in {m \in 1 .. BatchSize : m <= Len(eligible)}}

\* One after the other, the rows that supersede a doomed one are linked to
\* the one before it.
Faulty_Relink(rows, id) ==
    [n \in DOMAIN rows |->
       IF rows[n].supersedes = id
       THEN [rows[n] EXCEPT !.supersedes = history[id].supersedes] ELSE rows[n]]
Relink(rows, id) ==
    [n \in DOMAIN rows |->
       IF rows[n].supersedes = id
       THEN [rows[n] EXCEPT !.supersedes = rows[id].supersedes] ELSE rows[n]]

Relinked(doomed) ==
    LET After[i \in 0 .. Len(doomed)] ==
            IF i = 0 THEN history ELSE Relink(After[i - 1], doomed[i])
    IN After[Len(doomed)]

Faulty_EvidenceOf(eligible, doomed) == ToSet(eligible)
EvidenceOf(eligible, doomed) == ToSet(doomed)

\* cleanup_decision_history, one transaction.
CleanUp ==
    \E rows \in NewestFirst, cutoff \in Stamps :
       LET eligible == Eligible(rows, cutoff) IN
       \E doomed \in Batches(eligible) :
          LET linked == Relinked(doomed) IN
          /\ history' = [id \in DOMAIN history \ ToSet(doomed) |-> linked[id]]
          /\ evidence' = evidence \ EvidenceOf(eligible, doomed)
          /\ UNCHANGED <<latest, rule, audit>>

-----------------------------------------------------------------------------
(* Single transactions of the readers and of rules and feedback, by name;  *)
(* a reader of decisions gets one, or 0 for none.                          *)

Stored(ids, id) == IF id \in ids THEN id ELSE 0

Read(table, id) ==
    CASE table = "record"   -> latest
      [] table = "latest evidence" -> latest
      [] table = "row"      -> Stored(DOMAIN history, id)
      [] table = "evidence" -> Stored(evidence, id)
      [] table = "audit"    -> audit.rows
      [] table = "rule"     -> rule

Reads == {"record", "latest evidence", "row", "evidence", "audit", "rule"}

\* save_domain_rule, or with "none" delete_domain_rule.
SaveRule(decision) ==
    /\ rule' = decision
    /\ UNCHANGED <<latest, history, evidence, audit>>

RecordAction(ref) ==
    /\ audit' = [rows |-> audit.rows + 1,
                 refs |-> IF ref = 0 THEN audit.refs ELSE audit.refs \cup {ref}]
    /\ UNCHANGED <<latest, history, evidence, rule>>

\* A transaction of a writer: a rule to save, or an audit row.
Write(step, ref) == IF step = "action" THEN RecordAction(ref) ELSE SaveRule(step)

Writes == Rules \cup {"action"}

-----------------------------------------------------------------------------
(* Properties *)

HistoryTypeOK ==
    /\ latest \in 0 .. MaxDecisions
    /\ DOMAIN history \subseteq 1 .. latest
    /\ \A id \in DOMAIN history : history[id] \in Row
    /\ evidence \subseteq 1 .. latest
    /\ rule \in Rules
    /\ audit.rows \in Nat
    /\ audit.refs \subseteq 1 .. latest

\* The kept decisions of a domain form one chain from the newest to the
\* oldest: each supersedes the one that was saved last before it and is still
\* kept, however many were deleted between them, in whatever order of their
\* stamps (docs/DATABASE.md on the retention of decision_history).
HistoryIsChained ==
    \A id \in DOMAIN history :
       LET earlier == {n \in DOMAIN history : n < id}
       IN history[id].supersedes = IF earlier = {} THEN 0
                                   ELSE CHOOSE n \in earlier : \A m \in earlier : m <= n

\* The newest decision is never deleted, nor evidence of a kept one, nor a decision that
\* feedback refers to ("preserving latest and feedback references", src/core/db.py:1371).
HistoryIsWhole ==
    /\ [](evidence = DOMAIN history /\ (latest > 0 => latest \in DOMAIN history))
    /\ [][DOMAIN history \cap audit.refs \subseteq DOMAIN history']_historyVars
=============================================================================
