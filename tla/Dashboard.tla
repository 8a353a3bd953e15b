----------------------------- MODULE Dashboard -----------------------------
(***************************************************************************)
(* The dashboard: the server of ui/dashboard.py and the page it delivers.  *)
(*                                                                         *)
(* The server answers every request in a thread of its own.  A handler is  *)
(* a sequence of transactions of core.db, each an action; most of the      *)
(* reading ones run within readonly_database(), which switches a variable  *)
(* of the whole process (db._readonly_database_mode) and puts back what it *)
(* found.  Answers reach the page in any order.                            *)
(*                                                                         *)
(* The page polls what it shows of the audit log and of the rules, opens   *)
(* decisions of one domain, and sends rules and feedback.  It runs in the  *)
(* only tab of its browser, so its CSRF token is the session's.  The two   *)
(* polls stand for those of the other tables, whose handlers are alike;    *)
(* those that neither write nor switch the mode are left out.              *)
(***************************************************************************)
EXTENDS DecisionHistory

CONSTANTS
    Threads,        \* requests that may be under way
    Offers,         \* the kinds of requests the page sends
    LimitOfFailures, \* LOGIN_FAILURE_LIMIT
    FailureWindow   \* LOGIN_FAILURE_WINDOW_SECONDS

\* Bounds: rules and feedback that are sent, logins with a wrong password, and
\* restarts of the server.
CONSTANTS MaxWrites, MaxWrong, MaxRestarts

Polls == {"actions", "rules"}
Writers == {"rule", "feedback"}
Kinds == Polls \cup Writers \cup {"explain", "decision", "compare"}

ASSUME DashboardAssumption ==
    /\ Offers \subseteq Kinds
    /\ IsFiniteSet(Threads)
    /\ LimitOfFailures \in Nat \ {0}
    /\ FailureWindow \in Nat

ASSUME DashboardBounds == {MaxWrites, MaxWrong, MaxRestarts} \subseteq Nat

VARIABLES
    readonly, \* _readonly_database_mode
    failures, \* LOGIN_FAILURES of the user: the ages of the stamps
    session,  \* the browser's cookie is that of a session
    request,  \* the requests of the page, by thread
    page,     \* the page in the browser: "login" or "home"
    panel,    \* what the page shows of the audit log and of the rules
    count     \* how often each bounded thing happened

dashboardVars == <<historyVars, readonly, failures, session, request, page, panel, count>>

Ids == 0 .. MaxDecisions
Values == Nat \cup Rules

Request == [kind : Kinds \cup {"none"},
            pc   : {"none", "sent", "working", "answered"},
            todo : Seq((Reads \cup Writes) \X Ids),
            got  : Seq(Values),
            found : BOOLEAN,
            before : BOOLEAN,
            cookie : BOOLEAN,
            heard : BOOLEAN]

NoRequest == [kind |-> "none", pc |-> "none", todo |-> <<>>, got |-> <<>>,
              found |-> TRUE, before |-> FALSE,
              cookie |-> FALSE, heard |-> TRUE]

\* todo: what the handler of a request does, transaction by transaction.
Ask(kind, todo) ==
    [NoRequest EXCEPT !.kind = kind, !.pc = "sent", !.todo = todo, !.cookie = session]

Decision(id) == << <<"row", id>>, <<"evidence", id>> >>

Compare(older, newer) == Decision(older) \o Decision(newer)

Explain == << <<"latest evidence", 0>>, <<"record", 0>> >>

\* add_rule, or with "none" remove_rule.  With apply it goes on to block(),
\* which is part of EventPipeline.
ChangeRule(decision) == << <<decision, 0>>, <<"action", 0>> >>

\* record_feedback; a verdict but "noisy" promotes to a rule first.
Feedback(promoted) ==
    (IF promoted = "none" THEN <<>> ELSE ChangeRule(promoted))
    \o << <<"record", 0>>, <<"action", 0>> >>

ReadsOnly(kind) == kind \notin Writers

NothingShown == [actions |-> 0, rules |-> "none"]

DashboardInit ==
    /\ HistoryInit
    /\ readonly = FALSE
    /\ failures = <<>>
    /\ session = FALSE
    /\ request = [t \in Threads |-> NoRequest]
    /\ page = "login"
    /\ panel = NothingShown
    /\ count = [write |-> 0, wrong |-> 0, restart |-> 0]

-----------------------------------------------------------------------------
(* The page *)

Free(t) == request[t] = NoRequest

Send(t, kind, todo) ==
    /\ page = "home"
    /\ kind \in Offers
    /\ Free(t)
    /\ request' = [request EXCEPT ![t] = Ask(kind, todo)]
    /\ UNCHANGED <<historyVars, readonly, failures, session, page, panel>>

\* setInterval: whether or not the last answer has come.
Poll(t, kind) ==
    /\ Send(t, kind, << <<IF kind = "actions" THEN "audit" ELSE "rule", 0>> >>)
    /\ UNCHANGED count

\* explainDomain, loadHistoricalDecision and compareDecisions: the page offers
\* the decisions that the list of the history had.
Open(t) ==
    /\ \/ Send(t, "explain", Explain)
       \/ \E id \in 1 .. latest : Send(t, "decision", Decision(id))
       \/ \E id \in 2 .. latest : Send(t, "compare", Compare(id - 1, id))
    /\ UNCHANGED count

\* saveRule and removeRule, which is offered for a rule the page shows, and
\* saveFeedback.
Change(t) ==
    /\ count.write < MaxWrites
    /\ count' = [count EXCEPT !.write = @ + 1]
    /\ \E decision \in Rules :
          \/ /\ decision = "none" => panel.rules # "none"
             /\ Send(t, "rule", ChangeRule(decision))
          \/ Send(t, "feedback", Feedback(decision))

Faulty_Rendered(kind, seen) ==
    IF panel[kind] = NothingShown[kind] THEN [panel EXCEPT ![kind] = seen] ELSE panel
Rendered(kind, seen) == [panel EXCEPT ![kind] = seen]

\* The answer of a poll is rendered, and a refused write goes unnoticed.
Receive(t) ==
    /\ request[t].pc = "answered"
    /\ request' = [request EXCEPT ![t] = NoRequest]
    /\ panel' = IF request[t].kind \in Polls
                THEN Rendered(request[t].kind, request[t].got[1]) ELSE panel
    /\ UNCHANGED <<historyVars, readonly, failures, session, page, count>>

\* checkedFetch: an answer 401 leads to the login page.  The page is gone and
\* with it whoever waits for an answer, but the server works on.
Unheard(r) == IF r.pc \in {"none", "answered"} THEN NoRequest ELSE [r EXCEPT !.heard = FALSE]

ToLogin(requests) ==
    /\ page' = "login"
    /\ panel' = NothingShown
    /\ request' = [t \in Threads |-> Unheard(requests[t])]

-----------------------------------------------------------------------------
(* The server *)

\* security_gate, by the cookie the request came with (the session is in the
\* cookie); then the handler begins, and readonly_database() switches the mode.
Accept(t) ==
    /\ request[t].pc = "sent"
    /\ \/ /\ request[t].cookie
          /\ request' = [request EXCEPT ![t].pc = "working", ![t].before = readonly]
          /\ readonly' = (readonly \/ ReadsOnly(request[t].kind))
          /\ UNCHANGED <<page, panel>>
       \/ /\ ~request[t].cookie
          /\ LET others == [request EXCEPT ![t] = NoRequest] IN
             IF request[t].heard
             THEN ToLogin(others)
             ELSE request' = others /\ UNCHANGED <<page, panel>>
          /\ UNCHANGED readonly
    /\ UNCHANGED <<historyVars, failures, session, count>>

Faulty_ModeAfter(t) == readonly
ModeAfter(t) == IF ReadsOnly(request[t].kind) THEN request[t].before ELSE readonly

\* The end of the handler, and of readonly_database().  SESSION_REFRESH_EACH_REQUEST: the
\* answer renews the cookie of its session, even if a logout has taken it away meanwhile.
Answer(t) ==
    /\ request[t].pc = "working"
    /\ request[t].todo = <<>>
    /\ request' = [request EXCEPT ![t] = IF @.heard
                                         THEN [@ EXCEPT !.pc = "answered", !.before = FALSE]
                                         ELSE NoRequest]
    /\ readonly' = ModeAfter(t)
    /\ session' \in {session, TRUE}
    /\ UNCHANGED <<historyVars, failures, page, panel, count>>

\* A handler stops where a decision is not found: LookupError, 404.
ReadNext(t) ==
    LET r    == request[t]
        next == Head(r.todo)
        seen == Read(next[1], next[2])
        lost == next[1] = "row" /\ seen = 0
    IN
    /\ r.pc = "working"
    /\ r.todo # <<>>
    /\ next[1] \in Reads
    /\ request' = [request EXCEPT ![t].todo = IF lost THEN <<>> ELSE Tail(r.todo),
                                  ![t].got = Append(@, seen),
                                  ![t].found = ~lost]
    /\ UNCHANGED <<historyVars, readonly, failures, session, page, panel, count>>

\* transaction() on a connection that get_connection opened by the mode.
Refuses == readonly

\* A refused write raises: the handler ends with a 500, and what it wrote
\* before stays.  remove_rule writes no audit row where there was no rule.
WriteNext(t) ==
    LET r    == request[t]
        next == Head(r.todo)
        ref  == IF r.got = <<>> THEN 0 ELSE r.got[1]
    IN
    /\ r.pc = "working"
    /\ r.todo # <<>>
    /\ next[1] \in Writes
    /\ IF Refuses THEN UNCHANGED historyVars ELSE Write(next[1], ref)
    /\ request' = [request EXCEPT ![t].todo = IF Refuses \/ (next[1] = "none" /\ rule = "none")
                                              THEN <<>> ELSE Tail(r.todo),
                                  ![t].found = ~Refuses]
    /\ UNCHANGED <<readonly, failures, session, page, panel, count>>

-----------------------------------------------------------------------------
(* Logins *)

\* login_is_throttled
Recent == SelectSeq(failures, LAMBDA age : age <= FailureWindow)
Throttled == Len(Recent) >= LimitOfFailures

Faulty_AfterThrottled == Append(failures, 0)
AfterThrottled == failures

\* The user submits the right password.
Login ==
    /\ page = "login"
    /\ \/ /\ Throttled
          /\ failures' = AfterThrottled
          /\ UNCHANGED <<session, page>>
       \/ /\ ~Throttled
          /\ failures' = <<>>
          /\ session' = TRUE
          /\ page' = "home"
    /\ UNCHANGED <<historyVars, readonly, request, panel, count>>

\* A wrong one, with the same name and from the same address.
WrongLogin ==
    /\ count.wrong < MaxWrong
    /\ page = "login"
    /\ count' = [count EXCEPT !.wrong = @ + 1]
    /\ failures' = IF Throttled THEN AfterThrottled ELSE Append(failures, 0)
    /\ UNCHANGED <<historyVars, readonly, session, request, page, panel>>

Logout ==
    /\ page = "home"
    /\ session' = FALSE
    /\ ToLogin(request)
    /\ UNCHANGED <<historyVars, readonly, failures, count>>

\* Stamps grow older; those that no comparison tells apart are forgotten.
Tick ==
    /\ failures # <<>>
    /\ failures' = SelectSeq([i \in DOMAIN failures |-> failures[i] + 1],
                             LAMBDA age : age <= FailureWindow)
    /\ UNCHANGED <<historyVars, readonly, session, request, page, panel, count>>

\* The server restarts: without a secret of its own the sessions are gone, and
\* the memory of the process is.
Restart ==
    /\ count.restart < MaxRestarts
    /\ count' = [count EXCEPT !.restart = @ + 1]
    /\ readonly' = FALSE
    /\ failures' = <<>>
    /\ session' \in {session, FALSE}
    /\ request' = [t \in Threads |-> NoRequest]
    /\ UNCHANGED <<historyVars, page, panel>>

-----------------------------------------------------------------------------
Others == <<readonly, failures, session, request, page, panel, count>>

Engine == SaveDecision /\ UNCHANGED Others
Maintenance == CleanUp /\ UNCHANGED Others

Server(t) == Accept(t) \/ ReadNext(t) \/ WriteNext(t) \/ Answer(t) \/ Receive(t)

DashboardNext ==
    \/ Engine \/ Maintenance \/ Login \/ WrongLogin \/ Logout \/ Tick \/ Restart
    \/ \E t \in Threads : \/ \E kind \in Polls : Poll(t, kind)
                          \/ Open(t) \/ Change(t) \/ Server(t)

\* Requests are answered, the page polls by its timers, the user tries to log
\* in again and again, and time passes.
DashboardFairness ==
    /\ \A t \in Threads : WF_dashboardVars(Server(t))
    /\ \A kind \in Polls : SF_dashboardVars(\E t \in Threads : Poll(t, kind))
    /\ WF_dashboardVars(Login)
    /\ WF_dashboardVars(Tick)

DashboardSpec == DashboardInit /\ [][DashboardNext]_dashboardVars
FairDashboardSpec == DashboardSpec /\ DashboardFairness

-----------------------------------------------------------------------------
(* Properties *)

DashboardTypeOK ==
    /\ HistoryTypeOK
    /\ readonly \in BOOLEAN
    /\ failures \in Seq(0 .. FailureWindow)
    /\ session \in BOOLEAN
    /\ request \in [Threads -> Request]
    /\ page \in {"login", "home"}
    /\ panel \in [Polls -> Values]
    /\ count \in [write : Nat, wrong : Nat, restart : Nat]

\* explain_domain reads the evidence and the record in transactions of their
\* own, while the engine saves and retention deletes.  The explanation of the
\* latest decision may show the evidence of the decision before it, but never
\* of a later one; a decision of the history comes with its evidence, or
\* retention has deleted it meanwhile.
ExplanationIsSound ==
    \A t \in Threads :
       LET got == request[t].got IN
       request[t].pc = "answered" /\ request[t].found =>
          /\ request[t].kind = "explain" => got[1] <= got[2]
          /\ request[t].kind \in {"decision", "compare"} =>
                \A i \in 1 .. Len(got) \div 2 :
                   got[2 * i] # got[2 * i - 1] => got[2 * i - 1] \notin DOMAIN history

\* Once audit log and rules rest, a page that stays open shows them as they
\* are, although answers overtake each other and the page renders whichever
\* comes last.
PanelCatchesUp ==
    <>[](page = "home" /\ session) /\ <>[][UNCHANGED <<audit, rule>>]_dashboardVars
    => <>[](panel = [actions |-> audit.rows, rules |-> rule])

\* A user who keeps trying gets in: a lockout ends, whatever he submits while
\* it lasts.
LoginSucceeds == []<>(page = "home")

\* db.readonly_database: "Force query helpers to use read-only SQLite
\* connections without migration", within the block.
ReadOnlyEndsWithItsBlock ==
    readonly => \E t \in Threads : request[t].pc = "working" /\ ReadsOnly(request[t].kind)
=============================================================================
