----------------------------- MODULE WebSessions -----------------------------
(***************************************************************************)
(* session_manager.cc, and what the web requests of web_request_handler.cc *)
(* and web/auth.cc do with a session.  A session collects the containers   *)
(* that changed until its client fetches them; the timer removes the       *)
(* sessions that are no longer used.                                       *)
(*                                                                         *)
(* mutex is the one of SessionManager, held by "reporter" over all of      *)
(* containerChangedUI(); the sections of the other callers are one step    *)
(* that needs it free.  The mutex of a session guards one step always.     *)
(***************************************************************************)
EXTENDS Integers, FiniteSets

CONSTANTS
  Sessions,             \* the identifiers generate_random_id() hands out
  Clients,              \* threads of the web server, each with one request
  Containers,
  MaxUpdateIDs,         \* MAX_UI_UPDATE_IDS
  Timeout,              \* ticks after which an unused session is removed
  Accounts              \* the user interface asks for a password

None == "none"

\* What the constants are, ASSUMEd where they have values.
WebSessionsAssumption ==
  /\ MaxUpdateIDs \in Nat \ {0} /\ Timeout \in Nat \ {0} /\ Accounts \in BOOLEAN
  /\ IsFiniteSet(Sessions) /\ IsFiniteSet(Containers)
  /\ None \notin Sessions

VARIABLES
  sessions, timerAdded, subscribed, mutex,
  used,                 \* identifiers that were given out
  loggedIn, uiUpdateIDs, updateAll,
  idle,                 \* ticks since last_access
  request,              \* of each client: where it is and its session
  report,               \* containerChangedUI(): what changed, who is left, who is looked at
  owed                  \* history: changes reported and not fetched

managed == <<sessions, timerAdded, subscribed, mutex, used>>
session == <<loggedIn, uiUpdateIDs, updateAll>>
vars    == <<managed, session, idle, request, report, owed>>

NoReport == [ids |-> {}, left |-> {}, at |-> None, array |-> FALSE]
Ready == [pc |-> "ready", s |-> None]

Init ==
  /\ sessions = {} /\ timerAdded = FALSE /\ subscribed = FALSE /\ mutex = None /\ used = {}
  /\ loggedIn = {} /\ uiUpdateIDs = [s \in Sessions |-> {}] /\ updateAll = {}
  /\ idle = [s \in Sessions |-> 0]
  /\ request = [c \in Clients |-> Ready]
  /\ report = NoReport
  /\ owed = [s \in Sessions |-> {}]

(***************************************************************************)
(* SessionManager                                                          *)
(***************************************************************************)
(* checkTimer() after the list became S.                                   *)
Checked(S) ==
  IF S # {} /\ ~timerAdded THEN timerAdded' = TRUE /\ subscribed' = TRUE
  ELSE IF S = {} /\ timerAdded THEN timerAdded' = FALSE /\ subscribed' = FALSE
  ELSE UNCHANGED <<timerAdded, subscribed>>

(* Mutant of Removed: the timer is not asked to stop.                      *)
RemovedOnly(S) == sessions' = sessions \ S /\ UNCHANGED <<timerAdded, subscribed>>
Removed(S) == sessions' = sessions \ S /\ Checked(sessions \ S)

(* The timer thread, when the manager is subscribed.                       *)
Expired == {s \in sessions : idle[s] > Timeout}

timerNotify ==
  /\ subscribed /\ mutex = None
  /\ Expired # {}
  /\ Removed(Expired)
  /\ UNCHANGED <<mutex, used, session, idle, request, report, owed>>

Tick ==
  /\ \E s \in sessions : idle[s] <= Timeout
  /\ idle' = [s \in Sessions |-> IF s \in sessions /\ idle[s] <= Timeout THEN idle[s] + 1 ELSE idle[s]]
  /\ UNCHANGED <<managed, session, request, report, owed>>

(* containerChangedUI(): every session that is logged in.  A call with an  *)
(* array treats the limit in a way of its own.                             *)
containerChangedUI ==
  /\ mutex = None /\ sessions # {} /\ report = NoReport
  /\ mutex' = "reporter"
  /\ \E ids \in SUBSET Containers \ {{}}, array \in BOOLEAN :
       /\ ~array => Cardinality(ids) = 1
       /\ report' = [ids |-> ids, left |-> sessions, at |-> None, array |-> array]
  /\ UNCHANGED <<sessions, timerAdded, subscribed, used, session, idle, request, owed>>

(* updateAll is read without the mutex of the session first.               *)
ReportLooks ==
  /\ mutex = "reporter" /\ report.at = None
  /\ \E s \in report.left :
       LET shown == s \in loggedIn IN
       /\ report' = [report EXCEPT !.left = @ \ {s},
                                   !.at = IF shown /\ s \notin updateAll THEN s ELSE None]
       /\ owed' = IF shown THEN [owed EXCEPT ![s] = @ \union report.ids] ELSE owed
  /\ UNCHANGED <<managed, session, idle, request>>

TooMany(s) ==
  Cardinality(uiUpdateIDs[s]) + (IF report.array THEN Cardinality(report.ids) ELSE 0) >= MaxUpdateIDs

(* Mutant of Overflown: the containers are dropped.                        *)
OverflownSilently(s) == UNCHANGED updateAll
Overflown(s) == updateAll' = updateAll \union {s}

Cleared(s) == {}

ReportMarks ==
  LET s == report.at IN
  /\ mutex = "reporter" /\ s # None
  /\ IF s \in updateAll THEN UNCHANGED <<uiUpdateIDs, updateAll>>
     ELSE IF TooMany(s)
     THEN uiUpdateIDs' = [uiUpdateIDs EXCEPT ![s] = Cleared(s)] /\ Overflown(s)
     ELSE uiUpdateIDs' = [uiUpdateIDs EXCEPT ![s] = @ \union report.ids] /\ UNCHANGED updateAll
  /\ report' = [report EXCEPT !.at = None]
  /\ UNCHANGED <<managed, loggedIn, idle, request, owed>>

ReportEnds ==
  /\ mutex = "reporter" /\ report.at = None /\ report.left = {}
  /\ mutex' = None /\ report' = NoReport
  /\ UNCHANGED <<sessions, timerAdded, subscribed, used, session, idle, request, owed>>

(***************************************************************************)
(* The requests                                                            *)
(***************************************************************************)
(* "get_sid": a session that is known is cleared, for the client draws     *)
(* everything anew; otherwise a new one.                                   *)
LogsIn(s) == loggedIn' = IF Accounts THEN loggedIn ELSE loggedIn \union {s}

createSession(c) ==
  /\ request[c] = Ready /\ mutex = None
  /\ \E s \in Sessions \ used :
       /\ sessions' = sessions \union {s} /\ Checked(sessions \union {s})
       /\ used' = used \union {s}
       /\ LogsIn(s)
  /\ UNCHANGED <<mutex, uiUpdateIDs, updateAll, idle, request, report, owed>>

get_sid(c) ==
  /\ request[c] = Ready /\ mutex = None
  /\ \E s \in sessions :
       /\ uiUpdateIDs' = [uiUpdateIDs EXCEPT ![s] = {}] /\ updateAll' = updateAll \ {s}
       /\ owed' = [owed EXCEPT ![s] = {}]
       /\ LogsIn(s)
  /\ UNCHANGED <<managed, idle, request, report>>

(* check_request(): the session is looked up under the mutex and used      *)
(* without it; "login" does not ask for a login.                           *)
getSession(c) ==
  /\ request[c] = Ready /\ mutex = None
  /\ \E s \in sessions, action \in {"page", "logout", "login"} :
       request' = [request EXCEPT ![c] = [pc |-> action, s |-> s]]
  /\ UNCHANGED <<managed, session, idle, report, owed>>

At(c, pc) == request[c].pc = pc
Done(c)   == request' = [request EXCEPT ![c] = Ready]
Accessed(s) == idle' = [idle EXCEPT ![s] = 0]

NotLoggedIn(c) ==
  /\ request[c].pc \in {"page", "logout"} /\ request[c].s \notin loggedIn
  /\ Done(c)
  /\ UNCHANGED <<managed, session, idle, report, owed>>

Page(c) ==
  /\ At(c, "page") /\ request[c].s \in loggedIn
  /\ Accessed(request[c].s)
  /\ \E next \in {"fetches", "ready"} :
       request' = [request EXCEPT ![c] = IF next = "ready" THEN Ready ELSE [@ EXCEPT !.pc = next]]
  /\ UNCHANGED <<managed, session, report, owed>>

Logout(c) ==
  /\ At(c, "logout") /\ request[c].s \in loggedIn /\ mutex = None
  /\ Accessed(request[c].s)
  /\ Removed({request[c].s})
  /\ Done(c)
  /\ UNCHANGED <<mutex, used, session, report, owed>>

(* The session is looked up once more; the token may have expired and the  *)
(* password be wrong.                                                      *)
Login(c) ==
  LET s == request[c].s IN
  /\ At(c, "login") /\ mutex = None
  /\ Accessed(s)
  /\ \E right \in BOOLEAN :
       loggedIn' = IF s \in sessions /\ right /\ Accounts
                   THEN loggedIn \union {s} ELSE loggedIn
  /\ Done(c)
  /\ UNCHANGED <<managed, uiUpdateIDs, updateAll, report, owed>>

(* hasUIUpdateIDs() without the mutex, then the answer under it.           *)
hasUIUpdateIDs(c) ==
  LET s == request[c].s IN
  /\ At(c, "fetches")
  /\ request' = [request EXCEPT ![c] = IF s \in updateAll \/ uiUpdateIDs[s] # {}
                                       THEN [@ EXCEPT !.pc = "takes"] ELSE Ready]
  /\ UNCHANGED <<managed, session, idle, report, owed>>

Taken(s) == IF s \in updateAll THEN Containers ELSE uiUpdateIDs[s]

getUIUpdateIDs(c) ==
  LET s == request[c].s IN
  /\ At(c, "takes")
  /\ owed' = [owed EXCEPT ![s] = @ \ Taken(s)]
  /\ updateAll' = updateAll \ {s}
  /\ uiUpdateIDs' = IF s \in updateAll THEN uiUpdateIDs ELSE [uiUpdateIDs EXCEPT ![s] = {}]
  /\ Done(c)
  /\ UNCHANGED <<managed, loggedIn, idle, report>>

Request(c) ==
  \/ createSession(c) \/ get_sid(c) \/ getSession(c)
  \/ NotLoggedIn(c) \/ Page(c) \/ Logout(c) \/ Login(c)
  \/ hasUIUpdateIDs(c) \/ getUIUpdateIDs(c)

Reporting == ReportLooks \/ ReportMarks \/ ReportEnds
Report == containerChangedUI \/ Reporting

Next == timerNotify \/ Tick \/ Report \/ \E c \in Clients : Request(c)

(* The idle, the timer and a report that has begun go on; no client has   *)
(* to ask for anything.                                                    *)
Fairness == SF_vars(timerNotify) /\ WF_vars(Tick) /\ WF_vars(Reporting)

Spec == Init /\ [][Next]_vars /\ Fairness

(***************************************************************************)
(* Properties                                                              *)
(***************************************************************************)
(* Every variable has its type (SessionManager, Session).                  *)
TypeOK ==
  /\ sessions \subseteq Sessions /\ used \subseteq Sessions /\ loggedIn \subseteq Sessions
  /\ updateAll \subseteq Sessions /\ mutex \in {None, "reporter"}
  /\ timerAdded \in BOOLEAN /\ subscribed \in BOOLEAN
  /\ uiUpdateIDs \in [Sessions -> SUBSET Containers] /\ owed \in [Sessions -> SUBSET Containers]
  /\ idle \in [Sessions -> 0..Timeout + 1]

(* What was reported to a session and not fetched is in the next answer,   *)
(* unless the report is still at work on it: the two unlocked looks at     *)
(* updateAll and at the set lose no container.                             *)
ChangesReachUI ==
  \A s \in sessions \ {report.at} :
    s \notin updateAll => owed[s] \subseteq uiUpdateIDs[s]

(* The set never grows beyond its limit, and "all" leaves it empty.        *)
UpdateIDsBounded ==
  \A s \in Sessions :
    /\ Cardinality(uiUpdateIDs[s]) <= MaxUpdateIDs
    /\ s \in updateAll => uiUpdateIDs[s] = {}

(* The timer knows the manager exactly when there are sessions: no session *)
(* without a timeout, no callback for nothing, no subscription twice.      *)
TimerFollowsSessions == timerAdded = (sessions # {}) /\ subscribed = timerAdded

(* A session that is not used is removed.                                  *)
UnusedSessionsExpire == \A s \in Sessions : s \in sessions ~> (s \notin sessions \/ idle[s] = 0)
=============================================================================
