------------------------- MODULE ServerThreads_proof -------------------------
(***************************************************************************)
(* Theorems about components of ServerThreads: of the web sessions, for    *)
(* any sessions, clients, containers and limits, with and without          *)
(* accounts; of the start and the end of the program, for any threads,     *)
(* signals and failures, with and without the backup and timed autoscans;  *)
(* and of the timer, for any subscriptions and intervals.                  *)
(***************************************************************************)
EXTENDS ServerThreads, SequenceTheorems, TLAPS

(***************************************************************************)
(* The web sessions                                                        *)
(***************************************************************************)
Places == {"ready", "page", "logout", "login", "fetches", "takes"}

(* A client that is beyond check_request() works with a session.           *)
RequestInv ==
  /\ request \in [Clients -> [pc : Places, s : Sessions \union {None}]]
  /\ \A c \in Clients : request[c].pc # "ready" => request[c].s \in Sessions

ReportInv == report \in [ids : SUBSET Containers, left : SUBSET Sessions,
                         at : Sessions \union {None}, array : BOOLEAN]

(* A report adds its containers to what a session is owed in one step, and *)
(* to what the session keeps in another: in between, the session that the  *)
(* report looks at is owed at most what the report brings in addition.     *)
OwedInv ==
  \A s \in Sessions : s \notin updateAll =>
    owed[s] \subseteq uiUpdateIDs[s] \union (IF report.at = s THEN report.ids ELSE {})

IInv == TypeOK /\ RequestInv /\ ReportInv /\ OwedInv /\ TimerFollowsSessions

LEMMA InitIInv == ASSUME WebSessionsAssumption, Init PROVE IInv
<1> USE DEF Init, WebSessionsAssumption
<1>1. TypeOK
  <2>1. timerAdded \in BOOLEAN /\ subscribed \in BOOLEAN
    OBVIOUS
  <2>2. idle \in [Sessions -> 0..Timeout + 1]
    OBVIOUS
  <2> HIDE DEF Init
  <2>3. /\ sessions \subseteq Sessions /\ used \subseteq Sessions /\ loggedIn \subseteq Sessions
        /\ updateAll \subseteq Sessions /\ mutex \in {None, "reporter"}
        /\ uiUpdateIDs \in [Sessions -> SUBSET Containers]
        /\ owed \in [Sessions -> SUBSET Containers]
    BY DEF Init
  <2> QED
    BY <2>1, <2>2, <2>3 DEF TypeOK
<1>2. RequestInv
  BY DEF RequestInv, Ready, Places
<1>3. ReportInv /\ OwedInv
  BY DEF ReportInv, OwedInv, NoReport
<1>4. TimerFollowsSessions
  BY DEF TimerFollowsSessions
<1> QED
  BY <1>1, <1>2, <1>3, <1>4 DEF IInv

(* checkTimer() makes the subscription follow the list it is given.        *)
LEMMA CheckedFollows ==
  ASSUME TimerFollowsSessions, timerAdded \in BOOLEAN, NEW S, Checked(S)
  PROVE  timerAdded' \in BOOLEAN /\ timerAdded' = (S # {}) /\ subscribed' = timerAdded'
<1>1. CASE S # {} /\ ~timerAdded
  BY <1>1, Zenon DEF Checked
<1>2. CASE S = {} /\ timerAdded
  BY <1>2, Zenon DEF Checked
<1>3. CASE S # {} /\ timerAdded
  <2>1. UNCHANGED <<timerAdded, subscribed>>
    BY <1>3, Zenon DEF Checked
  <2> QED
    BY <1>3, <2>1, Zenon DEF TimerFollowsSessions
<1>4. CASE S = {} /\ ~timerAdded
  <2>1. UNCHANGED <<timerAdded, subscribed>>
    BY <1>4, Zenon DEF Checked
  <2> QED
    BY <1>4, <2>1, Zenon DEF TimerFollowsSessions
<1> QED
  BY <1>1, <1>2, <1>3, <1>4

(* The types, for the steps that change the sessions or what they keep.    *)
LEMMA TypeStep == ASSUME WebSessionsAssumption, IInv, [Next]_vars PROVE TypeOK'
<1> USE DEF IInv, TypeOK, managed, session
<1>1. CASE timerNotify
  BY <1>1, CheckedFollows DEF timerNotify, Removed
<1>2. CASE Tick
  <2>1. \A s \in Sessions : idle[s] <= Timeout => idle[s] + 1 \in 0..Timeout + 1
    BY DEF WebSessionsAssumption
  <2> QED
    BY <1>2, <2>1 DEF Tick
<1>3. CASE containerChangedUI
  BY <1>3 DEF containerChangedUI
<1>4. CASE ReportLooks
  BY <1>4 DEF ReportLooks, ReportInv
<1>5. CASE ReportMarks
  BY <1>5 DEF ReportMarks, ReportInv, Overflown, Cleared
<1>6. CASE ReportEnds
  BY <1>6 DEF ReportEnds
<1>7. ASSUME NEW c \in Clients, Request(c) PROVE TypeOK'
  <2> USE DEF RequestInv, Places
  <2>0. \A s : [idle EXCEPT ![s] = 0] \in [Sessions -> 0..Timeout + 1]
    <3>1. 0 \in 0..Timeout + 1 /\ idle \in [Sessions -> 0..Timeout + 1]
      BY DEF WebSessionsAssumption
    <3> QED
      BY <3>1
  <2>1. CASE createSession(c)
    BY <2>1, CheckedFollows DEF createSession, LogsIn
  <2>2. CASE get_sid(c)
    BY <2>2 DEF get_sid, LogsIn
  <2>3. CASE getSession(c) \/ NotLoggedIn(c) \/ hasUIUpdateIDs(c)
    BY <2>3 DEF getSession, NotLoggedIn, hasUIUpdateIDs
  <2>4. CASE Page(c)
    BY <2>4, <2>0 DEF Page, Accessed
  <2>5. CASE Logout(c)
    BY <2>5, <2>0, CheckedFollows DEF Logout, Accessed, Removed
  <2>6. CASE Login(c)
    BY <2>6, <2>0 DEF Login, Accessed
  <2>7. CASE getUIUpdateIDs(c)
    BY <2>7 DEF getUIUpdateIDs, At, Taken
  <2> QED
    BY <1>7, <2>1, <2>2, <2>3, <2>4, <2>5, <2>6, <2>7 DEF Request
<1>8. CASE UNCHANGED vars
  BY <1>8 DEF vars
<1> QED
  BY <1>1, <1>2, <1>3, <1>4, <1>5, <1>6, <1>7, <1>8 DEF Next, Report, Reporting

(* Only getSession() brings a session into a request.                      *)
LEMMA RequestStep == ASSUME WebSessionsAssumption, IInv, [Next]_vars PROVE RequestInv'
<1> USE DEF IInv, RequestInv, Places
<1>1. CASE request' = request
  BY <1>1
<1>2. ASSUME NEW c \in Clients, Done(c) PROVE RequestInv'
  BY <1>2 DEF Done, Ready
<1>3. ASSUME NEW c \in Clients, getSession(c) PROVE RequestInv'
  BY <1>3 DEF getSession, TypeOK
<1>4. ASSUME NEW c \in Clients, Page(c) PROVE RequestInv'
  BY <1>4 DEF Page, At, Ready
<1>5. ASSUME NEW c \in Clients, hasUIUpdateIDs(c) PROVE RequestInv'
  BY <1>5 DEF hasUIUpdateIDs, At, Ready
<1>6. ASSUME NEW c \in Clients, Request(c) PROVE RequestInv'
  BY <1>6, <1>1, <1>2, <1>3, <1>4, <1>5
  DEF Request, createSession, get_sid, NotLoggedIn, Logout, Login, getUIUpdateIDs
<1> QED
  BY <1>1, <1>6 DEF Next, Report, Reporting, timerNotify, Tick, containerChangedUI,
                    ReportLooks, ReportMarks, ReportEnds, vars

LEMMA ReportStep == ASSUME WebSessionsAssumption, IInv, [Next]_vars PROVE ReportInv'
<1> USE DEF IInv, ReportInv
<1>1. CASE report' = report
  BY <1>1
<1>2. CASE containerChangedUI
  BY <1>2 DEF containerChangedUI, TypeOK
<1>3. CASE ReportLooks
  BY <1>3 DEF ReportLooks
<1>4. CASE ReportMarks
  BY <1>4 DEF ReportMarks
<1>5. CASE ReportEnds
  BY <1>5 DEF ReportEnds, NoReport
<1> QED
  BY <1>1, <1>2, <1>3, <1>4, <1>5
  DEF Next, Report, Reporting, timerNotify, Tick, Request, createSession, get_sid, getSession,
      NotLoggedIn, Page, Logout, Login, hasUIUpdateIDs, getUIUpdateIDs, vars

(* The step that a session misses nothing by: what is taken off its set is *)
(* answered, and what it is owed comes with the report that looks at it.   *)
LEMMA OwedStep == ASSUME WebSessionsAssumption, IInv, [Next]_vars PROVE OwedInv'
<1> USE DEF IInv, OwedInv
<1>0. None \notin Sessions
  BY DEF WebSessionsAssumption
<1>1. CASE UNCHANGED <<report, owed, uiUpdateIDs, updateAll>>
  BY <1>1
<1>2. CASE containerChangedUI
  BY <1>2, <1>0 DEF containerChangedUI, NoReport, session
<1>3. CASE ReportLooks
  <2>1. PICK s \in report.left :
          /\ report' = [report EXCEPT !.left = @ \ {s},
                          !.at = IF s \in loggedIn /\ s \notin updateAll THEN s ELSE None]
          /\ owed' = IF s \in loggedIn THEN [owed EXCEPT ![s] = @ \union report.ids] ELSE owed
    BY <1>3 DEF ReportLooks
  <2>2. report.at = None /\ UNCHANGED <<uiUpdateIDs, updateAll>>
    BY <1>3 DEF ReportLooks, session
  <2>3. \A t \in Sessions : t \notin updateAll => owed[t] \subseteq uiUpdateIDs[t]
    BY <2>2, <1>0
  <2>4. report'.ids = report.ids
    BY <2>1 DEF ReportInv
  <2>5. ASSUME NEW t \in Sessions, t \notin updateAll, t # s PROVE owed'[t] = owed[t]
    BY <2>1, <2>5 DEF TypeOK
  <2>6. s \in loggedIn /\ s \notin updateAll =>
          owed'[s] \subseteq owed[s] \union report.ids /\ report'.at = s
    BY <2>1 DEF TypeOK, ReportInv
  <2>7. s \notin loggedIn => owed' = owed
    BY <2>1
  <2> QED
    BY <2>2, <2>3, <2>4, <2>5, <2>6, <2>7
<1>4. CASE ReportMarks
  <2> DEFINE s == report.at
  <2>1. s \in Sessions /\ report'.at = None /\ owed' = owed
    BY <1>4 DEF ReportMarks, ReportInv
  <2>2. ASSUME NEW t \in Sessions, t # s
        PROVE  uiUpdateIDs'[t] = uiUpdateIDs[t] /\ (t \in updateAll' <=> t \in updateAll)
    BY <1>4, <2>1, <2>2 DEF ReportMarks, Overflown, TypeOK
  <2>3. s \notin updateAll' => uiUpdateIDs'[s] = uiUpdateIDs[s] \union report.ids /\ s \notin updateAll
    BY <1>4, <2>1 DEF ReportMarks, Overflown, TypeOK
  <2> QED
    BY <2>1, <2>2, <2>3, <1>0
<1>5. CASE ReportEnds
  BY <1>5, <1>0 DEF ReportEnds, NoReport, session
<1>6. ASSUME NEW c \in Clients, get_sid(c) PROVE OwedInv'
  BY <1>6 DEF get_sid, TypeOK
<1>7. ASSUME NEW c \in Clients, getUIUpdateIDs(c) PROVE OwedInv'
  <2> DEFINE s == request[c].s
  <2>1. s \in Sessions
    BY <1>7 DEF getUIUpdateIDs, At, RequestInv
  <2>2. owed[s] \subseteq Containers
    BY <2>1 DEF TypeOK
  <2>3. CASE s \in updateAll
    BY <1>7, <2>1, <2>2, <2>3 DEF getUIUpdateIDs, Taken, TypeOK
  <2>4. CASE s \notin updateAll
    BY <1>7, <2>1, <2>4 DEF getUIUpdateIDs, Taken, TypeOK
  <2> QED
    BY <2>3, <2>4
<1> QED
  BY <1>1, <1>2, <1>3, <1>4, <1>5, <1>6, <1>7
  DEF Next, Report, Reporting, timerNotify, Tick, Request, createSession, getSession,
      NotLoggedIn, Page, Logout, Login, hasUIUpdateIDs, session, vars

(* The sections that change the list also call checkTimer().               *)
LEMMA TimerStep == ASSUME WebSessionsAssumption, IInv, [Next]_vars PROVE TimerFollowsSessions'
<1> USE DEF IInv, TimerFollowsSessions
<1>1. CASE UNCHANGED <<sessions, timerAdded, subscribed>>
  BY <1>1
<1>2. CASE timerNotify
  BY <1>2, CheckedFollows DEF timerNotify, Removed, TypeOK
<1>3. ASSUME NEW c \in Clients, createSession(c) PROVE TimerFollowsSessions'
  BY <1>3, CheckedFollows DEF createSession, TypeOK
<1>4. ASSUME NEW c \in Clients, Logout(c) PROVE TimerFollowsSessions'
  BY <1>4, CheckedFollows DEF Logout, Removed, TypeOK
<1> QED
  BY <1>1, <1>2, <1>3, <1>4
  DEF Next, Report, Reporting, Tick, Request, containerChangedUI, ReportLooks, ReportMarks,
      ReportEnds, get_sid, getSession, NotLoggedIn, Page, Login, hasUIUpdateIDs,
      getUIUpdateIDs, managed, vars

LEMMA StepIInv == ASSUME WebSessionsAssumption, IInv, [Next]_vars PROVE IInv'
BY TypeStep, RequestStep, ReportStep, OwedStep, TimerStep DEF IInv

LEMMA IInvImplies == ASSUME IInv PROVE ChangesReachUI
BY DEF IInv, TypeOK, OwedInv, ChangesReachUI

(* The invariant holds in every reachable state.                           *)
THEOREM SessionsInvariant == WebSessionsAssumption => (Spec => []IInv)
<1> SUFFICES ASSUME WebSessionsAssumption PROVE Spec => []IInv
  OBVIOUS
<1>1. Init => IInv
  BY InitIInv
<1>2. IInv /\ [Next]_vars => IInv'
  BY StepIInv
<1> QED
  BY <1>1, <1>2, PTL DEF Spec

(* No container that was reported to a session is lost, however the report *)
(* (containerChangedUI()), the fetches (hasUIUpdateIDs(), getUIUpdateIDs()) *)
(* and the timer take turns.                                               *)
THEOREM ReportedChangesReachUI == WebSessionsAssumption => (Spec => []ChangesReachUI)
<1>1. IInv => ChangesReachUI
  BY IInvImplies
<1> QED
  BY <1>1, SessionsInvariant, PTL

(* The session manager is subscribed to the timer exactly while it has     *)
(* sessions (checkTimer()).                                                *)
THEOREM TimerIsFollowed == WebSessionsAssumption => (Spec => []TimerFollowsSessions)
<1>1. IInv => TimerFollowsSessions
  BY DEF IInv
<1> QED
  BY <1>1, SessionsInvariant, PTL

(* Every variable keeps its type.                                          *)
THEOREM SessionsAreTyped == WebSessionsAssumption => (Spec => []TypeOK)
<1>1. IInv => TypeOK
  BY DEF IInv
<1> QED
  BY <1>1, SessionsInvariant, PTL

(***************************************************************************)
(* The start and the end of the program                                    *)
(***************************************************************************)
\* The classes that Storage and its shutdown() need; main() creates them and
\* Storage before any thread runs that asks for other classes.
Needs == {"config"} \union (IF Backup THEN {"timer"} ELSE {})
Base  == Needs \union {"storage"}

Before == {"check", "lock"}
Points == Before \union {"constructor", "register", "init", "start", "set"}
Counts == Nat \ {0}
Frame == [c : Lifecycle!Classes, at : Points, i : Counts]

LcTypes ==
  /\ lc_instance \subseteq Lifecycle!Classes /\ lc_active \subseteq Lifecycle!Classes
  /\ lc_holder \in [Lifecycle!Classes -> Lifecycle!Threads \union {Lifecycle!None}]
  /\ lc_stack \in Seq(Lifecycle!Classes)
  /\ lc_frames \in [Lifecycle!Threads -> Seq(Frame)]
  /\ lc_alive \subseteq Workers

Depth(t) == Len(lc_frames[t])
Inner(t) == lc_frames[t][Len(lc_frames[t])]

(* The call d of a thread is behind the mutex of its class: the object of  *)
(* the class is not there, and this thread creates it.                     *)
Creates(t, d, c) ==
  d \in 1..Len(lc_frames[t]) /\ lc_frames[t][d].c = c /\ lc_frames[t][d].at \notin Before

-----------------------------------------------------------------------------
(* What a step of getInstance() does to the calls of its thread.           *)
OnlyCallsOf(t) ==
  /\ lc_frames' \in [Lifecycle!Threads -> Seq(Frame)]
  /\ \A u \in Lifecycle!Threads \ {t} : lc_frames'[u] = lc_frames[u]
Kept(t, n) == \A d \in 1..n : lc_frames'[t][d] = lc_frames[t][d]

Empties(t) == OnlyCallsOf(t) /\ lc_frames'[t] = <<>>
Pops(t) == OnlyCallsOf(t) /\ Len(lc_frames'[t]) = Depth(t) - 1 /\ Kept(t, Depth(t) - 1)
Turns(t, at) ==
  /\ OnlyCallsOf(t) /\ Len(lc_frames'[t]) = Depth(t) /\ Kept(t, Depth(t) - 1)
  /\ LET f == lc_frames'[t][Depth(t)] IN f.c = Inner(t).c /\ f.at = at /\ f.i = 1
Pushes(t, c) ==
  /\ OnlyCallsOf(t) /\ Len(lc_frames'[t]) = Depth(t) + 1 /\ Kept(t, Depth(t) - 1)
  /\ LET f == lc_frames'[t][Depth(t)] IN
       f.c = Inner(t).c /\ f.at = Inner(t).at /\ f.i = Inner(t).i + 1
  /\ LET f == lc_frames'[t][Depth(t) + 1] IN f.c = c /\ f.at = "check" /\ f.i = 1

LEMMA InnerIs ==
  ASSUME LcTypes, NEW t \in Lifecycle!Threads, ~Lifecycle!Idle(t)
  PROVE  /\ Depth(t) \in Nat \ {0} /\ lc_frames[t] \in Seq(Frame)
         /\ Inner(t) \in Frame /\ Lifecycle!Top(t) = Inner(t)
<1>1. lc_frames[t] \in Seq(Frame) /\ lc_frames[t] # <<>>
  BY DEF LcTypes, Lifecycle!Idle
<1>2. Len(lc_frames[t]) \in Nat \ {0}
  BY <1>1
<1> QED BY <1>1, <1>2 DEF Depth, Inner, Lifecycle!Top, Lifecycle!Last

TurnedTo(g, w) == [g EXCEPT !.at = w, !.i = 1]
Advanced(g) == [g EXCEPT !.i = g.i + 1]

LEMMA FrameWith ==
  ASSUME NEW g \in Frame, NEW w \in Points
  PROVE  /\ TurnedTo(g, w) \in Frame
         /\ TurnedTo(g, w).c = g.c /\ TurnedTo(g, w).at = w /\ TurnedTo(g, w).i = 1
         /\ Advanced(g) \in Frame
         /\ Advanced(g).c = g.c /\ Advanced(g).at = g.at /\ Advanced(g).i = g.i + 1
<1>1. 1 \in Counts /\ g.i + 1 \in Counts
  BY DEF Frame, Counts
<1> QED BY <1>1 DEF Frame, TurnedTo, Advanced

LEMMA OneChanges ==
  ASSUME LcTypes, NEW t \in Lifecycle!Threads, NEW r \in Seq(Frame),
         lc_frames' = [lc_frames EXCEPT ![t] = r]
  PROVE  lc_frames'[t] = r /\ OnlyCallsOf(t)
BY DEF LcTypes, OnlyCallsOf

LEMMA EmptiesIs ==
  ASSUME LcTypes, NEW t \in Lifecycle!Threads, lc_frames' = [lc_frames EXCEPT ![t] = <<>>]
  PROVE  Empties(t)
<1>1. <<>> \in Seq(Frame)
  OBVIOUS
<1> QED BY <1>1, OneChanges DEF Empties

(* A sequence without its last element; calls with another innermost one.  *)
LEMMA FrontIs ==
  ASSUME NEW S, NEW s \in Seq(S), s # <<>>
  PROVE  /\ Lifecycle!Front(s) \in Seq(S) /\ Len(Lifecycle!Front(s)) = Len(s) - 1
         /\ \A d \in 1..(Len(s) - 1) : Lifecycle!Front(s)[d] = s[d]
<1>1. Len(s) \in Nat \ {0} /\ Len(s) - 1 \in Nat
  OBVIOUS
<1> DEFINE q == SubSeq(s, 1, Len(s) - 1)
<1>2. q \in Seq(S) /\ Len(q) = Len(s) - 1 /\ \A d \in 1..(Len(s) - 1) : q[d] = s[d]
  <2>1. \A d \in 1..(Len(s) - 1) : s[d] \in S
    BY <1>1
  <2> DEFINE n == Len(s) - 1
  <2>2. n \in Nat /\ n - 1 + 1 = n
    BY <1>1
  <2> HIDE DEF n
  <2>3. /\ SubSeq(s, 1, n) \in Seq(S)
        /\ Len(SubSeq(s, 1, n)) = IF 1 <= n THEN n - 1 + 1 ELSE 0
        /\ \A d \in 1..n - 1 + 1 : SubSeq(s, 1, n)[d] = s[1 + d - 1]
    <3>1. \A d \in 1..n : s[d] \in S
      BY <2>1 DEF n
    <3> QED BY <2>2, <3>1, SubSeqProperties
  <2>4. Len(SubSeq(s, 1, n)) = n
    BY <2>2, <2>3
  <2>5. \A d \in 1..n : SubSeq(s, 1, n)[d] = s[d]
    BY <2>2, <2>3
  <2> QED BY <2>3, <2>4, <2>5 DEF n
<1>3. Lifecycle!Front(s) = q
  BY DEF Lifecycle!Front
<1> QED BY <1>2, <1>3

LEMMA InnerReplaced ==
  ASSUME NEW s \in Seq(Frame), s # <<>>, NEW f \in Frame
  PROVE  LET r == Append(Lifecycle!Front(s), f) IN
         /\ r \in Seq(Frame) /\ Len(r) = Len(s) /\ r[Len(s)] = f
         /\ \A d \in 1..(Len(s) - 1) : r[d] = s[d]
<1> DEFINE q == Lifecycle!Front(s)
           r == Append(q, f)
<1>1. Len(s) \in Nat \ {0}
  OBVIOUS
<1>2. q \in Seq(Frame) /\ Len(q) = Len(s) - 1 /\ \A d \in 1..(Len(s) - 1) : q[d] = s[d]
  BY FrontIs
<1> HIDE DEF q
<1>3. /\ r \in Seq(Frame) /\ Len(r) = Len(s) /\ r[Len(s)] = f
      /\ \A d \in 1..(Len(s) - 1) : r[d] = s[d]
  BY <1>1, <1>2
<1> QED BY <1>3 DEF q

LEMMA PopsIs ==
  ASSUME LcTypes, NEW t \in Lifecycle!Threads, ~Lifecycle!Idle(t),
         lc_frames' = Lifecycle!Return(t)
  PROVE  Pops(t)
<1>1. lc_frames[t] \in Seq(Frame) /\ lc_frames[t] # <<>> /\ Depth(t) \in Nat \ {0}
  BY InnerIs DEF Lifecycle!Idle
<1> DEFINE s == lc_frames[t]
           r == Lifecycle!Front(s)
<1>2. r \in Seq(Frame) /\ Len(r) = Len(s) - 1 /\ \A d \in 1..(Len(s) - 1) : r[d] = s[d]
  BY <1>1, FrontIs
<1>3. lc_frames' = [lc_frames EXCEPT ![t] = r]
  BY DEF Lifecycle!Return
<1> HIDE DEF r
<1>4. lc_frames'[t] = r /\ OnlyCallsOf(t)
  BY <1>2, <1>3, OneChanges
<1> QED BY <1>1, <1>2, <1>3, <1>4 DEF Pops, Kept, Depth

LEMMA TurnsIs ==
  ASSUME LcTypes, NEW t \in Lifecycle!Threads, ~Lifecycle!Idle(t), NEW at \in Points,
         lc_frames' = Lifecycle!Move(t, at)
  PROVE  Turns(t, at)
<1>1. /\ lc_frames[t] \in Seq(Frame) /\ lc_frames[t] # <<>> /\ Depth(t) \in Nat \ {0}
      /\ Inner(t) \in Frame /\ Lifecycle!Top(t) = Inner(t)
  BY InnerIs DEF Lifecycle!Idle
<1> DEFINE s == lc_frames[t]
           f == TurnedTo(Lifecycle!Top(t), at)
           r == Append(Lifecycle!Front(s), f)
<1>2. f \in Frame /\ f.c = Inner(t).c /\ f.at = at /\ f.i = 1
  <2>1. PICK g \in Frame : g = Lifecycle!Top(t) /\ g = Inner(t)
    BY <1>1
  <2>2. TurnedTo(g, at) \in Frame /\ TurnedTo(g, at).c = g.c /\ TurnedTo(g, at).at = at /\ TurnedTo(g, at).i = 1
    BY <2>1, FrameWith
  <2> QED BY <2>1, <2>2
<1>3. lc_frames' = [lc_frames EXCEPT ![t] = r]
  BY DEF Lifecycle!Move, TurnedTo
<1> HIDE DEF f
<1>4. r \in Seq(Frame) /\ Len(r) = Len(s) /\ r[Len(s)] = f /\ \A d \in 1..(Len(s) - 1) : r[d] = s[d]
  BY <1>1, <1>2, InnerReplaced
<1> HIDE DEF r
<1>5. lc_frames'[t] = r /\ OnlyCallsOf(t)
  BY <1>3, <1>4, OneChanges
<1> QED BY <1>1, <1>2, <1>3, <1>4, <1>5 DEF Turns, Kept, Depth

LEMMA PushesIs ==
  ASSUME LcTypes, NEW t \in Lifecycle!Threads, ~Lifecycle!Idle(t), NEW c \in Lifecycle!Classes,
         lc_frames' = [lc_frames EXCEPT ![t] =
           Lifecycle!Front(@) \o <<[Lifecycle!Top(t) EXCEPT !.i = Lifecycle!Top(t).i + 1],
                                   Lifecycle!Frame(c)>>]
  PROVE  Pushes(t, c)
<1>1. /\ lc_frames[t] \in Seq(Frame) /\ lc_frames[t] # <<>> /\ Depth(t) \in Nat \ {0}
      /\ Inner(t) \in Frame /\ Lifecycle!Top(t) = Inner(t)
  BY InnerIs DEF Lifecycle!Idle
<1> DEFINE s == lc_frames[t]
           f == Advanced(Lifecycle!Top(t))
           g == Lifecycle!Frame(c)
           p == Lifecycle!Front(s)
           q == p \o <<f, g>>
<1>2. f \in Frame /\ f.c = Inner(t).c /\ f.at = Inner(t).at /\ f.i = Inner(t).i + 1
  <2>1. "lock" \in Points
    BY DEF Points, Before
  <2> QED BY <1>1, <2>1, FrameWith
<1>3. g \in Frame /\ g.c = c /\ g.at = "check" /\ g.i = 1
  BY DEF Frame, Lifecycle!Frame, Points, Before, Counts
<1>4. lc_frames' = [lc_frames EXCEPT ![t] = q]
  BY DEF Advanced
<1> HIDE DEF f, g
<1>5. p \in Seq(Frame) /\ Len(p) = Len(s) - 1 /\ \A d \in 1..(Len(s) - 1) : p[d] = s[d]
  BY <1>1, FrontIs
<1> HIDE DEF p
<1>6. <<f, g>> \in Seq(Frame) /\ Len(<<f, g>>) = 2 /\ <<f, g>>[1] = f /\ <<f, g>>[2] = g
  BY <1>2, <1>3
<1>7. /\ q \in Seq(Frame) /\ Len(q) = Len(s) + 1 /\ q[Len(s)] = f /\ q[Len(s) + 1] = g
      /\ \A d \in 1..(Len(s) - 1) : q[d] = s[d]
  <2> DEFINE e == <<f, g>>
  <2>1. Len(s) \in Nat \ {0}
    BY <1>1 DEF Depth
  <2> HIDE DEF e
  <2>2. e \in Seq(Frame) /\ Len(e) = 2 /\ e[1] = f /\ e[2] = g
    BY <1>6 DEF e
  <2>3. q = p \o e
    BY DEF e
  <2> QED BY <1>5, <2>1, <2>2, <2>3
<1> HIDE DEF q
<1>8. lc_frames'[t] = q /\ OnlyCallsOf(t)
  BY <1>4, <1>7, OneChanges
<1> QED BY <1>1, <1>2, <1>3, <1>4, <1>7, <1>8 DEF Pushes, Kept, Depth

(* The cases of a step of getInstance().                                   *)
MainStays == UNCHANGED <<lc_active, lc_pc, lc_closing, lc_exit>>
ObjectsStay  == UNCHANGED <<lc_instance, lc_stack, lc_alive>>
NothingRefused   == UNCHANGED lc_refused

Aborts(t) ==
  /\ \/ Inner(t).at \in Before /\ Inner(t).c \notin lc_active
     \/ Inner(t).at = "start" /\ Inner(t).c \in Failures
  /\ Empties(t) /\ ObjectsStay
  /\ lc_holder' = [c \in Lifecycle!Classes |->
                     IF lc_holder[c] = t THEN Lifecycle!None ELSE lc_holder[c]]
  /\ lc_refused' = (lc_refused \/ (t = "main" /\ lc_closing # Lifecycle!None))
Finds(t) ==
  /\ Inner(t).at \in Before /\ Inner(t).c \in lc_active \intersect lc_instance
  /\ Pops(t) /\ ObjectsStay /\ NothingRefused /\ UNCHANGED lc_holder
Waits(t) ==
  /\ Inner(t).at = "check" /\ Inner(t).c \in lc_active \ lc_instance
  /\ Turns(t, "lock") /\ ObjectsStay /\ NothingRefused /\ UNCHANGED lc_holder
Begins(t) ==
  /\ Inner(t).at = "lock" /\ Inner(t).c \in lc_active \ lc_instance
  /\ lc_holder[Inner(t).c] = Lifecycle!None
  /\ Turns(t, "constructor") /\ ObjectsStay /\ NothingRefused
  /\ lc_holder' = [lc_holder EXCEPT ![Inner(t).c] = t]
NeedsMore(t, uses) == Inner(t).i <= Len(uses) /\ Pushes(t, uses[Inner(t).i])
AsksFor(t) ==
  /\ \/ Inner(t).at = "constructor" /\ NeedsMore(t, Lifecycle!ConstructorUses(Inner(t).c))
     \/ Inner(t).at = "init" /\ NeedsMore(t, Lifecycle!InitUses(Inner(t).c))
  /\ ObjectsStay /\ NothingRefused /\ UNCHANGED lc_holder
Constructed(t) ==
  /\ Inner(t).at = "constructor"
  /\ Turns(t, IF Inner(t).c = "storage" THEN "init" ELSE "register")
  /\ ObjectsStay /\ NothingRefused /\ UNCHANGED lc_holder
Registers(t) ==
  /\ Inner(t).at = "register" /\ lc_stack' = Append(lc_stack, Inner(t).c)
  /\ Turns(t, IF Inner(t).c = "storage" THEN "set" ELSE "init")
  /\ UNCHANGED <<lc_instance, lc_alive, lc_holder>> /\ NothingRefused
Initialised(t) ==
  /\ Inner(t).at = "init" /\ ~(Inner(t).i <= Len(Lifecycle!InitUses(Inner(t).c)))
  /\ Turns(t, "start") /\ ObjectsStay /\ NothingRefused /\ UNCHANGED lc_holder
Starts(t) ==
  /\ Inner(t).at = "start" /\ lc_alive' = lc_alive \union Lifecycle!StartedBy(Inner(t).c)
  /\ Turns(t, IF Inner(t).c = "storage" THEN "register" ELSE "set")
  /\ UNCHANGED <<lc_instance, lc_stack, lc_holder>> /\ NothingRefused
Sets(t) ==
  /\ Inner(t).at = "set" /\ lc_instance' = lc_instance \union {Inner(t).c}
  /\ lc_holder' = [lc_holder EXCEPT ![Inner(t).c] = Lifecycle!None]
  /\ Pops(t) /\ UNCHANGED <<lc_stack, lc_alive>> /\ NothingRefused

LcStep(t) ==
  \/ Aborts(t) \/ Finds(t) \/ Waits(t) \/ Begins(t) \/ AsksFor(t) \/ Constructed(t)
  \/ Registers(t) \/ Initialised(t) \/ Starts(t) \/ Sets(t)

(* Each step drops, turns or adds calls of its thread, and of no other.    *)
LEMMA EffectIs ==
  ASSUME NEW t \in Lifecycle!Threads, LcStep(t)
  PROVE  /\ Empties(t) \/ Pops(t) \/ (\E at : Turns(t, at)) \/ AsksFor(t)
         /\ AsksFor(t) => \E c : Pushes(t, c)
         /\ OnlyCallsOf(t)
<1>1. AsksFor(t) => \E c : Pushes(t, c)
  BY DEF AsksFor, NeedsMore
<1>2. Aborts(t) => Empties(t)
  BY DEF Aborts
<1>3. Finds(t) \/ Sets(t) => Pops(t)
  BY DEF Finds, Sets
<1>4. Waits(t) \/ Begins(t) \/ Constructed(t) => \E at : Turns(t, at)
  BY DEF Waits, Begins, Constructed
<1>5. Registers(t) \/ Initialised(t) \/ Starts(t) => \E at : Turns(t, at)
  BY DEF Registers, Initialised, Starts
<1>6. Empties(t) \/ Pops(t) \/ (\E at : Turns(t, at)) \/ AsksFor(t)
  BY <1>2, <1>3, <1>4, <1>5 DEF LcStep
<1> QED BY <1>1, <1>6 DEF Empties, Pops, Turns, Pushes, OnlyCallsOf

LEMMA UsesAre ==
  ASSUME ServerThreadsAssumption, NEW c
  PROVE  /\ Lifecycle!ConstructorUses(c) \in Seq(Lifecycle!Classes)
         /\ Lifecycle!InitUses(c) \in Seq(Lifecycle!Classes)
<1>1. "config" \in Lifecycle!Classes /\ "storage" \in Lifecycle!Classes /\ "timer" \in Lifecycle!Classes
  BY DEF Lifecycle!Classes
<1> HIDE DEF Lifecycle!Classes
<1>2. /\ <<>> \in Seq(Lifecycle!Classes) /\ <<"config">> \in Seq(Lifecycle!Classes)
      /\ <<"config", "storage">> \in Seq(Lifecycle!Classes)
      /\ <<"config", "timer">> \in Seq(Lifecycle!Classes)
  BY <1>1
<1>3. Lifecycle!ConstructorUses(c) \in {<<>>, <<"config">>, <<"config", "storage">>}
  BY DEF Lifecycle!ConstructorUses
<1>4. Lifecycle!InitUses(c) \in {<<>>, <<"config">>, <<"config", "timer">>}
  BY DEF Lifecycle!InitUses
<1> QED BY <1>2, <1>3, <1>4

LEMMA GetInstanceCases ==
  ASSUME ServerThreadsAssumption, LcTypes, NEW t \in Lifecycle!Threads, Lifecycle!GetInstance(t)
  PROVE  LcStep(t) /\ ~Lifecycle!Idle(t) /\ MainStays
<1> USE DEF Lifecycle!locks, Lifecycle!mains, Lifecycle!sigs
<1>1. ~Lifecycle!Idle(t)
  BY DEF Lifecycle!GetInstance, Lifecycle!Check, Lifecycle!Lock, Lifecycle!Constructor,
         Lifecycle!Register, Lifecycle!InitObject, Lifecycle!EndInit, Lifecycle!SetInstance,
         Lifecycle!Nested, Lifecycle!At
<1>2. /\ lc_frames[t] \in Seq(Frame) /\ Depth(t) \in Nat \ {0}
      /\ Inner(t) \in Frame /\ Lifecycle!Top(t) = Inner(t)
  BY <1>1, InnerIs
<1>3. \A at : Lifecycle!At(t, at) <=> Inner(t).at = at
  BY <1>1, <1>2 DEF Lifecycle!At
<1> DEFINE c == Inner(t).c
<1>4. c \in Lifecycle!Classes
  BY <1>2 DEF Frame
<1>5. \A x : Lifecycle!RegistersFirst(x) <=> x # "storage"
  BY DEF Lifecycle!RegistersFirst
<1> HIDE DEF c
<1>6. ASSUME Lifecycle!Unwind(t), MainStays,
             (Inner(t).at \in Before /\ c \notin lc_active) \/ (Inner(t).at = "start" /\ c \in Failures)
      PROVE  Aborts(t)
  <2>1. Empties(t)
    BY <1>6, EmptiesIs DEF Lifecycle!Unwind
  <2> QED BY <1>6, <2>1 DEF Lifecycle!Unwind, Aborts, ObjectsStay, c
<1>7. ASSUME Lifecycle!Check(t) PROVE LcStep(t) /\ MainStays
  <2>1. Inner(t).at = "check" /\ MainStays
    BY <1>3, <1>7 DEF Lifecycle!Check, MainStays, Lifecycle!Unwind
  <2>2. CASE c \notin lc_active
    <3>1. Lifecycle!Unwind(t)
      BY <1>2, <1>7, <2>1, <2>2 DEF Lifecycle!Check, c
    <3>2. Inner(t).at \in Before /\ c \notin lc_active
      BY <2>1, <2>2 DEF Before
    <3> QED BY <1>6, <2>1, <3>1, <3>2 DEF LcStep
  <2>3. CASE c \in lc_active /\ c \in lc_instance
    <3>1. /\ lc_frames' = Lifecycle!Return(t)
          /\ ObjectsStay /\ NothingRefused /\ UNCHANGED lc_holder
      BY <1>2, <1>7, <2>3 DEF Lifecycle!Check, c, ObjectsStay, NothingRefused
    <3> QED BY <1>1, <2>1, <2>3, <3>1, PopsIs DEF Finds, LcStep, Before, c
  <2>4. CASE c \in lc_active /\ c \notin lc_instance
    <3>1. /\ lc_frames' = Lifecycle!Move(t, "lock")
          /\ ObjectsStay /\ NothingRefused /\ UNCHANGED lc_holder
      BY <1>2, <1>7, <2>4 DEF Lifecycle!Check, c, ObjectsStay, NothingRefused
    <3>2. Turns(t, "lock")
      BY <1>1, <3>1, TurnsIs DEF Points, Before
    <3> QED BY <2>1, <2>4, <3>1, <3>2 DEF Waits, LcStep, c
  <2> QED BY <2>1, <2>2, <2>3, <2>4
<1>8. ASSUME Lifecycle!Lock(t) PROVE LcStep(t) /\ MainStays
  <2>1. Inner(t).at = "lock" /\ MainStays /\ lc_holder[c] = Lifecycle!None
    BY <1>2, <1>3, <1>8 DEF Lifecycle!Lock, MainStays, Lifecycle!Unwind, c
  <2>2. CASE c \notin lc_active
    <3>1. Lifecycle!Unwind(t)
      BY <1>2, <1>8, <2>1, <2>2 DEF Lifecycle!Lock, c
    <3>2. Inner(t).at \in Before /\ c \notin lc_active
      BY <2>1, <2>2 DEF Before
    <3> QED BY <1>6, <2>1, <3>1, <3>2 DEF LcStep
  <2>3. CASE c \in lc_active /\ c \in lc_instance
    <3>1. /\ lc_frames' = Lifecycle!Return(t)
          /\ ObjectsStay /\ NothingRefused /\ UNCHANGED lc_holder
      BY <1>2, <1>8, <2>3 DEF Lifecycle!Lock, Lifecycle!NeedsNew, c, ObjectsStay,
         NothingRefused
    <3> QED BY <1>1, <2>1, <2>3, <3>1, PopsIs DEF Finds, LcStep, Before, c
  <2>4. CASE c \in lc_active /\ c \notin lc_instance
    <3>1. /\ lc_frames' = Lifecycle!Move(t, "constructor")
          /\ lc_holder' = [lc_holder EXCEPT ![c] = t]
          /\ ObjectsStay /\ NothingRefused
      BY <1>2, <1>8, <2>4 DEF Lifecycle!Lock, Lifecycle!NeedsNew, c, ObjectsStay,
         NothingRefused
    <3>2. Turns(t, "constructor")
      BY <1>1, <3>1, TurnsIs DEF Points
    <3> QED BY <2>1, <2>4, <3>1, <3>2 DEF Begins, LcStep, c
  <2> QED BY <2>1, <2>2, <2>3, <2>4
<1>9. ASSUME NEW where \in {"constructor", "init"}, NEW uses \in Seq(Lifecycle!Classes),
             NEW next \in Points, Lifecycle!Nested(t, where, uses, next)
      PROVE  /\ MainStays /\ ObjectsStay /\ NothingRefused /\ UNCHANGED lc_holder /\ Inner(t).at = where
             /\ \/ NeedsMore(t, uses)
                \/ ~(Inner(t).i <= Len(uses)) /\ Turns(t, next)
  <2>1. MainStays /\ ObjectsStay /\ NothingRefused /\ UNCHANGED lc_holder /\ Inner(t).at = where
    BY <1>3, <1>9 DEF Lifecycle!Nested, MainStays, ObjectsStay, NothingRefused
  <2>2. CASE Inner(t).i <= Len(uses)
    <3>1. lc_frames' = [lc_frames EXCEPT ![t] =
            Lifecycle!Front(@) \o <<[Lifecycle!Top(t) EXCEPT !.i = Lifecycle!Top(t).i + 1],
                                    Lifecycle!Frame(uses[Inner(t).i])>>]
      BY <1>2, <1>9, <2>2 DEF Lifecycle!Nested
    <3>2. uses[Inner(t).i] \in Lifecycle!Classes
      <4>1. Inner(t).i \in Nat \ {0}
        BY <1>2 DEF Frame, Counts
      <4> QED BY <2>2, <4>1
    <3> QED BY <1>1, <2>1, <2>2, <3>1, <3>2, PushesIs DEF NeedsMore
  <2>3. CASE ~(Inner(t).i <= Len(uses))
    <3>1. lc_frames' = Lifecycle!Move(t, next)
      BY <1>2, <1>9, <2>3 DEF Lifecycle!Nested
    <3> QED BY <1>1, <2>1, <2>3, <3>1, TurnsIs
  <2> QED BY <2>2, <2>3, <2>1
<1>10. Lifecycle!ConstructorUses(c) \in Seq(Lifecycle!Classes) /\ Lifecycle!InitUses(c) \in Seq(Lifecycle!Classes)
  BY <1>4, UsesAre
<1>11. ASSUME Lifecycle!Constructor(t) PROVE LcStep(t) /\ MainStays
  <2> DEFINE next == IF c = "storage" THEN "init" ELSE "register"
  <2>1. Lifecycle!Nested(t, "constructor", Lifecycle!ConstructorUses(c), next)
    BY <1>2, <1>5, <1>11 DEF Lifecycle!Constructor, c
  <2>2. next \in Points
    BY DEF Points
  <2> HIDE DEF next
  <2>3. /\ MainStays /\ ObjectsStay /\ NothingRefused /\ UNCHANGED lc_holder /\ Inner(t).at = "constructor"
        /\ NeedsMore(t, Lifecycle!ConstructorUses(c)) \/ Turns(t, next)
    BY <1>9, <1>10, <2>1, <2>2
  <2> QED BY <2>3 DEF LcStep, AsksFor, Constructed, next, c
<1>12. ASSUME Lifecycle!InitObject(t) PROVE LcStep(t) /\ MainStays
  <2>1. Lifecycle!Nested(t, "init", Lifecycle!InitUses(c), "start")
    BY <1>2, <1>12 DEF Lifecycle!InitObject, c
  <2>2. "start" \in Points
    BY DEF Points
  <2>3. /\ MainStays /\ ObjectsStay /\ NothingRefused /\ UNCHANGED lc_holder /\ Inner(t).at = "init"
        /\ \/ NeedsMore(t, Lifecycle!InitUses(c))
           \/ ~(Inner(t).i <= Len(Lifecycle!InitUses(c))) /\ Turns(t, "start")
    BY <1>9, <1>10, <2>1, <2>2
  <2> QED BY <2>3 DEF LcStep, AsksFor, Initialised, c
<1>13. ASSUME Lifecycle!Register(t) PROVE LcStep(t) /\ MainStays
  <2> DEFINE next == IF c = "storage" THEN "set" ELSE "init"
  <2>1. /\ Inner(t).at = "register" /\ MainStays /\ NothingRefused /\ lc_stack' = Append(lc_stack, c)
        /\ UNCHANGED <<lc_instance, lc_alive, lc_holder>> /\ lc_frames' = Lifecycle!Move(t, next)
    BY <1>2, <1>3, <1>5, <1>13 DEF Lifecycle!Register, MainStays, NothingRefused, c
  <2>2. next \in Points
    BY DEF Points
  <2> HIDE DEF next
  <2>3. Turns(t, next)
    BY <1>1, <2>1, <2>2, TurnsIs
  <2> QED BY <2>1, <2>3 DEF LcStep, Registers, next, c
<1>14. ASSUME Lifecycle!EndInit(t) PROVE LcStep(t) /\ MainStays
  <2>1. Inner(t).at = "start" /\ MainStays
    BY <1>3, <1>14 DEF Lifecycle!EndInit, MainStays, Lifecycle!Unwind
  <2>2. CASE c \in Failures /\ Lifecycle!Unwind(t)
    BY <1>6, <2>1, <2>2 DEF LcStep
  <2>3. CASE ~(c \in Failures /\ Lifecycle!Unwind(t))
    <3> DEFINE next == IF c = "storage" THEN "register" ELSE "set"
    <3>1. /\ lc_alive' = lc_alive \union Lifecycle!StartedBy(c) /\ NothingRefused
          /\ UNCHANGED <<lc_instance, lc_stack, lc_holder>> /\ lc_frames' = Lifecycle!Move(t, next)
      BY <1>2, <1>5, <1>14, <2>3 DEF Lifecycle!EndInit, NothingRefused, c
    <3>2. next \in Points
      BY DEF Points
    <3> HIDE DEF next
    <3>3. Turns(t, next)
      BY <1>1, <3>1, <3>2, TurnsIs
    <3> QED BY <2>1, <3>1, <3>3 DEF LcStep, Starts, next, c
  <2> QED BY <2>2, <2>3
<1>15. ASSUME Lifecycle!SetInstance(t) PROVE LcStep(t) /\ MainStays
  <2>1. /\ Inner(t).at = "set" /\ MainStays /\ NothingRefused /\ lc_instance' = lc_instance \union {c}
        /\ lc_holder' = [lc_holder EXCEPT ![c] = Lifecycle!None]
        /\ UNCHANGED <<lc_stack, lc_alive>> /\ lc_frames' = Lifecycle!Return(t)
    BY <1>2, <1>3, <1>15 DEF Lifecycle!SetInstance, MainStays, NothingRefused, c
  <2>2. Pops(t)
    BY <1>1, <2>1, PopsIs
  <2> QED BY <2>1, <2>2 DEF LcStep, Sets, c
<1> QED
  BY <1>1, <1>7, <1>8, <1>11, <1>12, <1>13, <1>14, <1>15 DEF Lifecycle!GetInstance

-----------------------------------------------------------------------------
(* The invariant.  From the moment on that main() has Storage, each class  *)
(* that its shutdown() needs has its instance or will never have one again.*)
Settled == \A b \in Base : b \notin lc_active \/ b \in lc_instance

(* Until then main() is alone, but for the thread of the Timer, and asks   *)
(* for nothing that could fail.                                            *)
EarlyPoints == {"config", "config?", "server", "server?", "storage", "storage?"}
Early ==
  /\ lc_pc \in EarlyPoints /\ lc_active = Lifecycle!Classes /\ lc_closing = Lifecycle!None
  /\ \A d \in 1..Depth("main") : lc_frames["main"][d].c \in Base \union {"server"}
  /\ \A w \in Workers : w \in lc_alive \/ Depth(w) # 0 =>
       w = "timer" /\ Backup /\ ("timer" \in lc_instance \/ lc_holder["timer"] = "main")
  /\ \A w \in Workers : \A d \in 1..Depth(w) : lc_frames[w][d].c = "timer"

(* OnlyCallsOf main() creates these objects, each once, under the class's mutex.  *)
BuildInv ==
  \A t \in Lifecycle!Threads, b \in Base : \A d \in 1..Depth(t) : Creates(t, d, b) =>
    /\ t = "main" /\ b \notin lc_instance /\ b \in lc_active /\ lc_holder[b] = "main"
    /\ \A e \in 1..Depth(t) : Creates(t, e, b) => e = d

(* What the init() of Storage has asked for it has, or is about to have.   *)
StorageUses == Lifecycle!InitUses("storage")
NeedInv ==
  \A d \in 1..Depth("main") : lc_frames["main"][d].c = "storage" =>
    /\ lc_frames["main"][d].at = "init" =>
         \A k \in 1..Len(StorageUses) : k < lc_frames["main"][d].i =>
           \/ StorageUses[k] \in lc_instance
           \/ d + 1 \in 1..Depth("main") /\ lc_frames["main"][d + 1].c = StorageUses[k]
    /\ lc_frames["main"][d].at \in {"start", "register", "set"} => Needs \subseteq lc_instance

(* An object is on the stack when it is registered, until it is closed.    *)
OnStack(b) == \E n \in 1..Len(lc_stack) : lc_stack[n] = b
Registered(d, b) ==
  /\ d \in 1..Depth("main") /\ lc_frames["main"][d].c = b
  /\ lc_frames["main"][d].at \in IF b = "storage" THEN {"set"} ELSE {"init", "start", "set"}
StackInv ==
  /\ \A b \in Base : OnStack(b) =>
       /\ b # lc_closing /\ b \in lc_active
       /\ b \in lc_instance \/ \E d \in 1..Depth("main") : Registered(d, b)
  /\ \A b \in Base : \A d \in 1..Depth("main") : Registered(d, b) => OnStack(b)
  /\ \A b \in Base : b \in lc_instance => b \in lc_active /\ (OnStack(b) \/ b = lc_closing)

(* Each object once, and Storage above those it needs.                     *)
OrderInv ==
  /\ \A n, m \in 1..Len(lc_stack) : lc_stack[n] = lc_stack[m] /\ lc_stack[n] \in Base => n = m
  /\ \A n \in 1..Len(lc_stack) : lc_stack[n] = "storage" =>
       \A b \in Needs : \E m \in 1..Len(lc_stack) : m < n /\ lc_stack[m] = b

(* While an object is closed main() asks for what that needs only.         *)
CloseInv ==
  /\ lc_pc \in {"close", "join"} <=> lc_closing # Lifecycle!None
  /\ lc_closing = "storage" => \A b \in Needs : OnStack(b)
  /\ lc_closing # Lifecycle!None => \A d \in 1..Depth("main") :
       /\ lc_closing = "storage" /\ lc_frames["main"][d].c \in Needs
       /\ lc_frames["main"][d].at = "check"

Phase == Settled \/ Early
RunInv == Phase /\ BuildInv /\ NeedInv /\ StackInv /\ OrderInv /\ CloseInv
LcInv == LcTypes /\ ~lc_refused /\ (lc_exit = Lifecycle!None => RunInv)

-----------------------------------------------------------------------------
LEMMA BaseIs ==
  ASSUME ServerThreadsAssumption
  PROVE  /\ Base \subseteq Lifecycle!Classes /\ Needs \subseteq Base /\ "storage" \in Base
         /\ "main" \in Lifecycle!Threads /\ "main" \notin Workers
         /\ Workers \subseteq Lifecycle!Threads
         /\ Base \intersect Failures = {} /\ "server" \notin Failures
         /\ Lifecycle!None \notin Base /\ "storage" \notin Needs
BY DEF ServerThreadsAssumption, Lifecycle!LifecycleAssumption, Base, Needs,
   Lifecycle!Classes,
       Lifecycle!Threads, Lifecycle!None

(* Nothing is created that was not before, but for what begins.            *)
LEMMA CreatesAfter ==
  ASSUME LcTypes, NEW t \in Lifecycle!Threads, ~Lifecycle!Idle(t), LcStep(t),
         NEW u \in Lifecycle!Threads, NEW d \in 1..Depth(u)', NEW c, Creates(u, d, c)'
  PROVE  /\ ~(u = t /\ (Aborts(t) \/ (Sets(t) /\ d = Depth(t))))
         /\ \/ d \in 1..Depth(u) /\ Creates(u, d, c)
            \/ Begins(t) /\ u = t /\ d = Depth(t) /\ c = Inner(t).c
<1> USE DEF Creates, Depth
<1>1. Len(lc_frames[t]) \in Nat \ {0} /\ Len(lc_frames[u]) \in Nat
  BY InnerIs DEF LcTypes
<1>2. CASE u # t
  <2>1. lc_frames'[u] = lc_frames[u]
    BY <1>2, EffectIs DEF OnlyCallsOf
  <2> QED BY <1>2, <2>1
<1>3. CASE u = t
  <2>1. CASE Aborts(t)
    BY <1>3, <2>1 DEF Aborts, Empties
  <2>2. CASE Finds(t) \/ Sets(t)
    <3>1. Pops(t)
      BY <2>2 DEF Finds, Sets
    <3>2. ~Aborts(t) 
      BY <2>2, <1>1 DEF Aborts, Finds, Sets, Empties, Pops, Before
    <3> QED BY <1>1, <1>3, <3>1, <3>2 DEF Pops, Kept
  <2>3. CASE Begins(t)
    <3>1. Turns(t, "constructor")
      BY <2>3 DEF Begins
    <3>2. ~Aborts(t) /\ ~Sets(t)
      BY <2>3 DEF Aborts, Begins, Sets, Before
    <3> QED BY <1>1, <1>3, <2>3, <3>1, <3>2 DEF Turns, Kept, Inner
  <2>4. CASE Waits(t)
    BY <1>1, <1>3, <2>4 DEF Waits, Turns, Kept, Before, Aborts, Sets
  <2>5. CASE AsksFor(t)
    <3>1. \E x : Pushes(t, x)
      BY <2>5 DEF AsksFor, NeedsMore
    <3>2. ~Aborts(t) /\ ~Sets(t)
      BY <2>5 DEF Aborts, AsksFor, Sets, Before
    <3> QED BY <1>1, <1>3, <3>1, <3>2 DEF Pushes, Kept, Inner, Before
  <2>6. CASE Constructed(t) \/ Registers(t) \/ Initialised(t) \/ Starts(t)
    <3>1. /\ \E x : Turns(t, x)
          /\ Inner(t).at \in {"constructor", "register", "init", "start"}
      BY <2>6 DEF Constructed, Registers, Initialised, Starts
    <3>2. ~Sets(t) /\ Inner(t).at \notin Before
      BY <3>1 DEF Sets, Before
    <3>3. ~Aborts(t)
      BY <1>1, <3>1 DEF Aborts, Turns, Empties
    <3> QED BY <1>1, <1>3, <3>1, <3>2, <3>3 DEF Turns, Kept, Inner
  <2> QED BY <2>1, <2>2, <2>3, <2>4, <2>5, <2>6 DEF LcStep
<1> QED BY <1>2, <1>3

(* How the mutexes and the instances change.                               *)
LEMMA HolderAfter ==
  ASSUME LcTypes, NEW t \in Lifecycle!Threads, LcStep(t), NEW b \in Lifecycle!Classes
  PROVE  /\ \/ lc_holder'[b] = lc_holder[b]
            \/ Aborts(t) /\ lc_holder[b] = t
            \/ Begins(t) /\ b = Inner(t).c /\ lc_holder'[b] = t
            \/ Sets(t) /\ b = Inner(t).c
         /\ \/ lc_instance' = lc_instance
            \/ Sets(t) /\ lc_instance' = lc_instance \union {Inner(t).c}
<1> USE DEF LcTypes, ObjectsStay
<1>1. CASE Aborts(t)
  BY <1>1 DEF Aborts
<1>2. CASE Begins(t)
  BY <1>2 DEF Begins
<1>3. CASE Sets(t)
  BY <1>3 DEF Sets
<1>4. CASE UNCHANGED <<lc_holder, lc_instance>>
  BY <1>4
<1> QED
  BY <1>1, <1>2, <1>3, <1>4 DEF LcStep, Finds, Waits, AsksFor, Constructed, Registers,
     Initialised, Starts

LEMMA BuildStep ==
  ASSUME ServerThreadsAssumption, LcTypes, Phase, BuildInv,
         NEW t \in Lifecycle!Threads, ~Lifecycle!Idle(t), LcStep(t), MainStays
  PROVE  BuildInv'
<1> SUFFICES ASSUME NEW u \in Lifecycle!Threads, NEW b \in Base, NEW d \in 1..Depth(u)',
                    Creates(u, d, b)'
             PROVE  /\ u = "main" /\ b \notin lc_instance' /\ b \in lc_active' /\ lc_holder'[b] = "main"
                    /\ \A e \in 1..Depth(u)' : Creates(u, e, b)' => e = d
  BY DEF BuildInv
<1>0. b \in Lifecycle!Classes /\ lc_active' = lc_active
  BY BaseIs DEF MainStays
<1>1. Depth(t) \in Nat \ {0} /\ Depth(t) \in 1..Depth(t)
  BY InnerIs
<1>2. Sets(t) /\ b = Inner(t).c => Creates(t, Depth(t), b)
  BY <1>1 DEF Sets, Creates, Inner, Depth, Before
<1>3. CASE d \in 1..Depth(u) /\ Creates(u, d, b)
  <2>1. /\ u = "main" /\ b \notin lc_instance /\ b \in lc_active /\ lc_holder[b] = "main"
        /\ \A e \in 1..Depth(u) : Creates(u, e, b) => e = d
    BY <1>3 DEF BuildInv
  <2>2. ~(u = t /\ Aborts(t)) /\ ~(u = t /\ Sets(t) /\ d = Depth(t))
    BY CreatesAfter
  <2>3. ~(Sets(t) /\ b = Inner(t).c)
    <3> SUFFICES ASSUME Sets(t), b = Inner(t).c PROVE FALSE
      OBVIOUS
    <3>1. t = u
      BY <1>1, <1>2, <2>1 DEF BuildInv
    <3> QED BY <1>1, <1>2, <2>1, <2>2, <3>1
  <2>4. ~(Begins(t) /\ b = Inner(t).c)
    BY <2>1 DEF Begins, Lifecycle!None
  <2>5. lc_holder'[b] = lc_holder[b]
    BY <1>0, <2>1, <2>2, <2>3, <2>4, HolderAfter
  <2>6. b \notin lc_instance'
    BY <1>0, <2>1, <2>3, HolderAfter
  <2>7. ASSUME NEW e \in 1..Depth(u)', Creates(u, e, b)' PROVE e = d
    <3>1. e \in 1..Depth(u) /\ Creates(u, e, b)
      BY <2>4, <2>7, CreatesAfter
    <3> QED BY <2>1, <3>1
  <2> QED BY <1>0, <2>1, <2>5, <2>6, <2>7
<1>4. CASE Begins(t) /\ u = t /\ d = Depth(t) /\ b = Inner(t).c
  <2>1. b \in lc_active /\ b \notin lc_instance /\ lc_holder[b] = Lifecycle!None /\ Early
    BY <1>4 DEF Begins, Phase, Settled
  <2>2. t = "main"
    <3> SUFFICES ASSUME t \in Workers PROVE FALSE
      BY DEF Lifecycle!Threads
    <3>1. b = "timer" /\ ("timer" \in lc_instance \/ lc_holder["timer"] = "main")
      BY <1>1, <1>4, <2>1 DEF Early, Inner, Depth
    <3> QED BY <2>1, <3>1 DEF Lifecycle!None
  <2>3. \A e \in 1..Depth(t) : ~Creates(t, e, b)
    BY <2>1 DEF BuildInv, Lifecycle!None
  <2>4. \A e \in 1..Depth(u)' : Creates(u, e, b)' => e = d
    BY <1>4, <2>3, CreatesAfter
  <2>5. lc_holder'[b] = t
    BY <1>0, <1>4 DEF Begins, LcTypes
  <2>6. lc_instance' = lc_instance
    BY <1>4 DEF Begins, ObjectsStay
  <2> QED BY <1>0, <1>4, <2>1, <2>2, <2>4, <2>5, <2>6
<1> QED
  BY <1>3, <1>4, CreatesAfter

LEMMA TypesStep ==
  ASSUME ServerThreadsAssumption, LcTypes,
         NEW t \in Lifecycle!Threads, ~Lifecycle!Idle(t), LcStep(t), MainStays
  PROVE  LcTypes'
<1>1. Inner(t).c \in Lifecycle!Classes
  BY InnerIs DEF Frame
<1>2. lc_frames' \in [Lifecycle!Threads -> Seq(Frame)]
  BY EffectIs DEF OnlyCallsOf
<1>3. lc_instance' \subseteq Lifecycle!Classes /\ lc_active' \subseteq Lifecycle!Classes
  BY <1>1, HolderAfter DEF LcTypes, MainStays
<1>4. lc_holder' \in [Lifecycle!Classes -> Lifecycle!Threads \union {Lifecycle!None}]
  <2>1. CASE Aborts(t)
    BY <2>1 DEF LcTypes, Aborts
  <2>2. CASE Begins(t) \/ Sets(t)
    BY <2>2 DEF LcTypes, Begins, Sets
  <2>3. CASE UNCHANGED lc_holder
    BY <2>3 DEF LcTypes
  <2> QED
    BY <2>1, <2>2, <2>3 DEF LcStep, Finds, Waits, AsksFor, Constructed, Registers,
       Initialised, Starts
<1>5. lc_stack' \in Seq(Lifecycle!Classes)
  <2>1. CASE Registers(t)
    BY <1>1, <2>1 DEF LcTypes, Registers
  <2>2. CASE UNCHANGED lc_stack
    BY <2>2 DEF LcTypes
  <2> QED
    BY <2>1, <2>2 DEF LcStep, ObjectsStay, Aborts, Begins, Sets, Finds, Waits, AsksFor,
       Constructed, Registers, Initialised, Starts
<1>6. lc_alive' \subseteq Workers
  <2>1. CASE Starts(t)
    BY <2>1 DEF LcTypes, Starts, Lifecycle!StartedBy, Lifecycle!WorkersOf
  <2>2. CASE UNCHANGED lc_alive
    BY <2>2 DEF LcTypes
  <2> QED
    BY <2>1, <2>2 DEF LcStep, ObjectsStay, Aborts, Begins, Sets, Finds, Waits, AsksFor,
       Constructed, Registers, Initialised, Starts
<1> QED BY <1>2, <1>3, <1>4, <1>5, <1>6 DEF LcTypes

(* What the calls of a thread are for after a step.                        *)
LEMMA CallsAfter ==
  ASSUME LcTypes, NEW t \in Lifecycle!Threads, ~Lifecycle!Idle(t), LcStep(t),
         NEW u \in Lifecycle!Threads, NEW d \in 1..Depth(u)'
  PROVE  \/ d \in 1..Depth(u) /\ lc_frames'[u][d].c = lc_frames[u][d].c
         \/ /\ u = t /\ d = Depth(t) + 1 /\ Depth(t)' = d /\ AsksFor(t)
            /\ lc_frames'[u][d].at = "check"
            /\ \/ /\ Inner(t).at = "constructor"
                  /\ Inner(t).i <= Len(Lifecycle!ConstructorUses(Inner(t).c))
                  /\ lc_frames'[u][d].c = Lifecycle!ConstructorUses(Inner(t).c)[Inner(t).i]
               \/ /\ Inner(t).at = "init"
                  /\ Inner(t).i <= Len(Lifecycle!InitUses(Inner(t).c))
                  /\ lc_frames'[u][d].c = Lifecycle!InitUses(Inner(t).c)[Inner(t).i]
<1> USE DEF Depth
<1>1. Len(lc_frames[t]) \in Nat \ {0} /\ Len(lc_frames[u]) \in Nat
  BY InnerIs DEF LcTypes
<1>2. CASE u # t
  <2>1. lc_frames'[u] = lc_frames[u]
    BY <1>2, EffectIs DEF OnlyCallsOf
  <2> QED BY <1>2, <2>1
<1>3. CASE u = t
  <2>1. CASE Empties(t)
    BY <1>3, <2>1 DEF Empties
  <2>2. CASE Pops(t)
    BY <1>1, <1>3, <2>2 DEF Pops, Kept
  <2>3. CASE \E at : Turns(t, at)
    BY <1>1, <1>3, <2>3 DEF Turns, Kept, Inner
  <2>4. CASE AsksFor(t)
    <3>1. PICK c :
            /\ Pushes(t, c)
            /\ \/ /\ Inner(t).at = "constructor"
                  /\ Inner(t).i <= Len(Lifecycle!ConstructorUses(Inner(t).c))
                  /\ c = Lifecycle!ConstructorUses(Inner(t).c)[Inner(t).i]
               \/ /\ Inner(t).at = "init" /\ Inner(t).i <= Len(Lifecycle!InitUses(Inner(t).c))
                  /\ c = Lifecycle!InitUses(Inner(t).c)[Inner(t).i]
      BY <2>4 DEF AsksFor, NeedsMore
    <3>2. CASE d = Depth(t) + 1
      BY <1>1, <1>3, <2>4, <3>1, <3>2 DEF Pushes
    <3>3. CASE d # Depth(t) + 1
      BY <1>1, <1>3, <3>1, <3>3 DEF Pushes, Kept, Inner
    <3> QED BY <3>2, <3>3
  <2> QED BY <2>1, <2>2, <2>3, <2>4, EffectIs
<1> QED BY <1>2, <1>3

LEMMA EarlyUses ==
  ASSUME ServerThreadsAssumption, NEW c \in Base \union {"server"}, NEW i \in Counts
  PROVE  /\ i <= Len(Lifecycle!ConstructorUses(c)) => Lifecycle!ConstructorUses(c)[i] \in Base
         /\ i <= Len(Lifecycle!InitUses(c)) => Lifecycle!InitUses(c)[i] \in Base
<1>1. Lifecycle!ConstructorUses(c) \in {<<>>, <<"config">>}
  BY DEF Lifecycle!ConstructorUses, Base, Needs
<1>2. Lifecycle!InitUses(c) \in {<<>>, <<"config">>} \union (IF Backup THEN {<<"config", "timer">>} ELSE {})
  BY DEF Lifecycle!InitUses, Base, Needs
<1> QED BY <1>1, <1>2 DEF Base, Needs, Counts

LEMMA PhaseStep ==
  ASSUME ServerThreadsAssumption, LcTypes, Phase, BuildInv,
         NEW t \in Lifecycle!Threads, ~Lifecycle!Idle(t), LcStep(t), MainStays
  PROVE  Phase'
<1>1. Depth(t) \in Nat \ {0} /\ Depth(t) \in 1..Depth(t) /\ Inner(t) \in Frame
  BY InnerIs
<1>2. CASE Settled
  <2>1. lc_instance \subseteq lc_instance' /\ lc_active' = lc_active
    BY BaseIs, HolderAfter DEF MainStays
  <2> QED BY <1>2, <2>1 DEF Phase, Settled
<1>3. CASE Early
  <2>1. Inner(t).c \in lc_active /\ Inner(t).c \in Lifecycle!Classes
    BY <1>1, <1>3 DEF Early, Frame
  <2>2. t \in Workers => /\ t = "timer" /\ Backup /\ Inner(t).c = "timer"
                         /\ "timer" \in lc_instance \/ lc_holder["timer"] = "main"
    BY <1>1, <1>3 DEF Early, Inner, Depth
  <2>3. t = "main" => Inner(t).c \in Base \union {"server"}
    BY <1>1, <1>3 DEF Early, Inner, Depth
  <2>4. t = "main" \/ t \in Workers
    BY DEF Lifecycle!Threads
  <2>5. "timer" \in Base <=> Backup
    BY DEF Base, Needs
  <2>6. Inner(t).c \in Base /\ Inner(t).at \notin Before => t = "main" /\ lc_holder[Inner(t).c] = "main"
    BY <1>1 DEF BuildInv, Creates, Inner, Depth
  <2>7. t \in Workers => Inner(t).at \in Before
    BY <2>2, <2>5, <2>6, BaseIs
  <2>8. ~Aborts(t)
    <3>1. Inner(t).c \notin Failures
      BY <2>2, <2>3, <2>4, <2>5, BaseIs
    <3> QED BY <2>1, <3>1 DEF Aborts
  <2>9. \A d \in 1..Depth("main")' : lc_frames'["main"][d].c \in Base \union {"server"}
    <3> SUFFICES ASSUME NEW d \in 1..Depth("main")' PROVE lc_frames'["main"][d].c \in Base \union {"server"}
      OBVIOUS
    <3>1. "main" \in Lifecycle!Threads
      BY BaseIs
    <3>2. CASE d \in 1..Depth("main") /\ lc_frames'["main"][d].c = lc_frames["main"][d].c
      BY <1>3, <3>2 DEF Early
    <3>3. CASE ~(d \in 1..Depth("main") /\ lc_frames'["main"][d].c = lc_frames["main"][d].c)
      <4>1. t = "main" /\ Inner(t).i \in Counts
        BY <1>1, <3>1, <3>3, CallsAfter DEF Frame
      <4> QED BY <2>3, <3>1, <3>3, <4>1, CallsAfter, EarlyUses
    <3> QED BY <3>2, <3>3
  <2>10. \A w \in Workers : \A d \in 1..Depth(w)' : d \in 1..Depth(w) /\ lc_frames'[w][d].c = "timer"
    <3> SUFFICES ASSUME NEW w \in Workers, NEW d \in 1..Depth(w)'
                 PROVE  d \in 1..Depth(w) /\ lc_frames'[w][d].c = "timer"
      OBVIOUS
    <3>1. w \in Lifecycle!Threads
      BY BaseIs
    <3>2. ~(w = t /\ AsksFor(t))
      BY <2>7 DEF AsksFor, Before
    <3>3. d \in 1..Depth(w) /\ lc_frames'[w][d].c = lc_frames[w][d].c
      BY <3>1, <3>2, CallsAfter
    <3> QED BY <1>3, <3>3 DEF Early
  <2>11. Backup /\ ("timer" \in lc_instance \/ lc_holder["timer"] = "main") =>
           "timer" \in lc_instance' \/ lc_holder'["timer"] = "main"
    <3>1. "timer" \in Lifecycle!Classes
      BY DEF Lifecycle!Classes
    <3>2. ASSUME Begins(t), Inner(t).c = "timer", lc_holder'["timer"] = t, Backup
          PROVE  "timer" \in lc_instance \/ lc_holder'["timer"] = "main"
      BY <2>2, <2>4, <3>2 DEF Begins, Lifecycle!None
    <3>3. lc_instance \subseteq lc_instance'
      BY HolderAfter, <3>1
    <3>4. Sets(t) /\ Inner(t).c = "timer" => "timer" \in lc_instance'
      BY DEF Sets
    <3>5. \/ lc_holder'["timer"] = lc_holder["timer"]
          \/ Begins(t) /\ Inner(t).c = "timer" /\ lc_holder'["timer"] = t
          \/ Sets(t) /\ Inner(t).c = "timer"
      BY <2>8, <3>1, HolderAfter
    <3> QED BY <3>2, <3>3, <3>4, <3>5
  <2>12. \A w \in lc_alive' : w \in lc_alive \/ (w = "timer" /\ Backup /\ lc_holder'["timer"] = "main")
    <3>1. CASE Starts(t)
      <4>1. t = "main" /\ lc_alive' = lc_alive \union Lifecycle!StartedBy(Inner(t).c) /\ lc_holder' = lc_holder
        BY <2>4, <2>7, <3>1 DEF Starts, Before
      <4>2. Lifecycle!StartedBy(Inner(t).c) \subseteq (IF Inner(t).c = "timer" THEN {"timer"} ELSE {})
        BY <2>3, <4>1 DEF Lifecycle!StartedBy, Lifecycle!WorkersOf, Base, Needs
      <4>3. Inner(t).c = "timer" => Backup /\ lc_holder["timer"] = "main"
        BY <2>3, <2>5, <2>6, <3>1, <4>1 DEF Starts, Before
      <4> QED BY <4>1, <4>2, <4>3
    <3>2. CASE lc_alive' = lc_alive
      BY <3>2
    <3> QED BY <3>1, <3>2 DEF LcStep, ObjectsStay, Aborts, Finds, Waits, Begins, AsksFor,
               Constructed, Registers,
         Initialised, Sets
  <2>13. \A w \in Workers : w \in lc_alive' \/ Depth(w)' # 0 =>
           w = "timer" /\ Backup /\ ("timer" \in lc_instance' \/ lc_holder'["timer"] = "main")
    <3> SUFFICES ASSUME NEW w \in Workers, w \in lc_alive' \/ Depth(w)' # 0
                 PROVE  w = "timer" /\ Backup /\ ("timer" \in lc_instance' \/ lc_holder'["timer"] = "main")
      OBVIOUS
    <3>1. w \in Lifecycle!Threads /\ Depth(w)' \in Nat
      BY BaseIs, TypesStep DEF LcTypes, Depth
    <3>2. Depth(w)' # 0 => Depth(w) # 0
      <4> SUFFICES ASSUME Depth(w)' # 0 PROVE Depth(w) # 0
        OBVIOUS
      <4>1. 1 \in 1..Depth(w)'
        BY <3>1
      <4> QED BY <2>10, <4>1
    <3> QED BY <1>3, <2>11, <2>12, <3>2 DEF Early
  <2>14. Early'
    <3>1. \A w \in Workers : \A d \in 1..Depth(w)' : lc_frames'[w][d].c = "timer"
      BY <2>10
    <3> QED BY <1>3, <2>9, <2>13, <3>1 DEF Early, MainStays
  <2> QED BY <2>14 DEF Phase
<1> QED BY <1>2, <1>3 DEF Phase

LEMMA StorageUsesAre ==
  ASSUME ServerThreadsAssumption
  PROVE  \A b \in Needs : \E k \in 1..Len(StorageUses) : StorageUses[k] = b
<1>1. CASE Backup
  <2>1. StorageUses = <<"config", "timer">> /\ Len(StorageUses) = 2
    BY <1>1 DEF StorageUses, Lifecycle!InitUses
  <2>2. StorageUses[1] = "config" /\ StorageUses[2] = "timer"
    BY <2>1
  <2> QED BY <1>1, <2>1, <2>2 DEF Needs
<1>2. CASE ~Backup
  <2>1. StorageUses = <<"config">> /\ Len(StorageUses) = 1
    BY <1>2 DEF StorageUses, Lifecycle!InitUses
  <2>2. StorageUses[1] = "config"
    BY <2>1
  <2> QED BY <1>2, <2>1, <2>2 DEF Needs
<1> QED BY <1>1, <1>2

LEMMA NeedStep ==
  ASSUME ServerThreadsAssumption, LcTypes, NeedInv,
         NEW t \in Lifecycle!Threads, ~Lifecycle!Idle(t), LcStep(t), MainStays
  PROVE  NeedInv'
<1> DEFINE f(d) == lc_frames["main"][d]
           Asked(d, k) ==
             \/ StorageUses[k] \in lc_instance
             \/ d + 1 \in 1..Depth("main") /\ f(d + 1).c = StorageUses[k]
<1> SUFFICES ASSUME NEW d \in 1..Depth("main")', lc_frames'["main"][d].c = "storage"
             PROVE  /\ lc_frames'["main"][d].at = "init" =>
                         \A k \in 1..Len(StorageUses) : k < lc_frames'["main"][d].i => Asked(d, k)'
                    /\ lc_frames'["main"][d].at \in {"start", "register", "set"} => Needs \subseteq lc_instance'
  BY DEF NeedInv, StorageUses, Lifecycle!InitUses
<1>1. Depth(t) \in Nat \ {0} /\ Depth(t) \in 1..Depth(t) /\ Inner(t) \in Frame /\ "main" \in Lifecycle!Threads
  BY InnerIs, BaseIs
<1>2. lc_instance \subseteq lc_instance'
  BY BaseIs, HolderAfter
<1>3. ASSUME NEW e \in 1..Depth("main"), f(e).c = "storage"
      PROVE  /\ f(e).at = "init" => \A k \in 1..Len(StorageUses) : k < f(e).i => Asked(e, k)
             /\ f(e).at \in {"start", "register", "set"} => Needs \subseteq lc_instance
  BY <1>3 DEF NeedInv
<1>4. ASSUME d \in 1..Depth("main"), lc_frames'["main"][d] = f(d),
             \A k \in 1..Len(StorageUses) : Asked(d, k) => Asked(d, k)'
      PROVE  /\ lc_frames'["main"][d].at = "init" =>
                         \A k \in 1..Len(StorageUses) : k < lc_frames'["main"][d].i => Asked(d, k)'
             /\ lc_frames'["main"][d].at \in {"start", "register", "set"} => Needs \subseteq lc_instance'
  <2>1. f(d).c = "storage"
    BY <1>4
  <2>2. f(d).at = "init" => \A k \in 1..Len(StorageUses) : k < f(d).i => Asked(d, k)
    BY <1>3, <1>4, <2>1
  <2>3. f(d).at \in {"start", "register", "set"} => Needs \subseteq lc_instance
    BY <1>3, <1>4, <2>1
  <2>4. ASSUME lc_frames'["main"][d].at = "init", NEW k \in 1..Len(StorageUses),
               k < lc_frames'["main"][d].i
        PROVE  Asked(d, k)'
    <3>1. Asked(d, k)
      BY <1>4, <2>2, <2>4
    <3> QED BY <1>4, <3>1
  <2>5. lc_frames'["main"][d].at \in {"start", "register", "set"} => Needs \subseteq lc_instance'
    BY <1>2, <1>4, <2>3
  <2> QED BY <2>4, <2>5
<1>5. CASE t # "main"
  <2>1. lc_frames'["main"] = lc_frames["main"]
    BY <1>1, <1>5, EffectIs DEF OnlyCallsOf
  <2>2. Depth("main")' = Depth("main")
    BY <2>1 DEF Depth
  <2>3. \A k \in 1..Len(StorageUses) : Asked(d, k) => Asked(d, k)'
    BY <1>2, <2>1, <2>2 DEF StorageUses, Lifecycle!InitUses
  <2> QED BY <1>4, <2>1, <2>2, <2>3
<1>6. CASE t = "main"
  <2>1. CASE Aborts(t)
    BY <1>6, <2>1 DEF Aborts, Empties, Depth
  <2>2. CASE Finds(t) \/ Sets(t)
    <3>1. Pops(t) /\ Inner(t).c \in lc_instance'
      BY <2>2 DEF Finds, Sets, ObjectsStay
    <3>2. d \in 1..Depth(t) - 1 /\ lc_frames'["main"][d] = f(d)
      BY <1>1, <1>6, <3>1 DEF Pops, Kept, Depth
    <3>3. \A k \in 1..Len(StorageUses) : Asked(d, k) => Asked(d, k)'
      <4> SUFFICES ASSUME NEW k \in 1..Len(StorageUses), d + 1 \in 1..Depth("main"), f(d + 1).c = StorageUses[k]
                   PROVE  Asked(d, k)'
        BY <1>2 DEF StorageUses, Lifecycle!InitUses
      <4>1. CASE d + 1 = Depth("main")
        BY <1>6, <3>1, <4>1 DEF Inner, Depth, StorageUses, Lifecycle!InitUses
      <4>2. CASE d + 1 # Depth("main")
        <5>1. d + 1 \in 1..Depth(t) - 1 /\ Depth("main")' = Depth(t) - 1
          BY <1>1, <1>6, <3>1, <3>2, <4>2 DEF Pops, Depth
        <5>2. lc_frames'["main"][d + 1] = f(d + 1)
          BY <1>6, <3>1, <5>1 DEF Pops, Kept
        <5> QED BY <5>1, <5>2 DEF StorageUses, Lifecycle!InitUses
      <4> QED BY <4>1, <4>2
    <3>4. d \in 1..Depth("main")
      BY <1>1, <1>6, <3>2
    <3> QED BY <1>4, <3>2, <3>3, <3>4
  <2>3. ASSUME Waits(t) \/ Begins(t) \/ Constructed(t) \/ Registers(t) \/ Initialised(t) \/ Starts(t)
        PROVE  /\ lc_frames'["main"][d].at = "init" =>
                         \A k \in 1..Len(StorageUses) : k < lc_frames'["main"][d].i => Asked(d, k)'
               /\ lc_frames'["main"][d].at \in {"start", "register", "set"} => Needs \subseteq lc_instance'
    <3>1. PICK at : Turns(t, at) /\ (Waits(t) => at = "lock") /\ (Begins(t) => at = "constructor")
                    /\ (Initialised(t) => at = "start")
                    /\ (Constructed(t) => at = (IF Inner(t).c = "storage" THEN "init" ELSE "register"))
                    /\ (Registers(t) => at = (IF Inner(t).c = "storage" THEN "set" ELSE "init"))
                    /\ (Starts(t) => at = (IF Inner(t).c = "storage" THEN "register" ELSE "set"))
      <4>1. CASE Waits(t)
        BY <4>1 DEF Waits, Begins, Constructed, Registers, Initialised, Starts
      <4>2. CASE Begins(t)
        BY <4>2 DEF Waits, Begins, Constructed, Registers, Initialised, Starts
      <4>3. CASE Constructed(t)
        BY <4>3 DEF Waits, Begins, Constructed, Registers, Initialised, Starts
      <4>4. CASE Registers(t)
        BY <4>4 DEF Waits, Begins, Constructed, Registers, Initialised, Starts
      <4>5. CASE Initialised(t)
        BY <4>5 DEF Waits, Begins, Constructed, Registers, Initialised, Starts
      <4>6. CASE Starts(t)
        BY <4>6 DEF Waits, Begins, Constructed, Registers, Initialised, Starts
      <4> QED BY <2>3, <4>1, <4>2, <4>3, <4>4, <4>5, <4>6
    <3>2. Depth("main")' = Depth(t) /\ \A e \in 1..Depth(t) : lc_frames'["main"][e].c = f(e).c
      BY <1>1, <1>6, <3>1 DEF Turns, Kept, Depth, Inner
    <3>3. CASE d # Depth(t)
      <4>1. d \in 1..Depth(t) - 1 /\ lc_frames'["main"][d] = f(d)
        BY <1>1, <1>6, <3>1, <3>2, <3>3 DEF Turns, Kept
      <4>2. \A k \in 1..Len(StorageUses) : Asked(d, k) => Asked(d, k)'
        BY <1>1, <1>2, <1>6, <3>2, <4>1 DEF StorageUses, Lifecycle!InitUses
      <4>3. d \in 1..Depth("main")
        BY <1>1, <1>6, <4>1
      <4> QED BY <1>4, <4>1, <4>2, <4>3
    <3>4. CASE d = Depth(t)
      <4>1. f(d) = Inner(t) /\ Inner(t).c = "storage" /\ d \in 1..Depth("main")
        BY <1>1, <1>6, <3>2, <3>4 DEF Inner, Depth
      <4>2. lc_frames'["main"][d].at = at /\ lc_frames'["main"][d].i = 1
        BY <1>6, <3>1, <3>4 DEF Turns
      <4>3. at \in {"start", "register", "set"} => Needs \subseteq lc_instance
        <5>1. CASE Initialised(t)
          <6>1. \A k \in 1..Len(StorageUses) : k < Inner(t).i
            BY <1>1, <4>1, <5>1, UsesAre DEF Initialised, StorageUses, Frame, Counts
          <6>2. \A k \in 1..Len(StorageUses) : StorageUses[k] \in lc_instance
            <7>1. d + 1 \notin 1..Depth("main")
              BY <1>1, <1>6, <3>4
            <7>2. f(d).at = "init"
              BY <4>1, <5>1 DEF Initialised
            <7> QED BY <1>3, <4>1, <6>1, <7>1, <7>2
          <6> QED BY <6>2, StorageUsesAre
        <5>2. CASE Starts(t) \/ Registers(t)
          BY <1>3, <4>1, <5>2 DEF Starts, Registers
        <5>3. CASE Waits(t) \/ Begins(t) \/ Constructed(t)
          BY <3>1, <4>1, <5>3
        <5> QED BY <2>3, <5>1, <5>2, <5>3
      <4>4. \A k \in 1..Len(StorageUses) : ~(k < 1)
        BY UsesAre DEF StorageUses
      <4> QED BY <1>2, <4>2, <4>3, <4>4
    <3> QED BY <3>3, <3>4
  <2>4. CASE AsksFor(t)
    <3>1. PICK c : Pushes(t, c) /\ (Inner(t).at = "init" => c = Lifecycle!InitUses(Inner(t).c)[Inner(t).i])
                   /\ Inner(t).at \in {"constructor", "init"}
      BY <2>4 DEF AsksFor, NeedsMore
    <3>2. /\ Depth("main")' = Depth(t) + 1
          /\ \A e \in 1..Depth(t) : lc_frames'["main"][e].c = f(e).c /\ lc_frames'["main"][e].at = f(e).at
      <4>1. Depth("main")' = Depth(t) + 1
        BY <1>6, <3>1 DEF Pushes, Depth
      <4> SUFFICES ASSUME NEW e \in 1..Depth(t)
                   PROVE  lc_frames'["main"][e].c = f(e).c /\ lc_frames'["main"][e].at = f(e).at
        BY <4>1
      <4>2. CASE e = Depth(t)
        BY <1>6, <3>1, <4>2 DEF Pushes, Inner, Depth
      <4>3. CASE e # Depth(t)
        <5>1. e \in 1..Depth(t) - 1
          BY <1>1, <4>3
        <5> QED BY <1>6, <3>1, <5>1 DEF Pushes, Kept
      <4> QED BY <4>2, <4>3
    <3>3. CASE d \in 1..Depth(t) - 1
      <4>1. lc_frames'["main"][d] = f(d)
        BY <1>6, <3>1, <3>3 DEF Pushes, Kept
      <4>2. \A k \in 1..Len(StorageUses) : Asked(d, k) => Asked(d, k)'
        BY <1>1, <1>2, <1>6, <3>2, <3>3 DEF StorageUses, Lifecycle!InitUses
      <4>3. d \in 1..Depth("main")
        BY <1>1, <1>6, <3>3
      <4> QED BY <1>4, <4>1, <4>2, <4>3
    <3>4. CASE d = Depth(t)
      <4>1. f(d) = Inner(t) /\ Inner(t).c = "storage" /\ d \in 1..Depth("main")
        BY <1>1, <1>6, <3>2, <3>4 DEF Inner, Depth
      <4>2. lc_frames'["main"][d].at = Inner(t).at /\ lc_frames'["main"][d].i = Inner(t).i + 1
        BY <1>6, <3>1, <3>4 DEF Pushes
      <4>3. lc_frames'["main"][d + 1].c = c /\ d + 1 \in 1..Depth("main")'
        BY <1>1, <1>6, <3>1, <3>2, <3>4 DEF Pushes
      <4>4. ASSUME Inner(t).at = "init", NEW k \in 1..Len(StorageUses), k < Inner(t).i + 1
            PROVE  Asked(d, k)'
        <5>1. CASE k = Inner(t).i
          BY <3>1, <4>1, <4>3, <4>4, <5>1 DEF StorageUses, Lifecycle!InitUses
        <5>2. CASE k # Inner(t).i
          <6>1. k < f(d).i
            BY <1>1, <4>1, <4>4, <5>2, UsesAre DEF StorageUses, Frame, Counts
          <6>2. d + 1 \notin 1..Depth("main")
            BY <1>1, <1>6, <3>4
          <6> QED BY <1>2, <1>3, <4>1, <4>4, <6>1, <6>2 DEF StorageUses, Lifecycle!InitUses
        <5> QED BY <5>1, <5>2
      <4> QED BY <3>1, <4>2, <4>4
    <3>5. CASE d = Depth(t) + 1
      <4>1. lc_frames'["main"][d].at = "check"
        BY <1>6, <3>1, <3>5 DEF Pushes
      <4> QED BY <4>1
    <3> QED BY <1>1, <3>2, <3>3, <3>4, <3>5
  <2> QED BY <2>1, <2>2, <2>3, <2>4 DEF LcStep
<1> QED BY <1>5, <1>6

(* Nothing fails in a thread that creates an object of the base.           *)
LEMMA BuildersGoOn ==
  ASSUME ServerThreadsAssumption, LcTypes, Phase, BuildInv,
         NEW b \in Base, NEW e \in 1..Depth("main"), Creates("main", e, b),
         ~Lifecycle!Idle("main")
  PROVE  ~Aborts("main")
<1>1. "main" \in Lifecycle!Threads
  BY BaseIs
<1>2. Depth("main") \in Nat \ {0} /\ Inner("main") \in Frame
  BY <1>1, InnerIs
<1>3. b \notin lc_instance /\ b \in lc_active
  BY <1>1 DEF BuildInv
<1>4. Early
  BY <1>3 DEF Phase, Settled
<1>5. Inner("main").c \in Base \union {"server"} /\ Inner("main").c \in lc_active
  BY <1>2, <1>4 DEF Early, Inner, Depth, Frame
<1> QED BY <1>5, BaseIs DEF Aborts

(* While an object is closed main() finds what it asks for.                *)
LEMMA ClosingFinds ==
  ASSUME ServerThreadsAssumption, LcTypes, StackInv, CloseInv,
         lc_closing # Lifecycle!None, ~Lifecycle!Idle("main"), LcStep("main")
  PROVE  Finds("main")
<1>1. "main" \in Lifecycle!Threads
  BY BaseIs
<1>2. Depth("main") \in Nat \ {0} /\ Inner("main") \in Frame
  BY <1>1, InnerIs
<1>3. lc_closing = "storage" /\ Inner("main").c \in Needs /\ Inner("main").at = "check"
  BY <1>2 DEF CloseInv, Inner, Depth
<1>4. Inner("main").c \in lc_active /\ Inner("main").c \in Base
  BY <1>3, BaseIs DEF CloseInv, StackInv
<1>5. \A d \in 1..Depth("main") : ~Registered(d, Inner("main").c)
  BY DEF CloseInv, Registered
<1>6. Inner("main").c \in lc_instance
  BY <1>3, <1>4, <1>5 DEF CloseInv, StackInv
<1> QED
  BY <1>3, <1>4, <1>6 DEF LcStep, Aborts, Waits, Begins, AsksFor, Constructed, Registers,
     Initialised, Starts, Sets

LEMMA RegisteredAfter ==
  ASSUME ServerThreadsAssumption, LcTypes, Phase, BuildInv,
         NEW t \in Lifecycle!Threads, ~Lifecycle!Idle(t), LcStep(t), NEW b \in Base
  PROVE  /\ \A d \in 1..Depth("main") : Registered(d, b) =>
              (d \in 1..Depth("main")' /\ Registered(d, b)') \/ b \in lc_instance'
         /\ \A d \in 1..Depth("main")' : Registered(d, b)' =>
              \/ d \in 1..Depth("main") /\ Registered(d, b)
              \/ t = "main" /\ d = Depth("main") /\ b = Inner(t).c /\ Registers(t)
         /\ Registers(t) /\ t = "main" /\ b = Inner(t).c =>
              \E d \in 1..Depth("main")' : Registered(d, b)'
<1>1. Depth(t) \in Nat \ {0} /\ Depth(t) \in 1..Depth(t) /\ Inner(t) \in Frame /\ "main" \in Lifecycle!Threads
  BY InnerIs, BaseIs
<1>2. CASE t # "main"
  <2>1. lc_frames'["main"] = lc_frames["main"]
    BY <1>1, <1>2, EffectIs DEF OnlyCallsOf
  <2> QED BY <1>2, <2>1 DEF Depth, Registered
<1>3. CASE t = "main"
  <2>1. CASE Aborts(t)
    <3>1. \A d \in 1..Depth("main") : ~Registered(d, b)
      <4> SUFFICES ASSUME NEW d \in 1..Depth("main"), Registered(d, b) PROVE FALSE
        OBVIOUS
      <4>1. Creates("main", d, b)
        BY DEF Registered, Creates, Depth, Before
      <4> QED BY <1>3, <2>1, <4>1, BuildersGoOn
    <3>2. Depth("main")' = 0 /\ ~Registers(t)
      BY <1>1, <1>3, <2>1 DEF Aborts, Empties, Depth, Registers, Before
    <3> QED BY <3>1, <3>2
  <2>2. CASE Finds(t) \/ Sets(t)
    <3>1. Pops(t) /\ ~Registers(t) /\ (Sets(t) => Inner(t).c \in lc_instance')
      BY <2>2 DEF Finds, Sets, Before, Registers
    <3>2. Depth("main")' = Depth(t) - 1 /\ \A d \in 1..Depth(t) - 1 : lc_frames'["main"][d] = lc_frames["main"][d]
      BY <1>3, <3>1 DEF Pops, Kept, Depth
    <3>3. Finds(t) => ~Registered(Depth(t), b)
      BY <1>3 DEF Finds, Registered, Inner, Depth, Before
    <3>4. Sets(t) /\ Registered(Depth(t), b) => b \in lc_instance'
      BY <1>3, <3>1 DEF Registered, Inner, Depth
    <3>5. \A d \in 1..Depth(t) - 1 : Registered(d, b)' <=> Registered(d, b)
      BY <1>1, <1>3, <3>2 DEF Registered, Depth
    <3>6. \A d \in 1..Depth(t) : d = Depth(t) \/ d \in 1..Depth(t) - 1
      BY <1>1
    <3> QED BY <1>1, <1>3, <2>2, <3>1, <3>2, <3>3, <3>4, <3>5, <3>6
  <2>3. ASSUME Waits(t) \/ Begins(t) \/ Constructed(t) \/ Registers(t) \/ Initialised(t) \/ Starts(t)
        PROVE  /\ \A d \in 1..Depth("main") : Registered(d, b) => d \in 1..Depth("main")' /\ Registered(d, b)'
               /\ \A d \in 1..Depth("main")' : Registered(d, b)' =>
                    \/ d \in 1..Depth("main") /\ Registered(d, b)
                    \/ d = Depth("main") /\ b = Inner(t).c /\ Registers(t)
               /\ Registers(t) /\ b = Inner(t).c => \E d \in 1..Depth("main")' : Registered(d, b)'
    <3>1. PICK at : Turns(t, at)
                    /\ (Inner(t).at = "check" => at = "lock") /\ (Inner(t).at = "lock" => at = "constructor")
                    /\ (Inner(t).at = "init" => at = "start")
                    /\ (Inner(t).at = "constructor" => at = (IF Inner(t).c = "storage" THEN "init" ELSE "register"))
                    /\ (Inner(t).at = "register" => at = (IF Inner(t).c = "storage" THEN "set" ELSE "init"))
                    /\ (Inner(t).at = "start" => at = (IF Inner(t).c = "storage" THEN "register" ELSE "set"))
                    /\ Inner(t).at \in {"check", "lock", "constructor", "register", "init", "start"}
      <4>1. CASE Waits(t)
        BY <4>1 DEF Waits
      <4>2. CASE Begins(t)
        BY <4>2 DEF Begins
      <4>3. CASE Constructed(t)
        BY <4>3 DEF Constructed
      <4>4. CASE Registers(t)
        BY <4>4 DEF Registers
      <4>5. CASE Initialised(t)
        BY <4>5 DEF Initialised
      <4>6. CASE Starts(t)
        BY <4>6 DEF Starts
      <4> QED BY <2>3, <4>1, <4>2, <4>3, <4>4, <4>5, <4>6
    <3>2. Depth("main")' = Depth(t) /\ \A d \in 1..Depth(t) - 1 : lc_frames'["main"][d] = lc_frames["main"][d]
      BY <1>3, <3>1 DEF Turns, Kept, Depth
    <3>0. PICK n \in Nat \ {0} : n = Depth(t)
      BY <1>1
    <3>3. \A d \in 1..n - 1 : Registered(d, b)' <=> Registered(d, b)
      BY <1>1, <1>3, <3>0, <3>2 DEF Registered, Depth
    <3>4. lc_frames'["main"][n].c = Inner(t).c /\ lc_frames'["main"][n].at = at
      BY <1>3, <3>0, <3>1 DEF Turns
    <3>5. Registered(n, b) <=>
            Inner(t).c = b /\ Inner(t).at \in IF b = "storage" THEN {"set"} ELSE {"init", "start", "set"}
      BY <1>1, <1>3, <3>0 DEF Registered, Inner, Depth
    <3>6. Registered(n, b)' <=>
            Inner(t).c = b /\ at \in IF b = "storage" THEN {"set"} ELSE {"init", "start", "set"}
      <4>1. n \in 1..Depth("main")'
        BY <1>1, <3>0, <3>2
      <4> QED BY <3>4, <4>1 DEF Registered, Depth
    <3>7. Registered(n, b) => Registered(n, b)'
      BY <3>1, <3>5, <3>6
    <3>8. Registered(n, b)' => Registered(n, b) \/ (b = Inner(t).c /\ Inner(t).at = "register")
      BY <3>1, <3>5, <3>6
    <3>9. Inner(t).at = "register" => Registers(t)
      BY <2>3 DEF Waits, Begins, Constructed, Registers, Initialised, Starts
    <3>10. Registers(t) /\ b = Inner(t).c => Registered(n, b)'
      BY <3>1, <3>6 DEF Registers
    <3>11. \A d \in 1..n : d = n \/ d \in 1..n - 1
      OBVIOUS
    <3>12. Depth("main") = n /\ Depth("main")' = n
      BY <1>3, <3>0, <3>2
    <3> QED BY <3>3, <3>7, <3>8, <3>9, <3>10, <3>11, <3>12
  <2>4. CASE AsksFor(t)
    <3>1. PICK c : Pushes(t, c)
      BY <2>4 DEF AsksFor, NeedsMore
    <3>2. Depth("main")' = Depth(t) + 1 /\ \A d \in 1..Depth(t) - 1 : lc_frames'["main"][d] = lc_frames["main"][d]
      BY <1>3, <3>1 DEF Pushes, Kept, Depth
    <3>3. /\ lc_frames'["main"][Depth(t)].c = lc_frames["main"][Depth(t)].c
          /\ lc_frames'["main"][Depth(t)].at = lc_frames["main"][Depth(t)].at
          /\ lc_frames'["main"][Depth(t) + 1].at = "check"
      BY <1>3, <3>1 DEF Pushes, Inner, Depth
    <3>4. \A d \in 1..Depth(t) : Registered(d, b)' <=> Registered(d, b)
      <4> SUFFICES ASSUME NEW d \in 1..Depth(t) PROVE Registered(d, b)' <=> Registered(d, b)
        OBVIOUS
      <4>1. lc_frames'["main"][d].c = lc_frames["main"][d].c /\ lc_frames'["main"][d].at = lc_frames["main"][d].at
        <5>1. CASE d = Depth(t)
          BY <3>3, <5>1
        <5>2. CASE d # Depth(t)
          BY <1>1, <3>2, <5>2
        <5> QED BY <5>1, <5>2
      <4> QED BY <1>1, <1>3, <3>2, <4>1 DEF Registered, Depth
    <3>5. \A d \in 1..Depth(t) + 1 : d = Depth(t) + 1 => ~Registered(d, b)'
      BY <3>3 DEF Registered
    <3>6. ~Registers(t)
      BY <2>4 DEF AsksFor, Registers
    <3>7. \A d \in 1..Depth(t) + 1 : d = Depth(t) + 1 \/ d \in 1..Depth(t)
      BY <1>1
    <3>8. Depth("main") = Depth(t) /\ \A d \in 1..Depth(t) : d \in 1..Depth(t) + 1
      BY <1>1, <1>3
    <3> HIDE DEF Depth, Registered
    <3>9. \A d \in 1..Depth("main") : Registered(d, b) => d \in 1..Depth("main")' /\ Registered(d, b)'
      BY <3>2, <3>4, <3>8
    <3>10. \A d \in 1..Depth("main")' : Registered(d, b)' => d \in 1..Depth("main") /\ Registered(d, b)
      BY <3>2, <3>4, <3>5, <3>7, <3>8
    <3> QED BY <3>6, <3>9, <3>10
  <2> QED BY <1>3, <2>1, <2>2, <2>3, <2>4 DEF LcStep
<1> QED BY <1>2, <1>3

(* The stack of the SingletonManager grows by what registers.              *)
LEMMA StackAfter ==
  ASSUME LcTypes, NEW t \in Lifecycle!Threads, ~Lifecycle!Idle(t), LcStep(t)
  PROVE  \/ lc_stack' = lc_stack /\ ~Registers(t)
         \/ /\ Registers(t) /\ Creates(t, Depth(t), Inner(t).c) /\ Len(lc_stack') = Len(lc_stack) + 1
            /\ \A n \in 1..Len(lc_stack) : n \in 1..Len(lc_stack') /\ lc_stack'[n] = lc_stack[n]
            /\ lc_stack'[Len(lc_stack) + 1] = Inner(t).c
            /\ Len(lc_stack) \in Nat
<1>1. Depth(t) \in Nat \ {0} /\ Depth(t) \in 1..Depth(t) /\ Inner(t).c \in Lifecycle!Classes
  BY InnerIs DEF Frame
<1>2. CASE Registers(t)
  <2>1. Creates(t, Depth(t), Inner(t).c)
    BY <1>1, <1>2 DEF Registers, Creates, Before, Inner, Depth
  <2>2. lc_stack \in Seq(Lifecycle!Classes) /\ lc_stack' = Append(lc_stack, Inner(t).c)
    BY <1>2 DEF LcTypes, Registers
  <2> QED BY <1>1, <1>2, <2>1, <2>2
<1>3. CASE ~Registers(t)
  BY <1>3 DEF LcStep, ObjectsStay, Aborts, Begins, Sets, Finds, Waits, AsksFor,
     Constructed, Initialised, Starts
<1> QED BY <1>2, <1>3

LEMMA StackStep ==
  ASSUME ServerThreadsAssumption, LcTypes, Phase, BuildInv, StackInv, CloseInv,
         NEW t \in Lifecycle!Threads, ~Lifecycle!Idle(t), LcStep(t), MainStays
  PROVE  StackInv'
<1>1. Depth(t) \in Nat \ {0} /\ Depth(t) \in 1..Depth(t) /\ "main" \in Lifecycle!Threads
  BY InnerIs, BaseIs
<1>2. lc_instance \subseteq lc_instance' /\ UNCHANGED <<lc_active, lc_closing>>
  BY BaseIs, HolderAfter DEF MainStays
<1>3. ASSUME NEW b \in Base
      PROVE  /\ OnStack(b) => OnStack(b)'
             /\ OnStack(b)' => OnStack(b) \/ (Registers(t) /\ b = Inner(t).c /\ Creates(t, Depth(t), b))
             /\ Registers(t) /\ b = Inner(t).c => OnStack(b)'
  <2>1. CASE lc_stack' = lc_stack /\ ~Registers(t)
    BY <2>1 DEF OnStack
  <2>2. CASE ~(lc_stack' = lc_stack /\ ~Registers(t))
    <3>1. \A n \in 1..Len(lc_stack') : n \in 1..Len(lc_stack) \/ n = Len(lc_stack) + 1
      BY <2>2, StackAfter
    <3>2. Len(lc_stack) + 1 \in 1..Len(lc_stack')
      BY <2>2, StackAfter
    <3> QED BY <2>2, <3>1, <3>2, StackAfter DEF OnStack
  <2> QED BY <2>1, <2>2
<1>4. ASSUME NEW b \in Base, Creates(t, Depth(t), b)
      PROVE  t = "main" /\ b \in lc_active /\ b \notin lc_instance /\ b # lc_closing
  <2>1. t = "main" /\ b \in lc_active /\ b \notin lc_instance
    BY <1>1, <1>4 DEF BuildInv
  <2>2. lc_closing = Lifecycle!None
    BY <1>1, <1>4, <2>1 DEF CloseInv, Creates, Depth, Before
  <2> QED BY <2>1, <2>2, BaseIs
<1>5. ASSUME NEW b \in Base, OnStack(b)'
      PROVE  /\ b # lc_closing' /\ b \in lc_active'
             /\ b \in lc_instance' \/ \E d \in 1..Depth("main")' : Registered(d, b)'
  <2>1. CASE OnStack(b)
    <3>1. /\ b # lc_closing /\ b \in lc_active
          /\ b \in lc_instance \/ \E d \in 1..Depth("main") : Registered(d, b)
      BY <2>1 DEF StackInv
    <3> QED BY <1>2, <3>1, RegisteredAfter
  <2>2. CASE Registers(t) /\ b = Inner(t).c /\ Creates(t, Depth(t), b)
    <3>1. t = "main" /\ b \in lc_active /\ b # lc_closing
      BY <1>4, <2>2
    <3>2. \E d \in 1..Depth("main")' : Registered(d, b)'
      BY <2>2, <3>1, RegisteredAfter
    <3> QED BY <1>2, <3>1, <3>2
  <2> QED BY <1>3, <1>5, <2>1, <2>2
<1>6. ASSUME NEW b \in Base, NEW d \in 1..Depth("main")', Registered(d, b)'
      PROVE  OnStack(b)'
  BY <1>3, <1>6, RegisteredAfter DEF StackInv
<1>7. ASSUME NEW b \in Base, b \in lc_instance'
      PROVE  b \in lc_active' /\ (OnStack(b)' \/ b = lc_closing')
  <2>1. CASE b \in lc_instance
    BY <1>2, <1>3, <2>1 DEF StackInv
  <2>2. CASE b \notin lc_instance
    <3>1. Sets(t) /\ b = Inner(t).c /\ b \in Lifecycle!Classes
      BY <1>7, <2>2, HolderAfter, BaseIs
    <3>2. Creates(t, Depth(t), b)
      BY <1>1, <3>1 DEF Sets, Creates, Inner, Depth, Before
    <3>3. t = "main" /\ b \in lc_active
      BY <1>4, <3>2
    <3>4. Registered(Depth("main"), b)
      BY <1>1, <3>1, <3>3 DEF Registered, Sets, Inner, Depth
    <3>5. OnStack(b)
      BY <1>1, <3>3, <3>4 DEF StackInv
    <3> QED BY <1>2, <1>3, <3>3, <3>5
  <2> QED BY <2>1, <2>2
<1> QED BY <1>5, <1>6, <1>7 DEF StackInv

LEMMA OrderStep ==
  ASSUME ServerThreadsAssumption, LcTypes, BuildInv, NeedInv, StackInv, OrderInv, CloseInv,
         NEW t \in Lifecycle!Threads, ~Lifecycle!Idle(t), LcStep(t)
  PROVE  OrderInv'
<1>1. Depth(t) \in Nat \ {0} /\ Depth(t) \in 1..Depth(t) /\ "main" \in Lifecycle!Threads
  BY InnerIs, BaseIs
<1>2. CASE lc_stack' = lc_stack
  BY <1>2 DEF OrderInv
<1>3. CASE lc_stack' # lc_stack
  <2> DEFINE c == Inner(t).c
             l == Len(lc_stack)
  <2>1. /\ Registers(t) /\ Creates(t, Depth(t), c) /\ Len(lc_stack') = l + 1 /\ l \in Nat
        /\ \A n \in 1..l : n \in 1..l + 1 /\ lc_stack'[n] = lc_stack[n]
        /\ lc_stack'[l + 1] = c
    BY <1>3, StackAfter
  <2>2. \A n \in 1..l + 1 : n = l + 1 \/ n \in 1..l
    BY <2>1
  <2>3. ASSUME c \in Base PROVE t = "main" /\ ~OnStack(c) /\ lc_closing = Lifecycle!None
    <3>1. /\ t = "main" /\ c \notin lc_instance
          /\ \A e \in 1..Depth(t) : Creates(t, e, c) => e = Depth(t)
      BY <1>1, <2>1, <2>3 DEF BuildInv
    <3>2. \A d \in 1..Depth("main") : ~Registered(d, c)
      <4> SUFFICES ASSUME NEW d \in 1..Depth("main"), Registered(d, c) PROVE FALSE
        OBVIOUS
      <4>1. Creates(t, d, c)
        BY <3>1 DEF Registered, Creates, Depth, Before
      <4>2. d = Depth(t)
        BY <3>1, <4>1
      <4> QED BY <2>1, <3>1, <4>2 DEF Registered, Registers, Inner, Depth
    <3>3. lc_closing = Lifecycle!None
      BY <1>1, <2>1, <3>1 DEF CloseInv, Creates, Depth, Before
    <3> QED BY <2>3, <3>1, <3>2, <3>3 DEF StackInv
  <2>4. ASSUME NEW n \in 1..Len(lc_stack'), NEW m \in 1..Len(lc_stack'),
               lc_stack'[n] = lc_stack'[m], lc_stack'[n] \in Base
        PROVE  n = m
    <3>1. CASE n \in 1..l /\ m \in 1..l
      BY <2>1, <2>4, <3>1 DEF OrderInv
    <3>2. CASE n = l + 1 /\ m \in 1..l
      <4>1. c \in Base /\ lc_stack[m] = c
        BY <2>1, <2>4, <3>2
      <4> QED BY <2>3, <3>2, <4>1 DEF OnStack
    <3>3. CASE m = l + 1 /\ n \in 1..l
      <4>1. c \in Base /\ lc_stack[n] = c
        BY <2>1, <2>4, <3>3
      <4> QED BY <2>3, <3>3, <4>1 DEF OnStack
    <3> QED BY <2>1, <2>2, <3>1, <3>2, <3>3
  <2>5. ASSUME NEW n \in 1..Len(lc_stack'), lc_stack'[n] = "storage", NEW b \in Needs
        PROVE  \E m \in 1..Len(lc_stack') : m < n /\ lc_stack'[m] = b
    <3>1. CASE n \in 1..l
      <4>1. PICK m \in 1..l : m < n /\ lc_stack[m] = b
        BY <2>1, <2>5, <3>1 DEF OrderInv
      <4> QED BY <2>1, <4>1
    <3>2. CASE n = l + 1
      <4>1. c = "storage" /\ t = "main" /\ lc_closing = Lifecycle!None /\ b \in Base
        BY <2>1, <2>3, <2>5, <3>2, BaseIs
      <4>2. b \in lc_instance
        <5>1. lc_frames["main"][Depth("main")].c = "storage" /\ lc_frames["main"][Depth("main")].at = "register"
          BY <2>1, <4>1 DEF Registers, Inner, Depth
        <5> QED BY <1>1, <2>5, <4>1, <5>1 DEF NeedInv
      <4>3. OnStack(b)
        BY <4>1, <4>2, BaseIs DEF StackInv
      <4>4. PICK m \in 1..l : lc_stack[m] = b
        BY <4>3 DEF OnStack
      <4>5. m \in 1..Len(lc_stack') /\ m < n
        BY <2>1, <3>2, <4>4
      <4> QED BY <2>1, <4>4, <4>5
    <3> QED BY <2>1, <2>2, <3>1, <3>2
  <2> QED BY <2>4, <2>5 DEF OrderInv
<1> QED BY <1>2, <1>3

LEMMA CloseStep ==
  ASSUME ServerThreadsAssumption, LcTypes, StackInv, CloseInv, ~lc_refused,
         NEW t \in Lifecycle!Threads, ~Lifecycle!Idle(t), LcStep(t), MainStays
  PROVE  CloseInv' /\ ~lc_refused'
<1>1. Depth(t) \in Nat \ {0} /\ "main" \in Lifecycle!Threads
  BY InnerIs, BaseIs
<1>2. UNCHANGED <<lc_pc, lc_closing>>
  BY DEF MainStays
<1>3. lc_closing # Lifecycle!None /\ t = "main" => Finds(t)
  BY ClosingFinds
<1>4. ~lc_refused'
  <2>1. CASE Aborts(t)
    <3>1. ~(t = "main" /\ lc_closing # Lifecycle!None)
      <4> SUFFICES ASSUME Finds(t) PROVE FALSE
        BY <1>3
      <4> QED BY <1>1, <2>1 DEF Aborts, Finds, Empties, Pops, Before
    <3> QED BY <2>1, <3>1 DEF Aborts
  <2>2. CASE lc_refused' = lc_refused
    BY <2>2
  <2> QED
    BY <2>1, <2>2 DEF LcStep, NothingRefused, Finds, Waits, Begins, AsksFor, Constructed,
       Registers, Initialised, Starts, Sets
<1>5. lc_closing = "storage" => \A b \in Needs : OnStack(b)'
  <2> SUFFICES ASSUME lc_closing = "storage", NEW b \in Needs PROVE OnStack(b)'
    OBVIOUS
  <2>1. PICK n \in 1..Len(lc_stack) : lc_stack[n] = b
    BY DEF CloseInv, OnStack
  <2>2. n \in 1..Len(lc_stack') /\ lc_stack'[n] = b
    BY <2>1, StackAfter
  <2> QED BY <2>2 DEF OnStack
<1>6. ASSUME lc_closing # Lifecycle!None, NEW d \in 1..Depth("main")'
      PROVE  /\ lc_closing = "storage" /\ lc_frames'["main"][d].c \in Needs
             /\ lc_frames'["main"][d].at = "check"
  <2>1. d \in 1..Depth("main") /\ lc_frames'["main"][d] = lc_frames["main"][d]
    <3>1. CASE t # "main"
      <4>1. lc_frames'["main"] = lc_frames["main"]
        BY <1>1, <3>1, EffectIs DEF OnlyCallsOf
      <4> QED BY <4>1 DEF Depth
    <3>2. CASE t = "main"
      <4>1. Pops(t)
        BY <1>3, <1>6, <3>2 DEF Finds
      <4> QED BY <1>1, <3>2, <4>1 DEF Pops, Kept, Depth
    <3> QED BY <3>1, <3>2
  <2> QED BY <1>6, <2>1 DEF CloseInv
<1> QED BY <1>2, <1>4, <1>5, <1>6 DEF CloseInv

LEMMA GetInstanceStep ==
  ASSUME ServerThreadsAssumption, LcInv, NEW t \in Lifecycle!Threads, Lifecycle!GetInstance(t)
  PROVE  LcInv'
<1>1. LcTypes /\ ~lc_refused /\ Phase /\ BuildInv /\ NeedInv /\ StackInv /\ OrderInv /\ CloseInv
  BY DEF LcInv, RunInv, Lifecycle!GetInstance, Lifecycle!Running
<1>2. LcStep(t) /\ ~Lifecycle!Idle(t) /\ MainStays
  BY <1>1, GetInstanceCases
<1>3. LcTypes' /\ Phase' /\ BuildInv' /\ NeedInv'
  BY <1>1, <1>2, TypesStep, PhaseStep, BuildStep, NeedStep
<1>4. StackInv' /\ OrderInv' /\ CloseInv' /\ ~lc_refused'
  BY <1>1, <1>2, StackStep, OrderStep, CloseStep
<1> QED BY <1>3, <1>4 DEF LcInv, RunInv

-----------------------------------------------------------------------------
(* The other steps: those that leave the objects and the calls alone.      *)
Quiet == UNCHANGED <<lc_instance, lc_active, lc_holder, lc_stack, lc_frames, lc_closing, lc_refused>>
Closing == {"close", "join"}

LEMMA QuietStep ==
  ASSUME LcTypes, RunInv, Quiet, lc_alive' \subseteq Workers,
         Settled \/ (lc_pc' \in EarlyPoints /\ lc_alive' \subseteq lc_alive),
         lc_pc \in Closing <=> lc_pc' \in Closing
  PROVE  LcTypes' /\ RunInv'
<1> USE DEF Quiet
<1>1. LcTypes'
  BY DEF LcTypes
<1>2. Depth("main")' = Depth("main") /\ \A u \in Lifecycle!Threads : Depth(u)' = Depth(u)
  BY DEF Depth
<1>3. Phase'
  <2>1. CASE Settled
    BY <2>1 DEF Phase, Settled
  <2>2. CASE ~Settled
    <3>1. Early /\ lc_pc' \in EarlyPoints /\ lc_alive' \subseteq lc_alive
      BY <2>2 DEF RunInv, Phase
    <3>2. Early'
      BY <3>1 DEF Early, Depth
    <3> QED BY <3>2 DEF Phase
  <2> QED BY <2>1, <2>2
<1>4. BuildInv'
  BY DEF RunInv, BuildInv, Creates, Depth
<1>5. NeedInv'
  BY DEF RunInv, NeedInv, Depth, StorageUses, Lifecycle!InitUses
<1>6. StackInv'
  BY DEF RunInv, StackInv, OnStack, Registered, Depth
<1>7. OrderInv'
  BY DEF RunInv, OrderInv
<1>8. CloseInv'
  BY DEF RunInv, CloseInv, OnStack, Depth, Closing
<1> QED BY <1>1, <1>3, <1>4, <1>5, <1>6, <1>7, <1>8 DEF RunInv

(* main() asks for an instance.                                            *)
LEMMA AskStep ==
  ASSUME ServerThreadsAssumption, LcTypes, RunInv, NEW c \in Lifecycle!Classes,
         lc_frames' = [lc_frames EXCEPT !["main"] = <<Lifecycle!Frame(c)>>],
         UNCHANGED <<lc_instance, lc_active, lc_holder, lc_stack, lc_closing, lc_alive>>,
         Lifecycle!Idle("main") \/ Settled,
         Settled \/ (c \in Base \union {"server"} /\ lc_pc' \in EarlyPoints),
         lc_pc \notin Closing, lc_pc' \notin Closing
  PROVE  LcTypes' /\ RunInv'
<1> DEFINE q == <<Lifecycle!Frame(c)>>
<1>1. q \in Seq(Frame) /\ Len(q) = 1 /\ q[1].c = c /\ q[1].at = "check"
  <2>1. Lifecycle!Frame(c) \in Frame /\ Lifecycle!Frame(c).c = c /\ Lifecycle!Frame(c).at = "check"
    BY DEF Frame, Lifecycle!Frame, Points, Before, Counts
  <2> HIDE DEF Frame, Lifecycle!Frame
  <2> QED BY <2>1
<1> HIDE DEF q
<1>2. "main" \in Lifecycle!Threads /\ "main" \notin Workers
  BY BaseIs
<1>3. lc_frames'["main"] = q /\ OnlyCallsOf("main")
  BY <1>1, <1>2, OneChanges DEF q
<1>4. LcTypes'
  BY <1>3 DEF LcTypes, OnlyCallsOf
<1>5. \A d \in 1..Depth("main")' : lc_frames'["main"][d].c = c /\ lc_frames'["main"][d].at = "check"
  BY <1>1, <1>3 DEF Depth
<1>6. \A u \in Lifecycle!Threads \ {"main"} : lc_frames'[u] = lc_frames[u]
  BY <1>3 DEF OnlyCallsOf
<1>7. Phase'
  <2>1. CASE Settled
    BY <2>1 DEF Phase, Settled
  <2>2. CASE ~Settled
    <3>1. Early /\ c \in Base \union {"server"} /\ lc_pc' \in EarlyPoints
      BY <2>2 DEF RunInv, Phase
    <3>2. \A w \in Workers : lc_frames'[w] = lc_frames[w]
      BY <1>2, <1>6, BaseIs
    <3>3. Early'
      BY <1>5, <3>1, <3>2 DEF Early, Depth
    <3> QED BY <3>3 DEF Phase
  <2> QED BY <2>1, <2>2
<1>8. BuildInv'
  <2> SUFFICES ASSUME NEW u \in Lifecycle!Threads, NEW b \in Base, NEW d \in 1..Depth(u)', Creates(u, d, b)'
               PROVE  /\ u = "main" /\ b \notin lc_instance' /\ b \in lc_active' /\ lc_holder'[b] = "main"
                      /\ \A e \in 1..Depth(u)' : Creates(u, e, b)' => e = d
    BY DEF BuildInv
  <2>1. u # "main"
    BY <1>5 DEF Creates, Before
  <2>2. d \in 1..Depth(u) /\ Creates(u, d, b)
    BY <1>6, <2>1 DEF Creates, Depth
  <2> QED BY <2>1, <2>2 DEF RunInv, BuildInv
<1>9. NeedInv'
  BY <1>5 DEF NeedInv
<1>10. \A d, b : ~(d \in 1..Depth("main")' /\ Registered(d, b)')
  BY <1>5 DEF Registered
<1>11. StackInv'
  <2>1. \A b \in Base : OnStack(b) => b \in lc_instance
    <3> SUFFICES ASSUME NEW b \in Base, OnStack(b) PROVE b \in lc_instance
      OBVIOUS
    <3>1. b \in lc_active /\ (b \in lc_instance \/ \E d \in 1..Depth("main") : Registered(d, b))
      BY DEF RunInv, StackInv
    <3>2. CASE Lifecycle!Idle("main")
      <4>1. 1..Depth("main") = {}
        BY <3>2 DEF Lifecycle!Idle, Depth
      <4> QED BY <3>1, <4>1
    <3>3. CASE Settled
      BY <3>1, <3>3 DEF Settled
    <3> QED BY <3>2, <3>3
  <2>2. \A b \in Base : OnStack(b)' <=> OnStack(b)
    BY DEF OnStack
  <2> QED BY <1>10, <2>1, <2>2 DEF RunInv, StackInv
<1>12. OrderInv'
  BY DEF RunInv, OrderInv
<1>13. CloseInv'
  <2>1. lc_closing = Lifecycle!None
    BY DEF RunInv, CloseInv, Closing
  <2>2. lc_closing' # "storage"
    BY <2>1 DEF Lifecycle!None
  <2> QED BY <2>1, <2>2 DEF CloseInv, Closing
<1> QED BY <1>4, <1>7, <1>8, <1>9, <1>11, <1>12, <1>13 DEF RunInv

(* A worker thread asks for an instance.                                   *)
LEMMA WorkStep ==
  ASSUME ServerThreadsAssumption, LcTypes, RunInv, NEW w \in Workers, Lifecycle!Work(w)
  PROVE  LcTypes' /\ RunInv'
<1> USE DEF Lifecycle!locks, Lifecycle!mains, Lifecycle!sigs
<1>1. PICK c \in Lifecycle!Targets(w) :
        lc_frames' = [lc_frames EXCEPT ![w] = <<Lifecycle!Frame(c)>>]
  BY DEF Lifecycle!Work
<1>2. UNCHANGED <<lc_instance, lc_active, lc_holder, lc_stack, lc_closing, lc_alive, lc_pc>> /\ w \in lc_alive
  BY DEF Lifecycle!Work
<1>3. w # "main" /\ w \in Lifecycle!Threads /\ "main" \in Lifecycle!Threads /\ w \in {"http", "task", "timer", "proc"}
  BY BaseIs DEF ServerThreadsAssumption, Lifecycle!LifecycleAssumption
<1>4. c \in Lifecycle!Classes /\ (w = "timer" => c = "timer")
  BY <1>3 DEF Lifecycle!Targets, Lifecycle!Classes
<1> DEFINE q == <<Lifecycle!Frame(c)>>
<1>5. q \in Seq(Frame) /\ Len(q) = 1 /\ q[1].c = c /\ q[1].at = "check"
  <2>1. Lifecycle!Frame(c) \in Frame /\ Lifecycle!Frame(c).c = c /\ Lifecycle!Frame(c).at = "check"
    BY <1>4 DEF Frame, Lifecycle!Frame, Points, Before, Counts
  <2> HIDE DEF Frame, Lifecycle!Frame
  <2> QED BY <2>1
<1> HIDE DEF q
<1>6. lc_frames'[w] = q /\ OnlyCallsOf(w)
  BY <1>1, <1>3, <1>5, OneChanges DEF q
<1>7. LcTypes'
  BY <1>2, <1>6 DEF LcTypes, OnlyCallsOf
<1>8. \A d \in 1..Depth(w)' : lc_frames'[w][d].c = c /\ lc_frames'[w][d].at = "check"
  <2>1. Depth(w)' = Len(lc_frames'[w])
    BY DEF Depth
  <2>2. Depth(w)' = 1
    BY <1>5, <1>6, <2>1
  <2>3. \A d \in 1..1 : d = 1
    OBVIOUS
  <2> QED BY <1>5, <1>6, <2>2, <2>3
<1>9. \A u \in Lifecycle!Threads \ {w} : lc_frames'[u] = lc_frames[u]
  BY <1>6 DEF OnlyCallsOf
<1>10. lc_frames'["main"] = lc_frames["main"] /\ Depth("main")' = Depth("main")
  BY <1>3, <1>9 DEF Depth
<1>11. Phase'
  <2>1. CASE Settled
    BY <1>2, <2>1 DEF Phase, Settled
  <2>2. CASE Early
    <3>1. w = "timer" /\ c = "timer"
      BY <1>2, <1>4, <2>2 DEF Early
    <3>2. \A u \in Workers : u = w \/ (u # w /\ lc_frames'[u] = lc_frames[u])
      BY <1>9, BaseIs
    <3>3. \A u \in Workers : \A d \in 1..Depth(u)' : lc_frames'[u][d].c = "timer"
      <4> SUFFICES ASSUME NEW u \in Workers, NEW d \in 1..Depth(u)'
                   PROVE  lc_frames'[u][d].c = "timer"
        OBVIOUS
      <4>1. CASE u = w
        BY <1>8, <3>1, <4>1
      <4>2. CASE u # w
        <5>1. lc_frames'[u] = lc_frames[u]
          BY <3>2, <4>2
        <5>2. d \in 1..Depth(u)
          BY <5>1 DEF Depth
        <5> QED BY <2>2, <5>1, <5>2 DEF Early
      <4> QED BY <4>1, <4>2
    <3>4. \A u \in Workers : u \in lc_alive' \/ Depth(u)' # 0 => u \in lc_alive \/ Depth(u) # 0
      BY <1>2, <3>2 DEF Depth
    <3>5. Early'
      BY <1>2, <1>10, <2>2, <3>3, <3>4 DEF Early
    <3> QED BY <3>5 DEF Phase
  <2> QED BY <2>1, <2>2 DEF RunInv, Phase
<1>12. BuildInv'
  <2> SUFFICES ASSUME NEW u \in Lifecycle!Threads, NEW b \in Base, NEW d \in 1..Depth(u)', Creates(u, d, b)'
               PROVE  /\ u = "main" /\ b \notin lc_instance' /\ b \in lc_active' /\ lc_holder'[b] = "main"
                      /\ \A e \in 1..Depth(u)' : Creates(u, e, b)' => e = d
    BY DEF BuildInv
  <2>1. u # w
    BY <1>8 DEF Creates, Before
  <2>2. lc_frames'[u] = lc_frames[u]
    BY <1>9, <2>1
  <2>3. d \in 1..Depth(u) /\ Creates(u, d, b) /\ Depth(u)' = Depth(u)
    BY <2>2 DEF Creates, Depth
  <2>4. \A e \in 1..Depth(u) : Creates(u, e, b)' <=> Creates(u, e, b)
    BY <2>2 DEF Creates, Depth
  <2> QED BY <1>2, <2>3, <2>4 DEF RunInv, BuildInv
<1>13. NeedInv'
  BY <1>2, <1>10 DEF RunInv, NeedInv, StorageUses, Lifecycle!InitUses
<1>14. StackInv'
  BY <1>2, <1>10 DEF RunInv, StackInv, OnStack, Registered
<1>15. OrderInv'
  BY <1>2 DEF RunInv, OrderInv
<1>16. CloseInv'
  BY <1>2, <1>10 DEF RunInv, CloseInv, OnStack
<1> QED BY <1>7, <1>11, <1>12, <1>13, <1>14, <1>15, <1>16 DEF RunInv

(* From the moment on that main() has passed its first steps no call of    *)
(* the threads creates an object of the base.                              *)
LEMMA SettledIs ==
  ASSUME ServerThreadsAssumption, RunInv, lc_pc \notin EarlyPoints
  PROVE  /\ Settled
         /\ \A t \in Lifecycle!Threads, b \in Base : \A d \in 1..Depth(t) : ~Creates(t, d, b)
<1>1. Settled
  BY DEF RunInv, Phase, Early
<1> QED BY <1>1 DEF RunInv, BuildInv, Settled

(* The manager takes the last object off the stack.                        *)
LEMMA PopStep ==
  ASSUME ServerThreadsAssumption, LcTypes, RunInv, Lifecycle!Pop, lc_stack # <<>>
  PROVE  LcTypes' /\ RunInv'
<1> DEFINE s == lc_stack[Len(lc_stack)]
           l == Len(lc_stack)
           uses == Lifecycle!ShutdownUses(s)
           q == [i \in DOMAIN uses |-> Lifecycle!Frame(uses[i])]
<1>1. lc_stack \in Seq(Lifecycle!Classes) /\ l \in Nat \ {0} /\ s \in Lifecycle!Classes
  BY DEF LcTypes
<1>2. /\ lc_closing' = s /\ lc_pc = "pop" /\ lc_pc' = "close"
      /\ lc_frames' = [lc_frames EXCEPT !["main"] = q]
      /\ UNCHANGED <<lc_instance, lc_active, lc_holder, lc_alive>>
  BY DEF Lifecycle!Pop, Lifecycle!Last
<1>3. /\ lc_stack' \in Seq(Lifecycle!Classes) /\ Len(lc_stack') = l - 1
      /\ \A n \in 1..l - 1 : n \in 1..l /\ lc_stack'[n] = lc_stack[n]
  <2>1. lc_stack' = Lifecycle!Front(lc_stack)
    BY DEF Lifecycle!Pop
  <2>2. /\ Lifecycle!Front(lc_stack) \in Seq(Lifecycle!Classes) /\ Len(Lifecycle!Front(lc_stack)) = l - 1
        /\ \A d \in 1..(l - 1) : Lifecycle!Front(lc_stack)[d] = lc_stack[d]
    BY <1>1, FrontIs
  <2>3. \A n \in 1..l - 1 : n \in 1..l
    BY <1>1
  <2> QED BY <2>1, <2>2, <2>3
<1>4. \A n \in 1..l : n = l \/ n \in 1..l - 1
  BY <1>1
<1>5. "main" \in Lifecycle!Threads /\ "main" \notin Workers
  BY BaseIs
<1>6. /\ q \in Seq(Frame)
      /\ \A d \in 1..Len(q) : q[d].at = "check" /\ q[d].c \in Needs /\ s = "storage"
  <2>1. \A c \in Lifecycle!Classes : /\ Lifecycle!Frame(c) \in Frame /\ Lifecycle!Frame(c).c = c
                                     /\ Lifecycle!Frame(c).at = "check"
    BY DEF Frame, Lifecycle!Frame, Points, Before, Counts
  <2>2. uses \in Seq(Needs) /\ (s # "storage" => Len(uses) = 0)
    <3>1. "config" \in Needs /\ (Backup => "timer" \in Needs)
      BY DEF Needs
    <3>2. <<>> \in Seq(Needs) /\ <<"config">> \in Seq(Needs) /\ (Backup => <<"config", "timer">> \in Seq(Needs))
      BY <3>1
    <3>3. CASE s = "storage"
      BY <3>2, <3>3 DEF Lifecycle!ShutdownUses
    <3>4. CASE s # "storage"
      BY <3>2, <3>4 DEF Lifecycle!ShutdownUses
    <3> QED BY <3>3, <3>4
  <2> HIDE DEF uses
  <2>3. DOMAIN uses = 1..Len(uses) /\ Len(uses) \in Nat /\ \A d \in 1..Len(uses) : uses[d] \in Needs
    BY <2>2
  <2>4. \A d \in 1..Len(uses) : /\ Lifecycle!Frame(uses[d]) \in Frame
                                /\ Lifecycle!Frame(uses[d]).c \in Needs /\ Lifecycle!Frame(uses[d]).at = "check"
    BY <2>1, <2>3, BaseIs
  <2>5. q = [i \in 1..Len(uses) |-> Lifecycle!Frame(uses[i])]
    BY <2>3
  <2>6. q \in Seq(Frame) /\ Len(q) = Len(uses)
    BY <2>3, <2>4, <2>5
  <2>7. \A d \in 1..Len(uses) : q[d] = Lifecycle!Frame(uses[d])
    BY <2>5
  <2>8. \A d \in 1..Len(uses) : s = "storage"
    BY <2>2
  <2> QED BY <2>4, <2>6, <2>7, <2>8
<1> HIDE DEF q
<1>7. lc_frames'["main"] = q /\ OnlyCallsOf("main")
  BY <1>2, <1>5, <1>6, OneChanges
<1>8. LcTypes'
  BY <1>2, <1>3, <1>7 DEF LcTypes, OnlyCallsOf
<1>9. Settled /\ \A t \in Lifecycle!Threads, b \in Base : \A d \in 1..Depth(t) : ~Creates(t, d, b)
  BY <1>2, SettledIs DEF EarlyPoints
<1>10. \A d \in 1..Depth("main")' : /\ lc_frames'["main"][d].at = "check"
                                    /\ lc_frames'["main"][d].c \in Needs /\ s = "storage"
  BY <1>6, <1>7 DEF Depth
<1>11. Phase'
  BY <1>2, <1>9 DEF Phase, Settled
<1>12. \A t \in Lifecycle!Threads, b \in Base : \A d \in 1..Depth(t)' : ~Creates(t, d, b)'
  <2> SUFFICES ASSUME NEW t \in Lifecycle!Threads, NEW b \in Base, NEW d \in 1..Depth(t)', Creates(t, d, b)'
               PROVE  FALSE
    OBVIOUS
  <2>1. CASE t = "main"
    BY <1>10, <2>1 DEF Creates, Before
  <2>2. CASE t # "main"
    <3>1. lc_frames'[t] = lc_frames[t]
      BY <1>7, <2>2 DEF OnlyCallsOf
    <3> QED BY <1>9, <3>1 DEF Creates, Depth
  <2> QED BY <2>1, <2>2
<1>13. BuildInv'
  BY <1>12 DEF BuildInv
<1>14. NeedInv'
  BY <1>10 DEF NeedInv
<1>15. \A b \in Base : \A d \in 1..Depth("main")' : ~Registered(d, b)'
  BY <1>10 DEF Registered
<1>16. lc_closing = Lifecycle!None
  BY <1>2 DEF RunInv, CloseInv
<1>17. StackInv'
  <2>1. ASSUME NEW b \in Base, OnStack(b)'
        PROVE  b # s /\ b \in lc_active /\ b \in lc_instance
    <3>1. PICK n \in 1..l - 1 : lc_stack[n] = b
      BY <1>3, <2>1 DEF OnStack
    <3>2. b \in lc_active
      BY <1>3, <3>1 DEF RunInv, StackInv, OnStack
    <3>3. n # l /\ n \in 1..l /\ l \in 1..l
      BY <1>1, <3>1
    <3>4. b # s
      BY <3>1, <3>3 DEF RunInv, OrderInv
    <3> QED BY <1>9, <3>2, <3>4 DEF Settled
  <2>2. ASSUME NEW b \in Base, b \in lc_instance PROVE b \in lc_active /\ (OnStack(b)' \/ b = s)
    <3>1. b \in lc_active /\ OnStack(b)
      BY <1>16, <2>2, BaseIs DEF RunInv, StackInv
    <3>2. PICK n \in 1..l : lc_stack[n] = b
      BY <3>1 DEF OnStack
    <3>3. n = l \/ (n \in 1..Len(lc_stack') /\ lc_stack'[n] = b)
      BY <1>3, <1>4, <3>2
    <3> QED BY <3>1, <3>2, <3>3 DEF OnStack
  <2> QED BY <1>2, <1>15, <2>1, <2>2 DEF StackInv
<1>18. ASSUME NEW n \in 1..l, lc_stack[n] = "storage", NEW b \in Needs
       PROVE  \E m \in 1..l - 1 : m < n /\ lc_stack'[m] = b
  <2>1. PICK m \in 1..l : m < n /\ lc_stack[m] = b
    BY <1>18 DEF RunInv, OrderInv
  <2>2. m \in 1..l - 1
    BY <1>1, <2>1
  <2> QED BY <1>3, <2>1, <2>2
<1>19. OrderInv'
  BY <1>3, <1>18 DEF RunInv, OrderInv
<1>20. CloseInv'
  <2>1. s # Lifecycle!None
    BY <1>1 DEF Lifecycle!Classes, Lifecycle!None
  <2>2. s = "storage" => \A b \in Needs : OnStack(b)'
    <3>1. l \in 1..l
      BY <1>1
    <3> QED BY <1>3, <1>18, <3>1 DEF OnStack
  <2> QED BY <1>2, <1>10, <2>1, <2>2 DEF CloseInv
<1> QED BY <1>8, <1>11, <1>13, <1>14, <1>17, <1>19, <1>20 DEF RunInv

(* The object is closed: its class has no instance and is inactive.        *)
LEMMA JoinStep ==
  ASSUME ServerThreadsAssumption, LcTypes, RunInv, Lifecycle!Join
  PROVE  LcTypes' /\ RunInv'
<1> USE DEF Lifecycle!locks, Lifecycle!sigs
<1>1. /\ lc_pc = "join" /\ lc_pc' = "pop" /\ lc_closing' = Lifecycle!None
      /\ lc_active' = lc_active \ {lc_closing} /\ lc_instance' = lc_instance \ {lc_closing}
      /\ UNCHANGED <<lc_holder, lc_stack, lc_frames, lc_alive>>
  BY DEF Lifecycle!Join
<1>2. lc_closing # Lifecycle!None
  BY <1>1 DEF RunInv, CloseInv
<1>3. LcTypes'
  BY <1>1 DEF LcTypes
<1>4. Settled /\ \A t \in Lifecycle!Threads, b \in Base : \A d \in 1..Depth(t) : ~Creates(t, d, b)
  BY <1>1, SettledIs DEF EarlyPoints
<1>5. Phase'
  BY <1>1, <1>4 DEF Phase, Settled
<1>6. BuildInv'
  BY <1>1, <1>4 DEF BuildInv, Creates, Depth
<1>7. \A d \in 1..Depth("main") : lc_frames["main"][d].at = "check"
  BY <1>2 DEF RunInv, CloseInv
<1>8. NeedInv'
  BY <1>1, <1>7 DEF NeedInv, Depth
<1>9. \A b \in Base : \A d \in 1..Depth("main") : ~Registered(d, b)
  BY <1>7 DEF Registered
<1>10. StackInv'
  <2>1. ASSUME NEW b \in Base, OnStack(b)
        PROVE  b # Lifecycle!None /\ b \in lc_active' /\ b \in lc_instance'
    <3>1. b # lc_closing /\ b \in lc_active
      BY <2>1 DEF RunInv, StackInv
    <3> QED BY <1>1, <1>4, <3>1, BaseIs DEF Settled
  <2>2. \A b \in Base : OnStack(b)' <=> OnStack(b)
    BY <1>1 DEF OnStack
  <2>3. \A b \in Base : \A d \in 1..Depth("main")' : ~Registered(d, b)'
    BY <1>1, <1>7 DEF Registered, Depth
  <2>4. ASSUME NEW b \in Base, b \in lc_instance'
        PROVE  b \in lc_active' /\ OnStack(b)
    BY <1>1, <2>4 DEF RunInv, StackInv
  <2> QED BY <1>1, <2>1, <2>2, <2>3, <2>4 DEF StackInv
<1>11. OrderInv'
  BY <1>1 DEF RunInv, OrderInv
<1>12. CloseInv'
  BY <1>1 DEF CloseInv, Lifecycle!None
<1> QED BY <1>3, <1>5, <1>6, <1>8, <1>10, <1>11, <1>12 DEF RunInv

LEMMA LcInit ==
  ASSUME ServerThreadsAssumption, Lifecycle!Init
  PROVE  LcInv
<1> USE DEF Lifecycle!Init
<1>1. \A t \in Lifecycle!Threads : lc_frames[t] = <<>> /\ Depth(t) = 0 /\ 1..Depth(t) = {}
  <2>1. \A t \in Lifecycle!Threads : lc_frames[t] = <<>>
    OBVIOUS
  <2>2. Len(<<>>) = 0 /\ 1..0 = {}
    OBVIOUS
  <2> QED BY <2>1, <2>2 DEF Depth
<1>2. "main" \in Lifecycle!Threads /\ \A w \in Workers : w \in Lifecycle!Threads
  BY BaseIs
<1>3. LcTypes
  <2>1. <<>> \in Seq(Frame) /\ <<>> \in Seq(Lifecycle!Classes)
    OBVIOUS
  <2> QED BY <2>1 DEF LcTypes
<1>4. Phase
  BY <1>1, <1>2 DEF Phase, Early, EarlyPoints
<1>5. BuildInv /\ NeedInv
  BY <1>1, <1>2 DEF BuildInv, NeedInv
<1>6. Len(lc_stack) = 0 /\ 1..Len(lc_stack) = {}
  OBVIOUS
<1>7. StackInv /\ OrderInv
  BY <1>1, <1>2, <1>6 DEF StackInv, OnStack, OrderInv
<1>8. CloseInv
  BY <1>1, <1>2 DEF CloseInv, Lifecycle!None
<1> QED BY <1>3, <1>4, <1>5, <1>7, <1>8 DEF LcInv, RunInv

(* An action of main() that ends the program or one of the three kinds.    *)
MainQuiet ==
  /\ Quiet /\ lc_alive' \subseteq Workers /\ (lc_pc \in Closing <=> lc_pc' \in Closing)
  /\ Settled \/ (lc_pc' \in EarlyPoints /\ lc_alive' \subseteq lc_alive)
MainEnds ==
  /\ lc_exit' # Lifecycle!None
  /\ UNCHANGED <<lc_instance, lc_active, lc_holder, lc_stack, lc_frames, lc_alive, lc_refused>>
MainAsks ==
  /\ \E c \in Lifecycle!Classes :
       /\ lc_frames' = [lc_frames EXCEPT !["main"] = <<Lifecycle!Frame(c)>>]
       /\ Settled \/ (c \in Base \union {"server"} /\ lc_pc' \in EarlyPoints)
  /\ UNCHANGED <<lc_instance, lc_active, lc_holder, lc_stack, lc_closing, lc_alive, lc_refused>>
  /\ Lifecycle!Idle("main") \/ Settled
  /\ lc_pc \notin Closing /\ lc_pc' \notin Closing

LEMMA AskCases ==
  ASSUME ServerThreadsAssumption, RunInv, NEW c \in Lifecycle!Classes, NEW next,
         Lifecycle!Ask(c, next), next \notin Closing,
         c \in {"config", "server", "storage"} => next \in EarlyPoints
  PROVE  MainAsks
<1> USE DEF Lifecycle!Same, Lifecycle!locks, Lifecycle!sigs
<1>1. /\ lc_frames' = [lc_frames EXCEPT !["main"] = <<Lifecycle!Frame(c)>>]
      /\ UNCHANGED <<lc_instance, lc_active, lc_holder, lc_stack, lc_closing, lc_alive, lc_refused>>
      /\ Lifecycle!Idle("main") /\ lc_pc = c /\ lc_pc' = next
  BY DEF Lifecycle!Ask
<1>2. c \notin Closing
  BY DEF Closing, Lifecycle!Classes
<1>3. c \notin {"config", "server", "storage"} => Settled
  BY <1>1, SettledIs DEF EarlyPoints, Lifecycle!Classes
<1>4. c \in {"config", "server", "storage"} => c \in Base \union {"server"}
  BY DEF Base, Needs
<1> QED BY <1>1, <1>2, <1>3, <1>4 DEF MainAsks

(* main() goes on with an instance, or ends.                               *)
LEMMA HaveCases ==
  ASSUME ServerThreadsAssumption, LcTypes, RunInv, NEW c \in Lifecycle!Classes,
         NEW where, NEW next, Lifecycle!Have(c, where, next),
         where \notin Closing, next \notin Closing,
         next \in EarlyPoints \/ where \notin EarlyPoints \/ c = "storage"
  PROVE  MainQuiet \/ MainEnds
<1> USE DEF Lifecycle!Same, Lifecycle!locks, Lifecycle!sigs
<1>1. /\ UNCHANGED <<lc_instance, lc_active, lc_holder, lc_stack, lc_frames, lc_closing, lc_alive, lc_refused>>
      /\ Lifecycle!Idle("main") /\ lc_pc = where
  BY DEF Lifecycle!Have
<1>2. lc_alive \subseteq Workers
  BY DEF LcTypes
<1>3. CASE c \notin lc_instance
  <2>1. lc_exit' = "failed"
    BY <1>3 DEF Lifecycle!Have, Lifecycle!End
  <2> QED BY <1>1, <2>1 DEF MainEnds, Lifecycle!None
<1>4. CASE c \in lc_instance
  <2>1. lc_pc' = next
    BY <1>4 DEF Lifecycle!Have
  <2>2. Settled \/ lc_pc' \in EarlyPoints
    <3>1. CASE where \notin EarlyPoints
      BY <1>1, <3>1, SettledIs
    <3>2. CASE c = "storage"
      <4>1. lc_closing = Lifecycle!None
        BY <1>1 DEF RunInv, CloseInv, Closing
      <4>2. OnStack("storage") /\ "storage" \in lc_active
        BY <1>4, <3>2, <4>1, BaseIs DEF RunInv, StackInv, Lifecycle!None
      <4>3. \A b \in Needs : OnStack(b)
        BY <4>2 DEF RunInv, OrderInv, OnStack
      <4>4. 1..Depth("main") = {}
        BY <1>1 DEF Lifecycle!Idle, Depth
      <4>5. \A b \in Needs : b \in lc_instance
        BY <4>3, <4>4, BaseIs DEF RunInv, StackInv
      <4>6. Settled
        BY <1>4, <3>2, <4>5 DEF Settled, Base
      <4> QED BY <4>6
    <3>3. CASE next \in EarlyPoints
      BY <2>1, <3>3
    <3> QED BY <3>1, <3>2, <3>3
  <2>3. Quiet /\ lc_alive' = lc_alive
    BY <1>1 DEF Quiet
  <2> QED BY <1>1, <1>2, <2>1, <2>2, <2>3 DEF MainQuiet
<1> QED BY <1>3, <1>4

LEMMA StartUpCases ==
  ASSUME ServerThreadsAssumption, LcTypes, RunInv, Lifecycle!StartUp
  PROVE  MainQuiet \/ MainEnds \/ MainAsks
<1> USE DEF Lifecycle!Same, Lifecycle!locks, Lifecycle!sigs
<1>1. ASSUME NEW c \in {"config", "server", "storage", "update", "content"} PROVE c \in Lifecycle!Classes
  BY DEF Lifecycle!Classes
<1>2. CASE Lifecycle!UpnpInit
  <2>1. /\ UNCHANGED <<lc_instance, lc_active, lc_holder, lc_stack, lc_frames, lc_closing, lc_refused>>
        /\ lc_pc = "upnp_init" /\ lc_pc' \in {"register", "shutdown"}
        /\ lc_alive' = lc_alive \/ lc_alive' = lc_alive \union Lifecycle!WorkersOf("server")
    BY <1>2 DEF Lifecycle!UpnpInit
  <2>2. lc_alive' \subseteq Workers
    BY <2>1 DEF LcTypes, Lifecycle!WorkersOf
  <2>3. Settled
    BY <2>1, SettledIs DEF EarlyPoints
  <2> QED BY <2>1, <2>2, <2>3 DEF MainQuiet, Quiet, Closing
<1>3. CASE Lifecycle!RegisterDevice
  <2>1. /\ UNCHANGED <<lc_instance, lc_active, lc_holder, lc_stack, lc_frames, lc_closing, lc_refused, lc_alive>>
        /\ lc_pc = "register" /\ lc_pc' \in {"update", "shutdown"}
    BY <1>3 DEF Lifecycle!RegisterDevice
  <2>2. Settled
    BY <2>1, SettledIs DEF EarlyPoints
  <2> QED BY <2>1, <2>2 DEF MainQuiet, Quiet, Closing, LcTypes
<1>4. CASE Lifecycle!Ask("config", "config?") \/ Lifecycle!Ask("server", "server?")
           \/ Lifecycle!Ask("storage", "storage?")
  BY <1>1, <1>4, AskCases DEF Closing, EarlyPoints
<1>5. CASE Lifecycle!Ask("update", "update?") \/ Lifecycle!Ask("content", "content?")
  BY <1>1, <1>5, AskCases DEF Closing, EarlyPoints
<1>6. CASE Lifecycle!Have("config", "config?", "server") \/ Lifecycle!Have("server", "server?", "storage")
           \/ Lifecycle!Have("storage", "storage?", "upnp_init")
  BY <1>1, <1>6, HaveCases DEF Closing, EarlyPoints
<1>7. CASE Lifecycle!Have("update", "update?", "content") \/ Lifecycle!Have("content", "content?", "unmask")
  BY <1>1, <1>7, HaveCases DEF Closing, EarlyPoints
<1> QED BY <1>2, <1>3, <1>4, <1>5, <1>6, <1>7 DEF Lifecycle!StartUp

LEMMA MainCases ==
  ASSUME ServerThreadsAssumption, LcTypes, RunInv, Lifecycle!Main, ~Lifecycle!Join,
         ~(Lifecycle!Pop /\ lc_stack # <<>>)
  PROVE  MainQuiet \/ MainEnds \/ MainAsks
<1> USE DEF Lifecycle!Same, Lifecycle!locks, Lifecycle!sigs
<1>0. lc_alive \subseteq Workers
  BY DEF LcTypes
<1>1. CASE Lifecycle!Unmask \/ Lifecycle!Test \/ Lifecycle!Sleep \/ Lifecycle!Woken
  <2>1. /\ UNCHANGED <<lc_instance, lc_active, lc_holder, lc_stack, lc_frames, lc_closing, lc_refused, lc_alive>>
        /\ lc_pc \in {"unmask", "test", "wait", "woken"}
        /\ lc_pc' \in {"test", "shutdown", "wait", "asleep"}
    BY <1>1 DEF Lifecycle!Unmask, Lifecycle!Test, Lifecycle!Sleep, Lifecycle!Woken
  <2>2. Settled
    BY <2>1, SettledIs DEF EarlyPoints
  <2> QED BY <1>0, <2>1, <2>2 DEF MainQuiet, Quiet, Closing
<1>2. CASE Lifecycle!Shutdown
  <2>1. /\ UNCHANGED <<lc_instance, lc_active, lc_holder, lc_stack, lc_frames, lc_closing, lc_refused, lc_alive>>
        /\ lc_pc = "shutdown" /\ lc_pc' = "pop"
    BY <1>2 DEF Lifecycle!Shutdown
  <2>2. Settled
    BY <2>1, SettledIs DEF EarlyPoints
  <2> QED BY <1>0, <2>1, <2>2 DEF MainQuiet, Quiet, Closing
<1>3. CASE Lifecycle!Pop
  <2>1. /\ UNCHANGED <<lc_instance, lc_active, lc_holder, lc_stack, lc_frames, lc_closing, lc_refused, lc_alive>>
        /\ lc_pc = "pop" /\ (lc_pc' = "restart" \/ lc_exit' = "ended")
    BY <1>3 DEF Lifecycle!Pop, Lifecycle!End
  <2>2. Settled
    BY <2>1, SettledIs DEF EarlyPoints
  <2> QED BY <1>0, <2>1, <2>2 DEF MainQuiet, MainEnds, Quiet, Closing, Lifecycle!None
<1>4. CASE Lifecycle!Close
  <2>1. /\ UNCHANGED <<lc_instance, lc_active, lc_holder, lc_stack, lc_frames, lc_refused, lc_alive>>
        /\ lc_pc = "close" /\ ((lc_pc' = "join" /\ lc_closing' = lc_closing) \/ lc_exit' = "failed")
    BY <1>4 DEF Lifecycle!Close, Lifecycle!End
  <2>2. Settled
    BY <2>1, SettledIs DEF EarlyPoints
  <2> QED BY <1>0, <2>1, <2>2 DEF MainQuiet, MainEnds, Quiet, Closing, Lifecycle!None
<1>5. CASE Lifecycle!Restart
  <2>1. /\ UNCHANGED <<lc_instance, lc_active, lc_holder, lc_stack, lc_closing, lc_refused, lc_alive>>
        /\ lc_pc = "restart" /\ lc_pc' = "config?"
        /\ lc_frames' = [lc_frames EXCEPT !["main"] = <<Lifecycle!Frame("config")>>]
    BY <1>5 DEF Lifecycle!Restart
  <2>2. Settled
    BY <2>1, SettledIs DEF EarlyPoints
  <2>3. "config" \in Lifecycle!Classes
    BY DEF Lifecycle!Classes
  <2> QED BY <2>1, <2>2, <2>3 DEF MainAsks, Closing
<1> QED BY <1>1, <1>2, <1>3, <1>4, <1>5, StartUpCases DEF Lifecycle!Main

LEMMA MainKeeps ==
  ASSUME ServerThreadsAssumption, LcInv, RunInv, Lifecycle!Main
  PROVE  LcInv'
<1>1. LcTypes /\ ~lc_refused
  BY DEF LcInv
<1>2. CASE Lifecycle!Join
  <2>1. LcTypes' /\ RunInv'
    BY <1>1, <1>2, JoinStep
  <2> QED BY <1>1, <1>2, <2>1 DEF LcInv, Lifecycle!Join
<1>3. CASE Lifecycle!Pop /\ lc_stack # <<>>
  <2>1. LcTypes' /\ RunInv'
    BY <1>1, <1>3, PopStep
  <2> QED BY <1>1, <1>3, <2>1 DEF LcInv, Lifecycle!Pop
<1>4. CASE ~Lifecycle!Join /\ ~(Lifecycle!Pop /\ lc_stack # <<>>)
  <2>1. MainQuiet \/ MainEnds \/ MainAsks
    BY <1>1, <1>4, MainCases
  <2>2. CASE MainQuiet
    <3>1. LcTypes' /\ RunInv'
      BY <1>1, <2>2, QuietStep DEF MainQuiet
    <3> QED BY <1>1, <2>2, <3>1 DEF LcInv, MainQuiet, Quiet
  <2>3. CASE MainEnds
    BY <1>1, <2>3 DEF LcInv, MainEnds, LcTypes
  <2>4. CASE MainAsks
    <3>1. LcTypes' /\ RunInv'
      BY <1>1, <2>4, AskStep DEF MainAsks
    <3> QED BY <1>1, <2>4, <3>1 DEF LcInv, MainAsks
  <2> QED BY <2>1, <2>2, <2>3, <2>4
<1> QED BY <1>2, <1>3, <1>4

LEMMA SignalStep ==
  ASSUME ServerThreadsAssumption, LcInv, RunInv, NEW s, Lifecycle!SendSignal(s)
  PROVE  LcInv'
<1> USE DEF Lifecycle!Same, Lifecycle!locks
<1>1. LcTypes /\ ~lc_refused
  BY DEF LcInv
<1>2. /\ Quiet /\ lc_alive' = lc_alive
      /\ lc_exit' = "killed" \/ lc_pc' = lc_pc \/ (lc_pc = "asleep" /\ lc_pc' = "woken")
  BY DEF Lifecycle!SendSignal, Lifecycle!End, Quiet
<1>3. CASE lc_exit' = "killed"
  BY <1>1, <1>2, <1>3 DEF LcInv, LcTypes, Quiet, Lifecycle!None
<1>4. CASE lc_exit' # "killed"
  <2>1. Settled \/ (lc_pc' \in EarlyPoints /\ lc_alive' \subseteq lc_alive)
    BY <1>2, <1>4, SettledIs DEF EarlyPoints
  <2>2. lc_pc \in Closing <=> lc_pc' \in Closing
    BY <1>2, <1>4 DEF Closing
  <2>3. LcTypes' /\ RunInv'
    BY <1>1, <1>2, <2>1, <2>2, QuietStep DEF LcTypes
  <2> QED BY <1>1, <1>2, <2>3 DEF LcInv, Quiet
<1> QED BY <1>3, <1>4

LEMMA LeaveStep ==
  ASSUME ServerThreadsAssumption, LcInv, RunInv, NEW w \in Workers, Lifecycle!Leave(w)
  PROVE  LcInv'
<1> USE DEF Lifecycle!locks, Lifecycle!mains, Lifecycle!sigs
<1>1. Quiet /\ lc_alive' = lc_alive \ {w} /\ lc_pc' = lc_pc /\ lc_exit' = lc_exit
  BY DEF Lifecycle!Leave, Quiet
<1>2. Settled \/ (lc_pc' \in EarlyPoints /\ lc_alive' \subseteq lc_alive)
  BY <1>1 DEF RunInv, Phase, Early
<1>3. LcTypes' /\ RunInv'
  BY <1>1, <1>2, QuietStep DEF LcInv, LcTypes
<1> QED BY <1>1, <1>3 DEF LcInv, Quiet

LEMMA LcStepInv ==
  ASSUME ServerThreadsAssumption, LcInv, [Lifecycle!Next]_(Lifecycle!vars)
  PROVE  LcInv'
<1> USE DEF Lifecycle!locks, Lifecycle!mains, Lifecycle!sigs
<1>1. LcTypes /\ ~lc_refused
  BY DEF LcInv
<1>2. CASE UNCHANGED Lifecycle!vars
  <2>1. Quiet /\ UNCHANGED <<lc_alive, lc_pc, lc_exit>>
    BY <1>2 DEF Lifecycle!vars, Quiet
  <2>2. CASE lc_exit = Lifecycle!None
    <3>1. RunInv /\ (Settled \/ lc_pc' \in EarlyPoints)
      BY <2>1, <2>2, SettledIs DEF LcInv
    <3>2. LcTypes' /\ RunInv'
      BY <1>1, <2>1, <3>1, QuietStep DEF LcTypes
    <3> QED BY <1>1, <2>1, <3>2 DEF LcInv, Quiet
  <2>3. CASE lc_exit # Lifecycle!None
    BY <1>1, <2>1, <2>3 DEF LcInv, LcTypes, Quiet
  <2> QED BY <2>2, <2>3
<1>3. CASE Lifecycle!Main
  <2>1. lc_exit = Lifecycle!None
    BY <1>3 DEF Lifecycle!Main, Lifecycle!StartUp, Lifecycle!Ask, Lifecycle!Have,
       Lifecycle!UpnpInit,
         Lifecycle!RegisterDevice, Lifecycle!Unmask, Lifecycle!Test, Lifecycle!Sleep, Lifecycle!Woken,
         Lifecycle!Shutdown, Lifecycle!Pop, Lifecycle!Close, Lifecycle!Join, Lifecycle!Restart, Lifecycle!Running
  <2> QED BY <1>3, <2>1, MainKeeps DEF LcInv
<1>4. CASE \E t \in Lifecycle!Threads : Lifecycle!GetInstance(t)
  BY <1>4, GetInstanceStep
<1>5. CASE \E w \in Workers : Lifecycle!Leave(w)
  <2>1. lc_exit = Lifecycle!None
    BY <1>5 DEF Lifecycle!Leave, Lifecycle!Running
  <2> QED BY <1>5, <2>1, LeaveStep DEF LcInv
<1>6. CASE \E w \in Workers : Lifecycle!Work(w)
  <2>1. PICK w \in Workers : Lifecycle!Work(w)
    BY <1>6
  <2>2. lc_exit = Lifecycle!None /\ lc_exit' = lc_exit /\ lc_refused' = lc_refused
    BY <2>1 DEF Lifecycle!Work, Lifecycle!Running
  <2>3. LcTypes' /\ RunInv'
    BY <2>1, <2>2, WorkStep DEF LcInv
  <2> QED BY <1>1, <2>2, <2>3 DEF LcInv
<1>7. CASE \E s \in {"TERM", "HUP"} : Lifecycle!SendSignal(s)
  <2>1. lc_exit = Lifecycle!None
    BY <1>7 DEF Lifecycle!SendSignal, Lifecycle!Running
  <2> QED BY <1>7, <2>1, SignalStep DEF LcInv
<1>8. "main" \in Lifecycle!Threads /\ Workers \subseteq Lifecycle!Threads
  BY BaseIs
<1> QED BY <1>2, <1>3, <1>4, <1>5, <1>6, <1>7, <1>8 DEF Lifecycle!Next,
           Lifecycle!MainStep, Lifecycle!Step

(* No shutdown() of an object meets a class that was made inactive before, *)
(* whichever thread asked first for each of the instances: Storage, whose  *)
(* shutdown() uses the configuration and the Timer, is above them on the   *)
(* stack of the SingletonManager, since it registers at the end of its     *)
(* getInstance(), when its init() has had both.                            *)
THEOREM ShutdownIsSafe == Lifecycle!Spec => []ShutdownFindsItsNeeds
<1> SUFFICES ASSUME ServerThreadsAssumption PROVE Lifecycle!Spec => []ShutdownFindsItsNeeds
  BY ServerThreadsAssumption
<1>1. Lifecycle!Init => LcInv
  BY LcInit
<1>2. LcInv /\ [Lifecycle!Next]_(Lifecycle!vars) => LcInv'
  BY LcStepInv
<1>3. LcInv => ShutdownFindsItsNeeds
  BY DEF LcInv, ShutdownFindsItsNeeds, Lifecycle!ShutdownFindsItsNeeds
<1> QED BY <1>1, <1>2, <1>3, PTL DEF Lifecycle!Spec

(***************************************************************************)
(* The timer, whose thread calls back the sessions' manager among others   *)
(***************************************************************************)
TmInv == Timer!TypeOK /\ Timer!OneShotOnce

LEMMA TmInit == ASSUME Timer!TimerAssumption, Timer!Init PROVE TmInv
<1> USE DEF Timer!TimerAssumption
<1>1. \A s \in Subs : Interval[s] \in Nat
  OBVIOUS
<1>2. tm_left \in [Subs -> Nat]
  BY <1>1 DEF Timer!Init
<1>3. tm_subscribers \intersect Once = {} /\ tm_subscribers \subseteq Subs
  BY DEF Timer!Init
<1>4. Timer!TypeOK
  <2>1. tm_removals \in 0..MaxRemovals
    BY DEF Timer!Init
  <2>. QED
    BY <1>2, <1>3, <2>1 DEF Timer!Init, Timer!TypeOK
<1>5. Timer!OneShotOnce
  BY <1>3 DEF Timer!OneShotOnce
<1>. QED
  BY <1>4, <1>5 DEF TmInv

LEMMA TmStep ==
  ASSUME Timer!TimerAssumption, TmInv, [Timer!Next]_(Timer!vars)
  PROVE  TmInv'
<1> USE DEF Timer!TimerAssumption, TmInv, Timer!TypeOK, Timer!OneShotOnce
<1>0. \A s \in Subs : Interval[s] \in Nat
  OBVIOUS
<1>1. ASSUME NEW s \in Subs, Timer!addTimerSubscriber(s) PROVE TmInv'
  BY <1>0, <1>1 DEF Timer!addTimerSubscriber, Timer!Signalled
<1>2. ASSUME NEW s \in Subs, Timer!removeTimerSubscriber(s) PROVE TmInv'
  BY <1>2 DEF Timer!removeTimerSubscriber, Timer!Signalled
<1>3. CASE Timer!shutdown
  BY <1>3 DEF Timer!shutdown, Timer!Signalled, Timer!list
<1>4. CASE \/ Timer!Stop \/ Timer!CheckEmpty \/ Timer!Wait
           \/ Timer!Doze \/ Timer!TimedOut \/ Timer!CallsOver
  BY <1>4 DEF Timer!Stop, Timer!CheckEmpty, Timer!Wait, Timer!Doze,
       Timer!TimedOut, Timer!CallsOver, Timer!Goes, Timer!Quietly, Timer!list
<1>5. CASE Timer!getNextNotifyTime
  BY <1>5 DEF Timer!getNextNotifyTime, Timer!Goes, Timer!Quietly, Timer!list
<1>6. CASE Timer!ReadTime
  <2>1. Timer!Delays \subseteq Nat
    BY <1>0 DEF Timer!Delays
  <2>2. tm_sleep' \in Nat
    BY <1>6, <2>1 DEF Timer!ReadTime, Timer!Null, Timer!Freed
  <2>. QED
    BY <1>6, <2>2 DEF Timer!ReadTime, Timer!Quietly, Timer!list
<1>7. CASE Timer!CollectDue
  <2>1. tm_left' \in [Subs -> Nat] /\ tm_toNotify' \subseteq Subs
    BY <1>0, <1>7 DEF Timer!CollectDue, Timer!Collect, Timer!Due
  <2>2. /\ tm_subscribers' = tm_subscribers \ (Timer!Due \intersect Once)
        /\ tm_fresh' = tm_fresh \ Timer!Due
    BY <1>7 DEF Timer!CollectDue, Timer!Collect
  <2>. QED
    BY <1>7, <2>1, <2>2 DEF Timer!CollectDue, Timer!Goes
<1>8. ASSUME NEW s \in Subs, Timer!CallBack(s) PROVE TmInv'
  BY <1>8 DEF Timer!CallBack, Timer!list
<1>9. CASE Timer!SpuriousWakeup
  BY <1>9 DEF Timer!SpuriousWakeup, Timer!Signalled, Timer!Quietly, Timer!list
<1>10. CASE Timer!Tick
  BY <1>10 DEF Timer!Tick
<1>11. CASE UNCHANGED Timer!vars
  BY <1>11 DEF Timer!vars, Timer!list
<1>. QED
  BY <1>1, <1>2, <1>3, <1>4, <1>5, <1>6, <1>7, <1>8, <1>9, <1>10, <1>11
     DEF Timer!Next, Timer!ThreadStep, Timer!Over

(* A one-shot subscription still in the list has not been due since it was *)
(* made: notify() never calls it back twice, whoever subscribes meanwhile. *)
THEOREM OneShotTheorem == Timer!Spec => []OneShotOnce
<1> SUFFICES ASSUME Timer!TimerAssumption PROVE Timer!Spec => []OneShotOnce
  BY ServerThreadsAssumption DEF ServerThreadsAssumption
<1>1. TmInv => OneShotOnce
  BY DEF TmInv, OneShotOnce
<1>2. Timer!Init => TmInv
  BY TmInit
<1>3. TmInv /\ [Timer!Next]_(Timer!vars) => TmInv'
  BY TmStep
<1>. QED
  BY <1>1, <1>2, <1>3, PTL DEF Timer!Spec

(* The types of the timer's variables; permanent subscriptions stay.       *)
THEOREM TimerTypeCorrect == Timer!Spec => []Timer!TypeOK
<1> SUFFICES ASSUME Timer!TimerAssumption PROVE Timer!Spec => []Timer!TypeOK
  BY ServerThreadsAssumption DEF ServerThreadsAssumption
<1>1. TmInv => Timer!TypeOK
  BY DEF TmInv
<1>2. Timer!Init => TmInv
  BY TmInit
<1>3. TmInv /\ [Timer!Next]_(Timer!vars) => TmInv'
  BY TmStep
<1>. QED
  BY <1>1, <1>2, <1>3, PTL DEF Timer!Spec
=============================================================================
