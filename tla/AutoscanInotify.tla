-------------------------- MODULE AutoscanInotify --------------------------
(***************************************************************************)
(* The inotify thread: autoscan_inotify.cc, over mt_inotify.cc.            *)
(*                                                                         *)
(* The file system changes on its own and the kernel queues an event for   *)
(* each change in a watched directory; a watch follows the directory, not  *)
(* its path.  The thread keeps a table of its watches, by watch descriptor,*)
(* and handles one event after the other against the file system of that   *)
(* moment.  A handler is one step; what it does to the table, the kernel   *)
(* and the imported files is computed on a record of the three.            *)
(*                                                                         *)
(* A directory or file has one name, which is its identity as long as it   *)
(* exists; a path is the sequence of names below the root.  The content    *)
(* manager (ContentManager.tla) is reduced to the set of imported paths.   *)
(***************************************************************************)
EXTENDS Integers, Sequences, FiniteSets, SequencesExt, Functions

CONSTANTS
    Dirs,       \* the directories, without the root
    Files,      \* the files
    Tree,       \* where each of them is at the beginning, or Gone
    Autoscans,  \* the autoscan directories: [at, recursive, persistent]
    Root,       \* the root directory
    Fixed,      \* the directories that stay where they are
    Changes,    \* the kinds of changes to the file system that happen
    Calm,       \* no change happens while a directory waits to be unmonitored
    MaxChanges, \* bound on their number
    MaxRequests \* bound on the requests of the user

Gone == "gone"
Kinds == {"mkdir", "rmdir", "movein", "moveout", "movedir", "create", "delete"}
\* What the constants are, ASSUMEd where they have values.
InotifyAssumption ==
    /\ Changes \subseteq Kinds /\ Fixed \subseteq Dirs
    /\ Tree \in [Dirs \cup Files -> Dirs \cup {Root, Gone}]
    /\ \A a \in Autoscans : a.recursive \in BOOLEAN /\ a.persistent \in BOOLEAN

VARIABLES
    up,       \* the parent of each directory and file
    k,        \* the kernel's watch on each directory, 0 if none
    next,     \* the next watch descriptor
    events,   \* the events the kernel has queued
    watches,  \* the table of the thread, by watch descriptor
    db,       \* the paths of the imported files
    monitorQueue, unmonitorQueue,
    registered, \* the autoscan directories of the content manager
    phase,    \* where the thread is in its loop
    died,     \* an exception ended the process
    changes, requests

vars == <<up, k, next, events, watches, db, monitorQueue, unmonitorQueue,
          registered, phase, died, changes, requests>>

(***************************************************************************)
(* Paths.                                                                  *)
(***************************************************************************)
RECURSIVE PathIn(_, _)
PathIn(u, x) == IF x = Root THEN << >> ELSE Append(PathIn(u, u[x]), x)
RECURSIVE ExistsIn(_, _)
ExistsIn(u, x) == x = Root \/ (u[x] # Gone /\ ExistsIn(u, u[x]))

Path(x) == PathIn(up, x)
\* The directory at a path, if there is one.
DirsAt(p) == {d \in Dirs \cup {Root} : ExistsIn(up, d) /\ Path(d) = p}
ExistsDir(p) == DirsAt(p) # {}
DirAt(p) == CHOOSE d \in DirsAt(p) : TRUE
FilesBelow(p) == {Path(f) : f \in {g \in Files : ExistsIn(up, g) /\ IsPrefix(p, Path(g))}}
SubDirs(p) == {d \in Dirs : ExistsIn(up, d) /\ Path(d) = Append(p, d)}

(***************************************************************************)
(* The kernel, seen from mt_inotify.cc.                                    *)
(***************************************************************************)
\* What a handler changes: the table, the kernel's watches, the next descriptor,
\* the queue, the imported paths, and whether it threw out of the thread.
State == [w |-> watches, k |-> k, n |-> next, q |-> events, db |-> db,
          died |-> died]

Event(wd, mask, dir, name) == [wd |-> wd, mask |-> mask, dir |-> dir, name |-> name]

\* addWatch(): the descriptor of a directory that is watched already stays.
WdOf(S, p) == IF ExistsDir(p) THEN S.k[DirAt(p)] ELSE -1
AddWatch(S, p) ==
    IF WdOf(S, p) = 0
    THEN [S EXCEPT !.k[DirAt(p)] = S.n, !.n = S.n + 1]
    ELSE S

\* removeWatch(): the kernel answers with IN_IGNORED.
RemoveWatch(S, wd) ==
    IF \E d \in DOMAIN S.k : S.k[d] = wd
    THEN [S EXCEPT !.k = [d \in DOMAIN S.k |-> IF S.k[d] = wd THEN 0 ELSE S.k[d]],
                   !.q = Append(S.q, Event(wd, "IGNORED", FALSE, Gone))]
    ELSE S

(***************************************************************************)
(* The table of watches.                                                   *)
(***************************************************************************)
None == << "none" >>
WatchAutoscan(a, start, non) ==
    [type |-> "autoscan", adir |-> a, start |-> start, non |-> non, desc |-> {},
     remove |-> 0]
WatchMove(wd) ==
    [type |-> "move", adir |-> Gone, start |-> FALSE, non |-> None, desc |-> {},
     remove |-> wd]

UNKNOWN_PARENT == -2
Watches(S, wd) == S.w[wd].ws
InTable(S, wd) == wd \in DOMAIN S.w
NewWd(S, wd, p, parent) ==
    [S EXCEPT !.w = (wd :> [path |-> p, parent |-> parent, ws |-> << >>]) @@ S.w]
AppendWatch(S, wd, watch) == [S EXCEPT !.w[wd].ws = Append(@, watch)]

\* Array::removeUnordered(): the last element takes the place.
RemoveUnordered(ws, i) ==
    Front(IF i = Len(ws) THEN ws ELSE [ws EXCEPT ![i] = Last(ws)])

\* How a watch leaves its entry: the last one by the kernel, whose IN_IGNORED
\* erases the entry later.
DropWatch(S, wd, i) ==
    IF Len(Watches(S, wd)) = 1 THEN RemoveWatch(S, wd)
    ELSE [S EXCEPT !.w[wd].ws = RemoveUnordered(@, i)]

\* getAppropriateAutoscan() by directory, and by path with the longest match.
OwnWatch(S, wd, a) ==
    {i \in DOMAIN Watches(S, wd) :
       LET x == Watches(S, wd)[i] IN
         x.type = "autoscan" /\ x.non = None /\ x.adir.at = a.at}
BestWatch(S, wd, p) ==
    LET ws == Watches(S, wd)
        fit == {i \in DOMAIN ws : ws[i].type = "autoscan" /\ ws[i].non = None
                                   /\ IsPrefix(ws[i].adir.at, p)}
    IN {i \in fit : \A j \in fit :
          \/ Len(ws[j].adir.at) < Len(ws[i].adir.at)
          \/ Len(ws[j].adir.at) = Len(ws[i].adir.at) /\ i <= j}
StartPoint(S, wd) == {x \in ToSet(Watches(S, wd)) : x.type = "autoscan" /\ x.start}

\* addMoveWatch(), for a directory above the one that is monitored.
MoveWatched(T, wd, p, remove, parent) ==
    IF wd < 0 THEN T
    ELSE AppendWatch(IF InTable(T, wd) THEN [T EXCEPT !.w[wd].parent = parent]
                     ELSE NewWd(T, wd, p, parent), wd, WatchMove(remove))
AddMoveWatch(S, p, remove, parent) ==
    LET T == AddWatch(S, p) IN MoveWatched(T, WdOf(T, p), p, remove, parent)

\* watchPathForMoves(), from the root down.
RECURSIVE WatchPathForMoves(_, _, _, _, _)
WatchPathForMoves(S, p, remove, i, parent) ==
    IF i >= Len(p) THEN [s |-> S, parent |-> parent]
    ELSE LET T == AddMoveWatch(S, SubSeq(p, 1, i), remove, parent)
         IN WatchPathForMoves(T, p, remove, i + 1, WdOf(T, SubSeq(p, 1, i)))

\* addDescendant(), for the start point of the autoscan directory.
DescendantOf(T, start, a, wd) ==
    IF start < 0 \/ ~InTable(T, start) \/ OwnWatch(T, start, a) = {} THEN T
    ELSE LET i == CHOOSE i \in OwnWatch(T, start, a) :
                     \A j \in OwnWatch(T, start, a) : i <= j
         IN [T EXCEPT !.w[start].ws[i].desc = @ \cup {wd}]
AddDescendant(S, a, wd) ==
    LET T == AddWatch(S, a.at) IN DescendantOf(T, WdOf(T, a.at), a, wd)

(***************************************************************************)
(* monitorDirectory() and what it is made of.                              *)
(***************************************************************************)
RECURSIVE MonitorDirectory(_, _, _, _, _)
RECURSIVE MonitorNonexisting(_, _, _, _)

\* The entry of a directory whose parents are watched, then the watch itself.
Entered(M, wd, p) ==
    IF ~InTable(M.s, wd) THEN NewWd(M.s, wd, p, M.parent)
    ELSE IF M.parent >= 0 /\ M.s.w[wd].parent < 0
    THEN [M.s EXCEPT !.w[wd].parent = M.parent] ELSE M.s
Monitored(U, wd, a, start, non) ==
    IF non = None /\ OwnWatch(U, wd, a) # {} THEN U
    ELSE IF start THEN AppendWatch(U, wd, WatchAutoscan(a, start, non))
    ELSE AddDescendant(AppendWatch(U, wd, WatchAutoscan(a, start, non)), a, wd)
MonitorAt(T, wd, p, a, start, non) ==
    IF wd >= 0
    THEN Monitored(Entered(IF start THEN WatchPathForMoves(T, p, wd, 0, -1)
                           ELSE [s |-> T, parent |-> UNKNOWN_PARENT], wd, p),
                   wd, a, start, non)
    ELSE IF start /\ a.persistent THEN MonitorNonexisting(T, -1, p, a) ELSE T
MonitorDirectory(S, p, a, start, non) ==
    LET T == AddWatch(S, p) IN MonitorAt(T, WdOf(T, p), p, a, start, non)

\* removeNonexistingMonitor(): the first watch that waits for this path.
RemoveNonexisting(S, wd, non) ==
    LET ws == Watches(S, wd)
        is == {i \in DOMAIN ws : ws[i].type = "autoscan" /\ ws[i].non = non}
    IN IF is = {} THEN S
       ELSE DropWatch(S, wd, CHOOSE i \in is : \A j \in is : i <= j)

\* recheckNonexistingMonitor(): the deepest directory of the path that exists is
\* watched, for the directory itself or for the next one to appear.
Deepest(p) == CHOOSE i \in 0..Len(p) :
                /\ ExistsDir(SubSeq(p, 1, i))
                /\ \A j \in (i + 1)..Len(p) : ~ExistsDir(SubSeq(p, 1, j))
MonitorNonexisting(S, cur, p, a) ==
    MonitorDirectory(IF cur # -1 THEN RemoveNonexisting(S, cur, p) ELSE S,
                     SubSeq(p, 1, Deepest(p)), a, ExistsDir(p),
                     IF ExistsDir(p) THEN None ELSE p)

\* recheckNonexistingMonitors(), over a list that changes under the loop.
RECURSIVE RecheckNonexisting(_, _, _)
RecheckNonexisting(S, wd, i) ==
    IF i > Len(Watches(S, wd)) THEN S
    ELSE LET x == Watches(S, wd)[i] IN
         RecheckNonexisting(
           IF x.type = "autoscan" /\ x.non # None
           THEN MonitorNonexisting(S, wd, x.non, x.adir) ELSE S, wd, i + 1)

\* unmonitorDirectory(): the descriptor comes from addWatch(), and watches->at()
\* throws when it is a new one; nothing in the thread catches that exception.
UnmonitorAt(T, wd, a) ==
    IF wd < 0 THEN T
    ELSE IF ~InTable(T, wd) THEN [T EXCEPT !.died = TRUE]
    ELSE LET own == OwnWatch(T, wd, a)
         IN  IF own = {} THEN T
             ELSE DropWatch(T, wd, CHOOSE i \in own : \A j \in own : i <= j)
UnmonitorDirectory(S, p, a) ==
    LET T == AddWatch(S, p) IN UnmonitorAt(T, WdOf(T, p), a)

\* monitorUnmonitorRecursive(): the directory, then those below it.
RECURSIVE MonitorRecursive(_, _, _, _)
MonitorBelow(T, p, a) ==
    IF WdOf(T, p) <= 0 THEN T
    ELSE FoldLeft(LAMBDA X, d : MonitorRecursive(X, Append(p, d), a, FALSE),
                  T, SetToSeq(SubDirs(p)))
MonitorRecursive(S, p, a, start) ==
    MonitorBelow(MonitorDirectory(S, p, a, start, None), p, a)
RECURSIVE UnmonitorRecursive(_, _, _)
UnmonitorRecursive(S, p, a) ==
    FoldLeft(LAMBDA X, d : UnmonitorRecursive(X, Append(p, d), a),
             UnmonitorDirectory(S, p, a), SetToSeq(SubDirs(p)))

(***************************************************************************)
(* The content manager's part.                                             *)
(***************************************************************************)
RemoveTree(S, p) == [S EXCEPT !.db = {q \in @ : ~IsPrefix(p, q)}]
AddTree(S, p) == [S EXCEPT !.db = @ \cup FilesBelow(p)]
\* addFile(): a directory that is not scanned recursively brings nothing itself.
AddFile(S, p, dir, recursive) ==
    IF dir /\ ~recursive THEN S ELSE AddTree(S, p)
\* rescanDirectory(): what is there is imported, what is not there is removed.
InReach(a, p) == IsPrefix(a.at, p) /\ (~a.recursive => Len(p) = Len(a.at) + 1)
Rescan(S, a) ==
    [S EXCEPT !.db = {p \in @ : ~InReach(a, p)} \cup {p \in FilesBelow(a.at) : InReach(a, p)}]

(***************************************************************************)
(* The events.                                                             *)
(***************************************************************************)
\* checkMoveWatches(): a directory above monitored ones was moved away.
Forsaken(U, r, p) ==
    IF StartPoint(U, r) = {} THEN U
    ELSE RemoveTree(IF \E x \in StartPoint(U, r) : x.adir.persistent
                    THEN MonitorNonexisting(U, -1, p,
                           (CHOOSE x \in StartPoint(U, r) : x.adir.persistent).adir)
                    ELSE U, p)
MovedAway(T, r) ==
    IF InTable(T, r)
    THEN Forsaken(RemoveWatch(RecheckNonexisting(T, r, 1), r), r, T.w[r].path) ELSE T
RECURSIVE CheckMoveWatches(_, _, _)
CheckMoveWatches(S, wd, i) ==
    IF i > Len(Watches(S, wd)) THEN S
    ELSE CheckMoveWatches(
           IF Watches(S, wd)[i].type # "move" THEN S
           ELSE MovedAway(DropWatch(S, wd, i), Watches(S, wd)[i].remove), wd, i + 1)

\* removeWatchMoves(): a watch is gone, so the directories above it need not be
\* watched for its sake.
RECURSIVE DropMoves(_, _, _, _)
DropMoves(S, at, wd, i) ==
    IF i > Len(Watches(S, at)) THEN S
    ELSE LET x == Watches(S, at)[i] IN
         DropMoves(IF x.type = "move" /\ x.remove = wd THEN DropWatch(S, at, i) ELSE S,
                   at, wd, i + 1)
RECURSIVE RemoveWatchMoves(_, _, _)
RemoveWatchMoves(S, at, wd) ==
    IF at < 0 \/ ~InTable(S, at) THEN S
    ELSE RemoveWatchMoves(IF at = wd THEN S ELSE DropMoves(S, at, wd, 1),
                          S.w[at].parent, wd)

\* removeDescendants() and the end of the entry.
EraseEntry(S, wd) == [S EXCEPT !.w = [x \in DOMAIN S.w \ {wd} |-> S.w[x]]]
RemoveDescendants(S, wd) ==
    FoldLeft(RemoveWatch, S, SetToSeq(UNION {x.desc : x \in ToSet(Watches(S, wd))}))
Ignored(S, wd) == EraseEntry(RemoveDescendants(RemoveWatchMoves(S, wd, wd), wd), wd)

SelfMasks == {"DELETE_SELF", "MOVE_SELF"}
\* Mutant of ArrivalMasks: a directory that is moved here is not new.
CreationMasks == {"CREATE"}
ArrivalMasks == {"CREATE", "MOVED_TO"}
AddMasks == ArrivalMasks \cup {"CLOSE_WRITE"}

\* A directory above or the monitored one itself disappeared.
LoseSelf(S, wd, p) ==
    LET start == {x \in StartPoint(S, wd) : x.adir.persistent}
    IN IF start = {} THEN RemoveWatch(S, wd)
       ELSE MonitorNonexisting(RemoveWatch(S, wd), -1, p, (CHOOSE x \in start : TRUE).adir)

\* The new directory is monitored whether or not the autoscan is recursive.
FollowsNewDir(a, dir) == dir

\* One event whose descriptor is in the table: what waits for this directory,
\* or for what appeared in it, is monitored; then the best watch takes it.
Recheck(S, wd, e) ==
    LET T == IF e.mask = "MOVE_SELF" THEN CheckMoveWatches(S, wd, 1) ELSE S
    IN IF e.mask \in SelfMasks \/ (e.dir /\ e.mask \in ArrivalMasks)
       THEN RecheckNonexisting(T, wd, 1) ELSE T
Created(S, p, a, e) ==
    IF a.recursive /\ e.dir /\ e.mask = "CREATE" THEN MonitorRecursive(S, p, a, FALSE) ELSE S
Removed(S, p, e) ==
    LET T == IF e.mask \in SelfMasks THEN LoseSelf(S, e.wd, p) ELSE S
    IN IF e.mask \notin ArrivalMasks THEN RemoveTree(T, p) ELSE T
Added(S, p, a, e) ==
    LET T == AddFile(S, p, e.dir, a.recursive)
    IN IF e.mask \notin AddMasks THEN S
       ELSE IF FollowsNewDir(a, e.dir) THEN MonitorRecursive(T, p, a, FALSE) ELSE T
HandleAt(S, e, p) ==
    LET best == BestWatch(S, e.wd, p)
        a == Watches(S, e.wd)[CHOOSE i \in best : TRUE].adir
        T == Recheck(S, e.wd, e)
    IN IF e.mask = "IGNORED" THEN Ignored(T, e.wd)
       ELSE IF best = {} THEN T
       ELSE Added(Removed(Created(T, p, a, e), p, e), p, a, e)
Handle(S, e) ==
    HandleAt(S, e, IF e.mask \in SelfMasks \cup {"IGNORED"} THEN S.w[e.wd].path
                   ELSE Append(S.w[e.wd].path, e.name))

(***************************************************************************)
(* The thread.                                                             *)
(***************************************************************************)
Commit(S) ==
    /\ watches' = S.w /\ k' = S.k /\ next' = S.n /\ events' = S.q
    /\ db' = S.db /\ died' = S.died

Unmonitor ==
    /\ phase = "unmonitor" /\ ~died
    /\ IF unmonitorQueue = << >>
       THEN /\ phase' = "monitor"
            /\ UNCHANGED <<watches, k, next, events, db, died, unmonitorQueue>>
       ELSE LET a == Head(unmonitorQueue) IN
            /\ unmonitorQueue' = Tail(unmonitorQueue)
            /\ Commit(IF a.recursive THEN UnmonitorRecursive(State, a.at, a)
                      ELSE UnmonitorDirectory(State, a.at, a))
            /\ UNCHANGED phase
    /\ UNCHANGED <<up, monitorQueue, registered, changes, requests>>

Monitor ==
    /\ phase = "monitor" /\ ~died
    /\ IF monitorQueue = << >>
       THEN /\ phase' = "event"
            /\ UNCHANGED <<watches, k, next, events, db, died, monitorQueue>>
       ELSE LET a == Head(monitorQueue)
                T == IF a.recursive THEN MonitorRecursive(State, a.at, a, TRUE)
                     ELSE MonitorDirectory(State, a.at, a, TRUE, None)
            IN /\ monitorQueue' = Tail(monitorQueue)
               /\ Commit(IF a \in registered THEN Rescan(T, a) ELSE T)
               /\ UNCHANGED phase
    /\ UNCHANGED <<up, unmonitorQueue, registered, changes, requests>>

\* nextEvent() returns with an event, or with none when a request woke it.
NextEvent ==
    /\ phase = "event" /\ ~died
    /\ phase' = "unmonitor"
    /\ \/ /\ events # << >>
          /\ LET e == Head(events)
                 S == [State EXCEPT !.q = Tail(events)]
             IN Commit(IF InTable(S, e.wd) THEN Handle(S, e) ELSE RemoveWatch(S, e.wd))
       \/ /\ events = << >> /\ (monitorQueue # << >> \/ unmonitorQueue # << >>)
          /\ UNCHANGED <<watches, k, next, events, db, died>>
    /\ UNCHANGED <<up, monitorQueue, unmonitorQueue, registered, changes, requests>>

(***************************************************************************)
(* The user adds or removes an autoscan directory.                         *)
(***************************************************************************)
Quiet == events = << >> /\ monitorQueue = << >> /\ unmonitorQueue = << >>
         /\ phase = "event"

Request(waits) ==
    /\ requests < MaxRequests /\ requests' = requests + 1
    /\ waits => Quiet
    /\ \E a \in Autoscans :
         IF a \in registered
         THEN /\ ~a.persistent
              /\ registered' = registered \ {a}
              /\ unmonitorQueue' = Append(unmonitorQueue, a)
              /\ UNCHANGED monitorQueue
         ELSE /\ ExistsDir(a.at)
              /\ registered' = registered \cup {a}
              /\ monitorQueue' = Append(monitorQueue, a)
              /\ UNCHANGED unmonitorQueue
    /\ UNCHANGED <<up, k, next, events, watches, db, phase, died, changes>>

(***************************************************************************)
(* The file system.                                                        *)
(***************************************************************************)
\* The events of a change, for the directories that are watched.
Emit(es) == SelectSeq(es, LAMBDA e : e.wd > 0)

Change(kind, u, kk, es) ==
    /\ kind \in Changes /\ changes < MaxChanges /\ changes' = changes + 1
    /\ Calm => unmonitorQueue = << >>
    /\ up' = u /\ k' = kk /\ events' = events \o Emit(es)
    /\ UNCHANGED <<next, watches, db, monitorQueue, unmonitorQueue, registered,
                   phase, died, requests>>

Existing == {d \in Dirs : ExistsIn(up, d)} \cup {Root}
Empty(d) == \A x \in Dirs \cup Files : up[x] # d
Outside(d, q) == ~IsPrefix(Path(d), Path(q))

MkDir(d, p) ==
    /\ up[d] = Gone /\ Empty(d)
    /\ Change("mkdir", [up EXCEPT ![d] = p], k, <<Event(k[p], "CREATE", TRUE, d)>>)
RmDir(d) ==
    /\ d \notin Fixed /\ up[d] # Gone /\ Empty(d)
    /\ Change("rmdir", [up EXCEPT ![d] = Gone], [k EXCEPT ![d] = 0],
              << Event(k[d], "DELETE_SELF", FALSE, Gone),
                 Event(k[d], "IGNORED", FALSE, Gone),
                 Event(k[up[d]], "DELETE", TRUE, d) >>)
MoveKind(from, to) ==
    IF k[from] = 0 THEN "movein" ELSE IF k[to] = 0 THEN "moveout" ELSE "movedir"
MoveDir(d, p) ==
    /\ d \notin Fixed /\ up[d] \notin {Gone, p} /\ Outside(d, p)
    /\ Change(MoveKind(up[d], p), [up EXCEPT ![d] = p], k,
              << Event(k[up[d]], "MOVED_FROM", TRUE, d),
                 Event(k[p], "MOVED_TO", TRUE, d),
                 Event(k[d], "MOVE_SELF", FALSE, Gone) >>)
Create(f, p) ==
    /\ up[f] = Gone
    /\ Change("create", [up EXCEPT ![f] = p], k,
              <<Event(k[p], "CREATE", FALSE, f), Event(k[p], "CLOSE_WRITE", FALSE, f)>>)
Delete(f) ==
    /\ up[f] # Gone
    /\ Change("delete", [up EXCEPT ![f] = Gone], k,
              <<Event(k[up[f]], "DELETE", FALSE, f)>>)

FileSystem ==
    \/ \E d \in Dirs \cap Existing : RmDir(d)
    \/ \E d \in Dirs, p \in Existing : MkDir(d, p)
    \/ \E d \in Dirs \cap Existing, p \in Existing : MoveDir(d, p)
    \/ \E f \in Files, p \in Existing : Create(f, p)
    \/ \E f \in {g \in Files : ExistsIn(up, g)} : Delete(f)

Init ==
    /\ up = Tree /\ k = [d \in Dirs \cup {Root} |-> 0] /\ next = 1
    /\ events = << >> /\ watches = << >> /\ db = {}
    /\ monitorQueue = SetToSeq(Autoscans) /\ unmonitorQueue = << >>
    /\ registered = Autoscans /\ phase = "unmonitor" /\ died = FALSE
    /\ changes = 0 /\ requests = 0

Next == Unmonitor \/ Monitor \/ NextEvent \/ FileSystem \/ Request(TRUE)
Spec == Init /\ [][Next]_vars
\* The user does not wait until the thread has nothing to do.
HastySpec == Init /\ [][Next \/ Request(FALSE)]_vars

(***************************************************************************)
(* Properties.                                                             *)
(***************************************************************************)
\* Every variable has a value of its kind.
TypeOK ==
    /\ up \in [Dirs \cup Files -> Dirs \cup {Root, Gone}]
    /\ k \in [Dirs \cup {Root} -> 0..next] /\ next \in Nat
    /\ \A wd \in DOMAIN watches : watches[wd].parent \in -2..next
    /\ registered \subseteq Autoscans /\ died \in BOOLEAN
    /\ phase \in {"unmonitor", "monitor", "event"}

\* The autoscan directories that are scanned with those below, and of them those
\* which exist, or which nothing removes and moves.
Scanned == {a \in registered : a.recursive /\ ExistsDir(a.at)}
Staying == {a \in Scanned : ToSet(a.at) \subseteq Fixed}

\* When the thread has handled everything, the imported files below a monitored
\* directory are the files that are there: nothing was missed between the
\* appearance of a directory and its watch, nothing that is gone stayed.
InSync ==
    Quiet => \A a \in Staying :
               {p \in db : IsPrefix(a.at, p)} = FilesBelow(a.at)

\* And every directory below a monitored one has a watch whose entry in the table
\* names the path at which the directory is.
TreeWatched ==
    Quiet => \A a \in Staying : \A d \in Existing :
               IsPrefix(a.at, Path(d)) =>
                 k[d] \in DOMAIN watches /\ watches[k[d]].path = Path(d)

\* The same for a persistent directory that comes back after it was removed.
ComesBackInSync ==
    Quiet => \A a \in Scanned :
               {p \in db : IsPrefix(a.at, p)} = FilesBelow(a.at)

\* The table and the kernel have the same watches once the thread is idle: no
\* watch leaks, whatever was moved or removed in the meantime.
TableMatchesKernel ==
    Quiet => DOMAIN watches = {k[d] : d \in DOMAIN k} \ {0}

\* Only directories in an autoscan directory or above one are watched: one that
\* is unmonitored leaves no watch behind.
UnmonitorLeavesNothing ==
    Quiet => \A d \in Existing : k[d] # 0 =>
               \E a \in registered : IsPrefix(a.at, Path(d)) \/ IsPrefix(Path(d), a.at)

\* The thread is never ended by an exception that nothing catches.
Survives == ~died

\* A directory that is not scanned recursively brings no files from below.
NotRecursiveStays ==
    \A a \in registered : ~a.recursive =>
        \A p \in db : IsPrefix(a.at, p) => Len(p) = Len(a.at) + 1
==========================================================================
