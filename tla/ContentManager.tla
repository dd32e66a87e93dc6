---------------------------- MODULE ContentManager ----------------------------
(***************************************************************************)
(* content_manager.cc and autoscan.cc: the tasks of the content manager    *)
(* and the timed autoscan directories they work for.                       *)
(*                                                                         *)
(* One task thread serves two queues.  The timer thread orders rescans of  *)
(* the autoscan directory in a slot of the autoscan list; a rescan of a    *)
(* container orders one for every subdirectory; a count per autoscan       *)
(* directory tells when the last is over.  Meanwhile users remove objects, *)
(* remove and add autoscan directories and cancel tasks.                   *)
(*                                                                         *)
(* A section under the mutex, or one call of AutoscanList, is one action.  *)
(* The file system is external: which subdirectories a scan finds, and     *)
(* whether it fails, is left open.  An object ID is a location with a bit  *)
(* that tells a container that was added anew from the one before it.      *)
(*                                                                         *)
(* Control of the task thread: "loop" with the mutex held at its head,     *)
(* "wait" in cond.wait(), "start" with a task and no mutex; "dir",         *)
(* "check", "open", "scan", "child" inside a rescan, "dec" before and      *)
(* "store" inside decTaskCount(); "done".                                  *)
(***************************************************************************)
EXTENDS Integers, Sequences, FiniteSets, SequencesExt

CONSTANTS
  Adirs,                \* timed, recursive autoscan directories
  Persistent,           \* those of the configuration file
  InitialAdirs,         \* those in the list from the start, a sequence
  Locations,            \* directories
  Loc,                  \* location of an autoscan directory
  Children,             \* subdirectories of a directory
  Under,                \* directories whose path starts with that of another
  Requests,             \* what users ask for
  Failures,             \* a scan may throw
  Overlap,              \* a timer may fire before the last scan is over
  Nil,
  MaxQueue,             \* bound on the queues, for requests from outside
  MaxTaskCount          \* bound on the task counts, for those of the timer

ASSUME ContentAssumption ==
  /\ Persistent \subseteq Adirs
  /\ InitialAdirs \in Seq(Adirs)
  /\ \A i, j \in DOMAIN InitialAdirs : InitialAdirs[i] = InitialAdirs[j] => i = j
  /\ Nil \notin Adirs \union Locations
  /\ Loc \in [Adirs -> Locations]
  /\ Children \in [Locations -> SUBSET Locations]
  /\ Under \in [Locations -> SUBSET Locations]
  /\ Requests \subseteq {"remove", "removeAutoscan", "addAutoscan", "cancel"}
  /\ Failures \in BOOLEAN /\ Overlap \in BOOLEAN
  /\ MaxQueue \in Nat \ {0} /\ MaxTaskCount \in Nat

VARIABLES
  list, scanID, taskCount,      \* AutoscanList and its directories
  objectID, unused,             \* containers of the directories; those not created yet
  lmtPending,                   \* a scan found a time that updateLMT() has still to keep
  live, gen,                    \* the containers in the storage
  rows,                         \* the autoscan directories in the storage
  timers,                       \* slots with a Timer subscription
  notified,                     \* slots a caller notifies itself
  taskQueue1, taskQueue2, currentTask, shutdownFlag,
  tpc, dir, adir, sid, todo, child, gone, count,    \* the task thread
  tmpc, tmTask, tmDir, tmCount,         \* timerNotify() and rescanDirectory()
  uspc, usObj,                          \* removeObject()
  thrown                        \* "this should never happen" was thrown

autoscan == <<list, scanID, taskCount, objectID, unused, lmtPending>>
storage  == <<live, gen, rows>>
timer    == <<tmpc, tmTask, tmDir, tmCount, timers, notified>>
user     == <<uspc, usObj>>
queues   == <<taskQueue1, taskQueue2>>
rescan   == <<dir, adir, sid, todo, child, gone, count>>
thread   == <<tpc, rescan>>
vars     == <<autoscan, storage, timer, user, queues, currentTask,
              shutdownFlag, thread, thrown>>

INVALID_SCAN_ID == -1

(***************************************************************************)
(* Objects and tasks.                                                      *)
(***************************************************************************)
ObjectID(l) == <<l, gen[l]>>
ObjectIDs   == Locations \X {0, 1}
Exists(obj) == obj # Nil /\ live[obj[1]] /\ gen[obj[1]] = obj[2]

Added(ls) == /\ live' = [l \in Locations |-> live[l] \/ l \in ls]
             /\ gen' = [l \in Locations |-> IF l \in ls /\ ~live[l]
                                            THEN 1 - gen[l] ELSE gen[l]]
             /\ UNCHANGED rows

(* A removal takes the rows of the autoscan directories below along.       *)
Removed(ls) == /\ live' = [l \in Locations |-> live[l] /\ l \notin ls]
               /\ UNCHANGED gen
               /\ rows' = {a \in rows : a \in Persistent \/ Loc[a] \notin ls}

(* owner is the autoscan directory a task was ordered for: no field of the *)
(* code, it only says which directory the scan ID meant.                   *)
Tasks == [type : {"AddFile", "RemoveObject", "RescanDirectory"},
          obj : ObjectIDs \union {Nil}, scanID : Int,
          owner : Adirs \union {Nil}, valid : BOOLEAN]

ASSUME NoTaskIsNil == Nil \notin Tasks

CMAddFileTask(l, owner) ==
  [type |-> "AddFile", obj |-> <<l, 0>>, scanID |-> INVALID_SCAN_ID,
   owner |-> owner, valid |-> TRUE]
CMRemoveObjectTask(obj) ==
  [type |-> "RemoveObject", obj |-> obj, scanID |-> INVALID_SCAN_ID,
   owner |-> Nil, valid |-> TRUE]
CMRescanDirectoryTask(obj, id, owner) ==
  [type |-> "RescanDirectory", obj |-> obj, scanID |-> id,
   owner |-> owner, valid |-> TRUE]

(* cond.notify_one(): only the task thread waits on cond.                  *)
Signalled == IF tpc = "wait" THEN "loop" ELSE tpc

(***************************************************************************)
(* AutoscanList                                                            *)
(***************************************************************************)
get(id) == IF id + 1 \in DOMAIN list THEN list[id + 1] ELSE Nil

IsNull(d) == d = Nil

NilSlots == {i \in DOMAIN list : list[i] = Nil}

LastNil  == {i \in NilSlots : \A j \in NilSlots : j <= i}

(* Mutant of Slots: the index of the empty slot is one too high.           *)
SlotsPast == IF NilSlots = {} THEN {Len(list)} ELSE LastNil

(* A new directory takes the last empty slot, if there is one.             *)
Slots == IF NilSlots = {} THEN {Len(list)} ELSE {i - 1 : i \in LastNil}

add(a, slot) ==
  /\ list' = IF slot = Len(list) THEN Append(list, a)
             ELSE [list EXCEPT ![slot + 1] = a]
  /\ scanID' = [scanID EXCEPT ![a] = slot]

(* Slots are emptied; if the last one is, the list gets shorter by one.    *)
Without(as) ==
  LET kept == [i \in DOMAIN list |-> IF list[i] \in as THEN Nil ELSE list[i]]
  IN  IF list # << >> /\ Last(list) \in as THEN Front(kept) ELSE kept

removeAll(as) ==
  /\ list' = Without(as)
  /\ scanID' = [a \in Adirs |-> IF a \in as THEN INVALID_SCAN_ID ELSE scanID[a]]

Listed == {a \in Adirs : \E i \in DOMAIN list : list[i] = a}

Init ==
  /\ list = InitialAdirs
  /\ scanID = [a \in Adirs |-> IF \E i \in DOMAIN InitialAdirs : InitialAdirs[i] = a
                               THEN (CHOOSE i \in DOMAIN InitialAdirs :
                                       InitialAdirs[i] = a) - 1
                               ELSE INVALID_SCAN_ID]
  /\ taskCount = [a \in Adirs |-> 0]
  /\ objectID = [a \in Adirs |-> <<Loc[a], 0>>]
  /\ unused = {a \in Adirs : \A i \in DOMAIN InitialAdirs : InitialAdirs[i] # a}
  /\ lmtPending = [a \in Adirs |-> FALSE]
  /\ live = [l \in Locations |-> TRUE] /\ gen = [l \in Locations |-> 0]
  /\ rows = {a \in Adirs : \E i \in DOMAIN InitialAdirs : InitialAdirs[i] = a}
  /\ timers = {i - 1 : i \in DOMAIN InitialAdirs}
  /\ notified = timers
  /\ taskQueue1 = << >> /\ taskQueue2 = << >> /\ currentTask = Nil
  /\ shutdownFlag = FALSE
  /\ tpc = "loop" /\ dir = Nil /\ adir = Nil /\ sid = INVALID_SCAN_ID
  /\ todo = {} /\ child = Nil /\ gone = {} /\ count = 0
  /\ tmpc = "idle" /\ tmTask = Nil /\ tmDir = Nil /\ tmCount = 0
  /\ uspc = "idle" /\ usObj = Nil
  /\ thrown = FALSE

(***************************************************************************)
(* timerNotify() and the rescanDirectory() it calls: of the timer thread,  *)
(* of init() and of setAutoscanDirectory(), one at a time.  The count is   *)
(* incremented without a lock: loaded, then stored.                        *)
(***************************************************************************)
(* Rescans ordered for a and not over yet.                                 *)
Outstanding(a) ==
  Cardinality({i \in DOMAIN taskQueue2 : /\ taskQueue2[i].type = "RescanDirectory"
                                        /\ taskQueue2[i].owner = a})
Running(a) == currentTask # Nil /\ currentTask.owner = a

(* Mutant of Notified: the subscription of init() is a one-shot.           *)
NotifiedOnce(id) == timers' = timers \ {id} /\ notified' = notified \ {id}

Notified(id) == notified' = notified \ {id} /\ UNCHANGED timers

TimerNotify(id) ==
  /\ tmpc = "idle"
  /\ id \in timers \union notified
  /\ get(id) # Nil
  /\ Overlap \/ (Outstanding(get(id)) = 0 /\ ~Running(get(id)))
  /\ Len(taskQueue2) < MaxQueue
  /\ taskCount[get(id)] \in -MaxTaskCount..MaxTaskCount
  /\ Notified(id)
  /\ tmTask' = CMRescanDirectoryTask(objectID[get(id)], scanID[get(id)], get(id))
  /\ tmpc' = "load"
  /\ UNCHANGED <<autoscan, storage, tmDir, tmCount, user, queues, currentTask,
                 shutdownFlag, thread, thrown>>

(* The directory is looked up again, by its scan ID.                       *)
TimerLoad ==
  /\ tmpc = "load"
  /\ LET d == get(tmTask.scanID) IN
       IF d = Nil
       THEN tmpc' = "idle" /\ tmTask' = Nil /\ UNCHANGED <<tmDir, tmCount>>
       ELSE /\ tmpc' = "store" /\ tmDir' = d /\ tmCount' = taskCount[d]
            /\ UNCHANGED tmTask
  /\ UNCHANGED <<autoscan, storage, timers, notified, user, queues, currentTask,
                 shutdownFlag, thread, thrown>>

TimerStore ==
  /\ tmpc = "store"
  /\ taskCount' = [taskCount EXCEPT ![tmDir] = tmCount + 1]
  /\ taskQueue2' = Append(taskQueue2, tmTask)
  /\ tpc' = Signalled
  /\ tmpc' = "idle" /\ tmTask' = Nil /\ tmDir' = Nil /\ tmCount' = 0
  /\ UNCHANGED <<list, scanID, objectID, unused, lmtPending, storage, timers,
                 notified, user, taskQueue1, currentTask, shutdownFlag,
                 rescan, thrown>>

(***************************************************************************)
(* Requests of the users.                                                  *)
(***************************************************************************)

(* removeObject(), asynchronous: look the container up, ...                *)
RemoveCall(l) ==
  /\ "remove" \in Requests
  /\ uspc = "idle" /\ live[l]
  /\ Len(taskQueue1) < MaxQueue
  /\ uspc' = "adirs" /\ usObj' = ObjectID(l)
  /\ UNCHANGED <<autoscan, storage, timer, queues, currentTask, shutdownFlag,
                 thread, thrown>>

(* ... take the autoscan directories below it off the list, ...            *)
RemoveAutoscans ==
  /\ uspc = "adirs"
  /\ removeAll({a \in Listed \ Persistent : Loc[a] \in Under[usObj[1]]})
  /\ uspc' = "tasks"
  /\ UNCHANGED <<taskCount, objectID, unused, lmtPending, storage, timer, usObj,
                 queues, currentTask, shutdownFlag, thread, thrown>>

(* ... cancel what was to be added below it ...                            *)
invalidateAddTask(t, l) ==
  IF t.type = "AddFile" /\ t.obj[1] \in Under[l] THEN [t EXCEPT !.valid = FALSE]
  ELSE t

InvalidatesQueues ==
  /\ taskQueue1' = [i \in DOMAIN taskQueue1 |->
                      invalidateAddTask(taskQueue1[i], usObj[1])]
  /\ taskQueue2' = [i \in DOMAIN taskQueue2 |->
                      invalidateAddTask(taskQueue2[i], usObj[1])]

RemoveInvalidates ==
  /\ uspc = "tasks"
  /\ InvalidatesQueues
  /\ currentTask' = IF currentTask = Nil THEN Nil
                    ELSE invalidateAddTask(currentTask, usObj[1])
  /\ uspc' = "task"
  /\ UNCHANGED <<autoscan, storage, timer, usObj, shutdownFlag, thread, thrown>>

(* ... and queue the removal.                                              *)
RemoveQueues ==
  /\ uspc = "task"
  /\ taskQueue1' = Append(taskQueue1, CMRemoveObjectTask(usObj))
  /\ tpc' = Signalled
  /\ uspc' = "idle" /\ usObj' = Nil
  /\ UNCHANGED <<autoscan, storage, timer, taskQueue2, currentTask, shutdownFlag,
                 rescan, thrown>>

(* The Timer subscription stays: it was made with another parameter.       *)
removeAutoscanDirectory(a) ==
  /\ "removeAutoscan" \in Requests
  /\ a \in Listed
  /\ removeAll({a})
  /\ rows' = rows \ {a}
  /\ UNCHANGED <<taskCount, objectID, unused, lmtPending, live, gen, timer, user,
                 queues, currentTask, shutdownFlag, thread, thrown>>

(* A new directory is scanned once; there is no Timer subscription for it. *)
setAutoscanDirectory(a) ==
  /\ "addAutoscan" \in Requests
  /\ a \in unused /\ live[Loc[a]]
  /\ \A b \in rows : Loc[b] \notin Under[Loc[a]] /\ Loc[a] \notin Under[Loc[b]]
  /\ rows' = rows \union {a}
  /\ unused' = unused \ {a}
  /\ objectID' = [objectID EXCEPT ![a] = ObjectID(Loc[a])]
  /\ \E slot \in Slots : add(a, slot) /\ notified' = notified \union {slot}
  /\ UNCHANGED <<taskCount, lmtPending, live, gen, tmpc, tmTask, tmDir, tmCount,
                 timers, user, queues, currentTask, shutdownFlag, thread, thrown>>

(* invalidateTask(): the task with the ID a user chose and what it ordered *)
(* to be added, that is, directories of the container it scans.            *)
Cancelled(t, u) == u = t \/ (u.type = "AddFile" /\ u.owner = t.owner
                             /\ t.obj # Nil /\ u.obj[1] \in Children[t.obj[1]])

Cancel(t, u) == IF Cancelled(t, u) THEN [u EXCEPT !.valid = FALSE] ELSE u

invalidateTask ==
  /\ "cancel" \in Requests
  /\ \E t \in {taskQueue2[i] : i \in DOMAIN taskQueue2}
            \union (IF currentTask = Nil THEN {} ELSE {currentTask}) :
       /\ t.valid /\ t.type # "RemoveObject"
       /\ taskQueue2' = [i \in DOMAIN taskQueue2 |-> Cancel(t, taskQueue2[i])]
       /\ currentTask' = IF currentTask = Nil THEN Nil ELSE Cancel(t, currentTask)
  /\ UNCHANGED <<autoscan, storage, timer, user, taskQueue1, shutdownFlag, thread,
                 thrown>>

shutdown ==
  /\ ~shutdownFlag
  /\ shutdownFlag' = TRUE
  /\ tpc' = Signalled
  /\ UNCHANGED <<autoscan, storage, timer, user, queues, currentTask, rescan,
                 thrown>>

(***************************************************************************)
(* threadProc()                                                            *)
(***************************************************************************)
ThreadExit ==
  /\ tpc = "loop" /\ shutdownFlag
  /\ tpc' = "done"
  /\ UNCHANGED <<autoscan, storage, timer, user, queues, currentTask, shutdownFlag,
                 rescan, thrown>>

ThreadWait ==
  /\ tpc = "loop" /\ ~shutdownFlag
  /\ taskQueue1 = << >> /\ taskQueue2 = << >>
  /\ tpc' = "wait" /\ currentTask' = Nil
  /\ UNCHANGED <<autoscan, storage, timer, user, queues, shutdownFlag, rescan,
                 thrown>>

SpuriousWakeup ==
  /\ tpc = "wait"
  /\ tpc' = "loop"
  /\ UNCHANGED <<autoscan, storage, timer, user, queues, currentTask, shutdownFlag,
                 rescan, thrown>>

(* A task of low priority runs only when there is no other.                *)
Dequeue ==
  /\ tpc = "loop" /\ ~shutdownFlag
  /\ \/ /\ taskQueue1 # << >>
        /\ currentTask' = Head(taskQueue1)
        /\ taskQueue1' = Tail(taskQueue1) /\ UNCHANGED taskQueue2
     \/ /\ taskQueue1 = << >> /\ taskQueue2 # << >>
        /\ currentTask' = Head(taskQueue2)
        /\ taskQueue2' = Tail(taskQueue2) /\ UNCHANGED taskQueue1
  /\ tpc' = "start"
  /\ UNCHANGED <<autoscan, storage, timer, user, shutdownFlag, rescan, thrown>>

Starts(type) == tpc = "start" /\ currentTask.valid /\ currentTask.type = type

(* The frame of a step that only takes the task thread on.                 *)
Onward == UNCHANGED <<timer, user, queues, currentTask, shutdownFlag>>

(* A task that was invalidated is dropped.                                 *)
SkipTask ==
  /\ tpc = "start" /\ ~currentTask.valid
  /\ tpc' = "loop"
  /\ Onward /\ UNCHANGED <<autoscan, storage, rescan, thrown>>

Above(l) == {k \in Locations : l \in Under[k]}

(* _addFile(): directories of the path and below, as files are found in    *)
(* them; the containers above come with them.                              *)
AddFile ==
  /\ Starts("AddFile")
  /\ \E ls \in SUBSET Under[currentTask.obj[1]] : Added(UNION {Above(l) : l \in ls})
  /\ tpc' = "loop"
  /\ Onward /\ UNCHANGED <<autoscan, rescan, thrown>>

(* _removeObject(); an ID that is not in the storage throws.               *)
RemoveObject ==
  /\ Starts("RemoveObject")
  /\ IF Exists(currentTask.obj) THEN Removed(Under[currentTask.obj[1]])
     ELSE UNCHANGED storage
  /\ tpc' = "loop"
  /\ Onward /\ UNCHANGED <<autoscan, rescan, thrown>>

(***************************************************************************)
(* CMRescanDirectoryTask::run() and _rescanDirectory()                     *)
(***************************************************************************)

(* run(): the autoscan directory in the slot now, if any, ...              *)
RescanDirectory ==
  /\ Starts("RescanDirectory")
  /\ LET d == get(currentTask.scanID) IN
       IF IsNull(d) THEN tpc' = "loop" /\ UNCHANGED dir
       ELSE tpc' = "dir" /\ dir' = d
  /\ Onward
  /\ UNCHANGED <<autoscan, storage, adir, sid, todo, child, gone, count, thrown>>

(* ... and its slot, which may have been taken from it by now.             *)
GetScanID ==
  /\ tpc = "dir"
  /\ sid' = scanID[dir]
  /\ tpc' = IF scanID[dir] = INVALID_SCAN_ID THEN "dec" ELSE "check"
  /\ Onward
  /\ UNCHANGED <<autoscan, storage, dir, adir, todo, child, gone, count, thrown>>

(* What _rescanDirectory() forgets when it returns or throws.              *)
Leave(pc) == /\ tpc' = pc
             /\ dir' = IF pc = "dec" THEN dir ELSE Nil
             /\ adir' = Nil /\ sid' = INVALID_SCAN_ID
             /\ todo' = {} /\ child' = Nil /\ gone' = {} /\ count' = 0

CheckScanID ==
  /\ tpc = "check"
  /\ IF IsNull(get(sid))
     THEN thrown' = TRUE /\ Leave("loop")
     ELSE /\ adir' = get(sid) /\ tpc' = "open"
          /\ UNCHANGED <<dir, sid, todo, child, gone, count, thrown>>
  /\ Onward /\ UNCHANGED <<autoscan, storage>>

(* removeAutoscanDirectory(scanID) for what is in the slot now; it throws  *)
(* if there is nothing, and then the count is not decremented.             *)
Withdraw ==
  /\ taskCount' = [taskCount EXCEPT ![adir] = -1]
  /\ removeAll({get(sid)} \ {Nil})
  /\ rows' = rows \ {adir, get(sid)}
  /\ Leave(IF get(sid) = Nil THEN "loop" ELSE "dec")
  /\ UNCHANGED <<objectID, unused, lmtPending>>

(* The directory cannot be read: it takes its container along, ...         *)
OpenFails(l) ==
  /\ IF adir \in Persistent
     THEN /\ objectID' = [objectID EXCEPT ![adir] = Nil]
          /\ Removed(Under[l])
          /\ Leave("dec")
          /\ UNCHANGED <<list, scanID, taskCount, unused, lmtPending>>
     ELSE /\ live' = [k \in Locations |-> live[k] /\ k \notin Under[l]]
          /\ UNCHANGED gen
          /\ Withdraw

(* ... or it can: some of its subdirectories are there, others are not.    *)
OpenDir(l) ==
  /\ \E found \in SUBSET Children[l] :
       /\ todo' = found
       /\ gone' = {c \in Children[l] \ found : live'[c]}
  /\ tpc' = "scan"
  /\ UNCHANGED <<dir, adir, sid, child, count>>

(* The container is in the storage.                                        *)
ScanContainer ==
  /\ tpc = "open" /\ Exists(currentTask.obj)
  /\ \/ UNCHANGED <<autoscan, storage>> /\ OpenDir(currentTask.obj[1])
     \/ OpenFails(currentTask.obj[1])
  /\ Onward /\ UNCHANGED thrown

(* It is not: only a persistent directory is made a container again.       *)
ScanWithoutContainer ==
  /\ tpc = "open" /\ ~Exists(currentTask.obj)
  /\ \/ /\ adir \notin Persistent
        /\ UNCHANGED <<live, gen>> /\ Withdraw
     \/ /\ adir \in Persistent
        /\ objectID' = [objectID EXCEPT ![adir] = Nil]
        /\ Leave("dec")
        /\ UNCHANGED <<list, scanID, taskCount, unused, lmtPending, storage>>
     \/ /\ adir \in Persistent
        /\ Added(Above(Loc[adir]))
        /\ objectID' = [objectID EXCEPT ![adir] = <<Loc[adir], gen'[Loc[adir]]>>]
        /\ OpenDir(Loc[adir])
        /\ UNCHANGED <<list, scanID, taskCount, unused, lmtPending>>
  /\ Onward /\ UNCHANGED thrown

Stopped == shutdownFlag \/ ~currentTask.valid

(* A subdirectory; the scan is over when its autoscan directory was taken  *)
(* off the list.                                                           *)
NextChild ==
  /\ tpc = "scan" /\ ~Stopped
  /\ \E c \in todo :
       IF scanID[adir] = INVALID_SCAN_ID THEN Leave("dec")
       ELSE /\ todo' = todo \ {c} /\ child' = c /\ tpc' = "child"
            /\ UNCHANGED <<dir, adir, sid, gone, count>>
  /\ Onward /\ UNCHANGED <<autoscan, storage, thrown>>

(* Mutant of inc: the count is left alone for a subdirectory.              *)
incForgotten(a) == UNCHANGED taskCount

inc(a) == taskCount' = [taskCount EXCEPT ![a] = @ + 1]

(* One that is in the storage is rescanned by a task of its own ...        *)
RescanChild ==
  /\ tpc = "child" /\ live[child]
  /\ LET d == get(sid) IN
       IF d = Nil THEN UNCHANGED <<taskCount, taskQueue2>>
       ELSE /\ inc(d)
            /\ taskQueue2' = Append(taskQueue2,
                               CMRescanDirectoryTask(ObjectID(child), sid, adir))
  /\ child' = Nil /\ tpc' = "scan"
  /\ UNCHANGED <<list, scanID, objectID, unused, lmtPending, storage, timer, user,
                 taskQueue1, currentTask, shutdownFlag, dir, adir, sid, todo, gone,
                 count, thrown>>

(* Mutant of Unlisted: the second check is left out.                       *)
NeverUnlisted == FALSE

Unlisted == scanID[adir] = INVALID_SCAN_ID

(* ... and a new one added by one, if the autoscan directory is still on   *)
(* the list: the mutex keeps removeObject() away meanwhile.                *)
AddChild ==
  /\ tpc = "child" /\ ~live[child]
  /\ IF Unlisted THEN Leave("dec") /\ UNCHANGED taskQueue2
     ELSE /\ taskQueue2' = Append(taskQueue2, CMAddFileTask(child, adir))
          /\ child' = Nil /\ tpc' = "scan"
          /\ UNCHANGED <<dir, adir, sid, todo, gone, count>>
  /\ UNCHANGED <<autoscan, storage, timer, user, taskQueue1, currentTask,
                 shutdownFlag, thrown>>

ScanStopped ==
  /\ tpc = "scan" /\ Stopped
  /\ Leave("dec")
  /\ Onward /\ UNCHANGED <<autoscan, storage, thrown>>

(* What was not found is removed from the storage, and the time of the     *)
(* newest file kept for later.                                             *)
ScanEnds ==
  /\ tpc = "scan" /\ ~Stopped /\ todo = {}
  /\ Removed(UNION {Under[c] : c \in gone})
  /\ \E newer \in BOOLEAN :
       lmtPending' = [lmtPending EXCEPT ![adir] = @ \/ newer]
  /\ Leave("dec")
  /\ Onward
  /\ UNCHANGED <<list, scanID, taskCount, objectID, unused, thrown>>

(* An exception of the storage or of a metadata reader: run() is left.     *)
ScanFails ==
  /\ Failures
  /\ tpc \in {"scan", "open"}
  /\ Leave("loop")
  /\ Onward /\ UNCHANGED <<autoscan, storage, thrown>>

(* decTaskCount(), without a lock: loaded, then stored; ...                *)
LoadTaskCount ==
  /\ tpc = "dec"
  /\ count' = taskCount[dir] /\ tpc' = "store"
  /\ Onward
  /\ UNCHANGED <<autoscan, storage, dir, adir, sid, todo, child, gone, thrown>>

Over == count - 1 = 0

(* ... after the last rescan updateLMT() keeps the time.                   *)
StoreTaskCount ==
  /\ tpc = "store"
  /\ taskCount' = [taskCount EXCEPT ![dir] = count - 1]
  /\ lmtPending' = IF Over THEN [lmtPending EXCEPT ![dir] = FALSE] ELSE lmtPending
  /\ Leave("loop")
  /\ Onward
  /\ UNCHANGED <<list, scanID, objectID, unused, storage, thrown>>

ThreadStep ==
  \/ ThreadExit \/ ThreadWait \/ Dequeue \/ SkipTask \/ AddFile \/ RemoveObject
  \/ RescanDirectory \/ GetScanID \/ CheckScanID
  \/ ScanContainer \/ ScanWithoutContainer
  \/ NextChild \/ RescanChild \/ AddChild \/ ScanStopped \/ ScanEnds \/ ScanFails
  \/ LoadTaskCount \/ StoreTaskCount

UserStep ==
  \/ \E l \in Locations : RemoveCall(l)
  \/ RemoveAutoscans \/ RemoveInvalidates \/ RemoveQueues
  \/ \E a \in Adirs : removeAutoscanDirectory(a) \/ setAutoscanDirectory(a)
  \/ invalidateTask
  \/ shutdown

TimerStep ==
  \/ \E id \in timers \union notified : TimerNotify(id)
  \/ TimerLoad \/ TimerStore

(* The program is over.                                                    *)
Done == tpc = "done" /\ UNCHANGED vars

Next == ThreadStep \/ SpuriousWakeup \/ UserStep \/ TimerStep \/ Done

Spec == Init /\ [][Next]_vars

(* The threads go on when they can; Timer.tla shows that the timer calls   *)
(* its subscribers again and again. No user has to do anything.            *)
FairSpec ==
  /\ Spec
  /\ WF_vars(ThreadStep)
  /\ WF_vars(TimerLoad) /\ WF_vars(TimerStore)
  /\ \A id \in 0..(Cardinality(Adirs) - 1) : SF_vars(TimerNotify(id))

Rescanning == {"dir", "check", "open", "scan", "child", "dec", "store"}

(***************************************************************************)
(* Properties                                                              *)
(***************************************************************************)

AutoscanType ==
  /\ list \in Seq(Adirs \union {Nil})
  /\ scanID \in [Adirs -> Int] /\ taskCount \in [Adirs -> Int]
  /\ objectID \in [Adirs -> ObjectIDs \union {Nil}]
  /\ unused \subseteq Adirs
  /\ lmtPending \in [Adirs -> BOOLEAN]

StorageType ==
  /\ live \in [Locations -> BOOLEAN] /\ gen \in [Locations -> {0, 1}]
  /\ rows \subseteq Adirs

TimerType ==
  /\ timers \subseteq Int /\ notified \subseteq Int
  /\ tmpc \in {"idle", "load", "store"}
  /\ IF tmpc = "idle" THEN tmTask = Nil ELSE tmTask \in Tasks
  /\ IF tmpc = "store" THEN tmDir \in Adirs ELSE tmDir = Nil
  /\ tmCount \in Int

UserType ==
  /\ uspc \in {"idle", "adirs", "tasks", "task"}
  /\ IF uspc = "idle" THEN usObj = Nil ELSE usObj \in ObjectIDs

QueueType ==
  /\ taskQueue1 \in Seq(Tasks) /\ taskQueue2 \in Seq(Tasks)
  /\ currentTask \in Tasks \union {Nil}

ThreadType ==
  /\ tpc \in {"loop", "wait", "done", "start"} \union Rescanning
  /\ IF tpc \in Rescanning THEN dir \in Adirs ELSE dir = Nil
  /\ IF tpc \in {"open", "scan", "child"} THEN adir \in Adirs ELSE adir = Nil
  /\ sid \in Int /\ count \in Int
  /\ todo \subseteq Locations /\ gone \subseteq Locations
  /\ IF tpc = "child" THEN child \in Locations ELSE child = Nil

(* The variables keep their types; wherever the code dereferences the      *)
(* current task, an autoscan directory or a name, it has one.              *)
TypeOK ==
  /\ AutoscanType /\ StorageType /\ TimerType /\ UserType /\ QueueType /\ ThreadType
  /\ tpc \in {"start"} \union Rescanning => currentTask \in Tasks
  /\ shutdownFlag \in BOOLEAN /\ thrown \in BOOLEAN

(* An autoscan directory has the ID of the slot it is in, and none when it *)
(* is in no slot: a timer or a task that names a slot finds its directory. *)
SlotsAgree ==
  \A a \in Adirs : IF a \in Listed THEN \A i \in DOMAIN list :
                                         list[i] = a <=> scanID[a] = i - 1
                   ELSE scanID[a] = INVALID_SCAN_ID

(* threadProc() sleeps only while there is nothing to do and nobody has    *)
(* asked it to stop: no signal() is lost.                                  *)
IdleOnlyWithoutWork ==
  tpc = "wait" => taskQueue1 = << >> /\ taskQueue2 = << >> /\ ~shutdownFlag

(* Between two tasks, the task count of an autoscan directory is the       *)
(* number of its rescans that are still in the queue.                      *)
TaskCountExact ==
  tpc \in {"loop", "wait"} => \A a \in Listed : taskCount[a] = Outstanding(a)

PendingRemovals ==
  {taskQueue1[i].obj[1] : i \in {j \in DOMAIN taskQueue1 :
                                   taskQueue1[j].type = "RemoveObject"}}
    \union (IF uspc = "task" THEN {usObj[1]} ELSE {})

AddsBehind(t, l) ==
  /\ t.type = "AddFile" /\ t.valid
  /\ t.owner \in Adirs \ Persistent
  /\ t.obj[1] \in Under[l] /\ Loc[t.owner] \in Under[l]

(* While an object waits to be removed, no scan of an autoscan directory   *)
(* below it has a directory below it in the queue: it would be added again *)
(* after the removal.                                                      *)
NoAddBehindRemove ==
  \A l \in PendingRemovals :
    /\ \A i \in DOMAIN taskQueue2 : ~AddsBehind(taskQueue2[i], l)
    /\ currentTask # Nil => ~AddsBehind(currentTask, l)

(* After shutdown() the task thread ends, so that it can be joined.        *)
ThreadStops == shutdownFlag ~> tpc = "done"

(* A modification time that a scan found is kept by updateLMT() when the   *)
(* whole scan is over.                                                     *)
LMTIsKept ==
  \A a \in Adirs : lmtPending[a] ~> (~lmtPending[a] \/ a \notin Listed \/ shutdownFlag)

(* An autoscan directory in the list is scanned again and again.           *)
IsRescanned ==
  \A a \in Adirs : []<>(a \notin Listed \/ shutdownFlag
                          \/ (tpc = "open" /\ adir = a))

(* A rescan works for the autoscan directory it was ordered for.           *)
RescansItsOwn == tpc = "scan" => currentTask.owner = adir

(* The autoscan directory that run() saw is there in _rescanDirectory().   *)
NeverThrown == ~thrown
=============================================================================
