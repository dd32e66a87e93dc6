--------------------------- MODULE Sqlite3Storage ---------------------------
(***************************************************************************)
(* storage/sqlite3: one thread owns the connection; the others hand it     *)
(* tasks and wait for them.  init() starts the thread and brings the       *)
(* database up, from a backup or anew when it has to; a timer asks for     *)
(* backups; shutdown ends the thread.                                      *)
(*                                                                         *)
(* A task is known by who waits for it, and TimerTask by nobody.  pc[c] is *)
(* where a caller is: "idle", "asks" before addTask() takes the mutex,     *)
(* "tests" before waitForTask() reads the flag `running' without a mutex,  *)
(* "locks" before it reads the flag with the task's mutex, "waits" in      *)
(* cond.wait().  stage is where init() is.                                 *)
(***************************************************************************)
EXTENDS Integers, Sequences

CONSTANTS
  Callers,              \* threads that call select() and exec()
  MayFailToOpen,        \* the file may be one that cannot be opened
  MaxChanges            \* bound on the calls of exec()

\* What the constants are, ASSUMEd where they have values.
SqliteAssumption ==
  /\ Callers \intersect {"main", "timer", "none"} = {}
  /\ MayFailToOpen \in BOOLEAN /\ MaxChanges \in Nat

VARIABLES
  taskQueue, taskQueueOpen, shutdownFlag, dirty, startupError,
  tpc,                  \* the thread
  current,              \* the task it runs
  outcome,              \* what the task left for the thread to note
  pc, running, error,   \* of the callers and of their tasks
  stage,                \* of init() and of the shutdown
  restoreOption,        \* the on-error option is "restore"
  db, backup,           \* "good", "bad" or "none"
  handle,               \* of the connection: "open", "closed", "twice"
  changed,              \* history: changed since the last good backup
  changes               \* calls of exec() so far

vars == <<taskQueue, taskQueueOpen, shutdownFlag, dirty, startupError, tpc, current,
          outcome, pc, running, error, stage, restoreOption, db, backup, handle,
          changed, changes>>

queueVars == <<taskQueue, taskQueueOpen, shutdownFlag, dirty, startupError>>
taskVars  == <<pc, running, error>>
discVars  == <<db, backup, handle, changed, changes>>
thread    == <<tpc, current, outcome>>

Main    == "main"
Askers  == Callers \union {Main}
Timed   == [who |-> "timer", kind |-> "backup"]
NoTask  == [who |-> "none", kind |-> "none"]
Task(c, kind) == [who |-> c, kind |-> kind]

Init ==
  /\ taskQueue = <<>> /\ taskQueueOpen = FALSE
  /\ shutdownFlag = FALSE /\ dirty = FALSE /\ startupError = FALSE
  /\ tpc = "none" /\ current = NoTask /\ outcome = "none"
  /\ pc = [c \in Askers |-> "idle"]
  /\ running = [c \in Askers |-> "none"]
  /\ error = [c \in Askers |-> FALSE]
  /\ stage = "begin"
  /\ restoreOption \in BOOLEAN
  /\ db \in {"good", "bad"} /\ backup \in {"good", "bad", "none"}
  /\ handle = "closed" /\ changed = FALSE /\ changes = 0

(* cond.notify_one() of the driver: the thread or init() may wait on cond. *)
Signal == tpc' = IF tpc = "waits" THEN "top" ELSE tpc

(***************************************************************************)
(* The callers: addTask() and waitForTask()                                *)
(***************************************************************************)
(* The first look at taskQueueOpen takes no mutex.                         *)
Asks(c, kind) ==
  /\ pc[c] = "idle"
  /\ taskQueueOpen
  /\ pc' = [pc EXCEPT ![c] = "asks"]
  /\ running' = [running EXCEPT ![c] = kind]
  /\ error' = [error EXCEPT ![c] = FALSE]

addTask(c) ==
  /\ pc[c] = "asks"
  /\ IF taskQueueOpen
     THEN /\ taskQueue' = Append(taskQueue, Task(c, running[c]))
          /\ pc' = [pc EXCEPT ![c] = "tests"]
          /\ Signal
          /\ UNCHANGED <<running, error>>
     ELSE /\ pc' = [pc EXCEPT ![c] = "idle"]
          /\ running' = [running EXCEPT ![c] = "none"]
          /\ error' = [error EXCEPT ![c] = TRUE]
          /\ UNCHANGED <<taskQueue, tpc>>
  /\ UNCHANGED <<taskQueueOpen, shutdownFlag, dirty, startupError, current, outcome,
                 stage, restoreOption, discVars>>

(* Mutant of Over: never true.                                             *)
OverNever(c) == FALSE
Over(c) == running[c] = "none"

TestRunning(c) ==
  /\ pc[c] = "tests"
  /\ pc' = [pc EXCEPT ![c] = IF Over(c) THEN "idle" ELSE "locks"]
  /\ UNCHANGED <<queueVars, thread, running, error, stage, restoreOption, discVars>>

TestAndWait(c) ==
  /\ pc[c] = "locks"
  /\ pc' = [pc EXCEPT ![c] = IF Over(c) THEN "idle" ELSE "waits"]
  /\ UNCHANGED <<queueVars, thread, running, error, stage, restoreOption, discVars>>

(* sendSignal(): under the task's mutex.                                   *)
Answered(c, failed) ==
  /\ running' = [running EXCEPT ![c] = "none"]
  /\ error' = [error EXCEPT ![c] = failed]
  /\ pc' = [pc EXCEPT ![c] = IF @ = "waits" THEN "idle" ELSE @]

Call(c) ==
  /\ c \in Callers /\ stage \in {"ready", "joins"}
  /\ \E kind \in {"select", "exec"} :
       /\ Asks(c, kind)
       /\ kind = "exec" => changes < MaxChanges
       /\ changes' = changes + IF kind = "exec" THEN 1 ELSE 0
  /\ UNCHANGED <<queueVars, thread, stage, restoreOption, db, backup, handle, changed>>

(* timerNotify(): a task that nobody waits for, when there were changes.   *)
(* The timer calls without its mutex, so the last call may come after the  *)
(* subscription ended.                                                     *)
timerNotify ==
  /\ stage \in {"ready", "joins"} /\ taskQueueOpen
  /\ dirty /\ Timed \notin {taskQueue[i] : i \in DOMAIN taskQueue}
  /\ taskQueue' = Append(taskQueue, Timed)
  /\ Signal
  /\ UNCHANGED <<taskQueueOpen, shutdownFlag, dirty, startupError, current, outcome,
                 taskVars, stage, restoreOption, discVars>>

(***************************************************************************)
(* threadProc()                                                            *)
(***************************************************************************)
Close == handle' = IF handle = "open" THEN "closed" ELSE "twice"

(* A file that cannot be opened ends the thread before it signals.         *)
ThreadOpens ==
  /\ tpc = "opens"
  /\ \/ tpc' = "signals" /\ handle' = "open" /\ UNCHANGED startupError
     \/ MayFailToOpen /\ tpc' = "gone" /\ startupError' = TRUE /\ UNCHANGED handle
  /\ UNCHANGED <<taskQueue, taskQueueOpen, shutdownFlag, dirty, current, outcome, taskVars,
                 stage, restoreOption, db, backup, changed, changes>>

(* The mutex is free only when init() is in cond.wait().                   *)
InitWoken == "version"

ThreadSignals ==
  /\ tpc = "signals" /\ stage = "waits"
  /\ tpc' = "top" /\ stage' = InitWoken
  /\ UNCHANGED <<queueVars, current, outcome, taskVars, restoreOption, discVars>>

ThreadDequeues ==
  /\ tpc = "top" /\ ~shutdownFlag
  /\ IF taskQueue = <<>>
     THEN tpc' = "waits" /\ UNCHANGED <<taskQueue, current>>
     ELSE tpc' = "runs" /\ current' = Head(taskQueue) /\ taskQueue' = Tail(taskQueue)
  /\ UNCHANGED <<taskQueueOpen, shutdownFlag, dirty, startupError, outcome, taskVars,
                 stage, restoreOption, discVars>>

Runs(kind) == tpc = "runs" /\ current.kind = kind

Ran(result) ==
  /\ tpc' = "notes" /\ outcome' = result
  /\ UNCHANGED <<queueVars, current, taskVars, stage, restoreOption, changes>>

(* A query fails on a database that is corrupt, or for its own reasons.    *)
RunSelect ==
  /\ Runs("select")
  /\ \E ok \in BOOLEAN :
       /\ current.who = Main => (ok <=> db = "good" /\ handle = "open")
       /\ Ran(IF ok THEN "ok" ELSE "failed")
  /\ UNCHANGED <<db, backup, handle, changed>>

RunExec ==
  /\ Runs("exec")
  /\ \E ok \in BOOLEAN :
       Ran(IF ok THEN "contaminated" ELSE "failed") /\ changed' = (changed \/ ok)
  /\ UNCHANGED <<db, backup, handle>>

(* A copy that fails is logged; nothing else happens.                      *)
NotCopiedClean == "decontaminated"            \* mutant: the flag is set anyway
NotCopied == "ok"

RunBackup ==
  /\ Runs("backup")
  /\ \/ Ran("decontaminated") /\ backup' = db /\ changed' = FALSE
     \/ Ran(NotCopied) /\ UNCHANGED <<backup, changed>>
  /\ UNCHANGED <<db, handle>>

(* The connection is closed before the copy, and open again only after it. *)
RunRestore ==
  /\ Runs("restore")
  /\ \/ Ran("ok") /\ db' = backup
        /\ handle' = IF handle = "open" THEN "open" ELSE "twice"
     \/ Ran("failed") /\ Close /\ UNCHANGED db
  /\ UNCHANGED <<backup, changed>>

RunInit ==
  /\ Runs("init")
  /\ \/ Ran("contaminated") /\ db' = "good" /\ changed' = TRUE
        /\ handle' = IF handle = "open" THEN "open" ELSE "twice"
     \/ Ran("failed") /\ Close /\ UNCHANGED <<db, changed>>
  /\ UNCHANGED backup

(* Back in threadProc(): the flag dirty, still without the mutex, and the  *)
(* answer.                                                                 *)
ThreadNotes ==
  /\ tpc = "notes"
  /\ dirty' = CASE outcome = "contaminated"   -> TRUE
                [] outcome = "decontaminated" -> FALSE
                [] OTHER                      -> dirty
  /\ IF current.who = "timer" THEN UNCHANGED taskVars
     ELSE Answered(current.who, outcome = "failed")
  /\ tpc' = "top" /\ current' = NoTask /\ outcome' = "none"
  /\ UNCHANGED <<taskQueue, taskQueueOpen, shutdownFlag, startupError, stage, restoreOption, discVars>>

(* The queue is closed and all that is in it answered in one section.      *)
Left == {taskQueue[i].who : i \in DOMAIN taskQueue}

ThreadEnds ==
  /\ tpc = "top" /\ shutdownFlag
  /\ taskQueueOpen' = FALSE /\ taskQueue' = <<>>
  /\ running' = [c \in Askers |-> IF c \in Left THEN "none" ELSE running[c]]
  /\ error' = [c \in Askers |-> c \in Left \/ error[c]]
  /\ pc' = [c \in Askers |-> IF c \in Left /\ pc[c] = "waits" THEN "idle" ELSE pc[c]]
  /\ Close
  /\ tpc' = "gone"
  /\ UNCHANGED <<shutdownFlag, dirty, startupError, current, outcome, stage, restoreOption,
                 db, backup, changed, changes>>

(***************************************************************************)
(* init() and shutdownDriver()                                             *)
(***************************************************************************)
(* It holds the mutex until it waits.                                      *)
InitStarts ==
  /\ stage = "begin"
  /\ stage' = "waits" /\ taskQueueOpen' = TRUE /\ tpc' = "opens"
  /\ UNCHANGED <<taskQueue, shutdownFlag, dirty, startupError, current, outcome, taskVars,
                 restoreOption, discVars>>

InitAsks(from, kind, to) ==
  /\ stage = from
  /\ Asks(Main, kind)
  /\ stage' = to
  /\ UNCHANGED <<queueVars, thread, restoreOption, discVars>>

(* After each answer the next step of init().  The version is read again   *)
(* after the backup or a new database was put in place.                    *)
AfterVersion == IF ~error[Main] THEN "upgrade" ELSE IF ~restoreOption THEN "fails"
                ELSE IF backup = "none" THEN "create" ELSE "restore"
AfterRestoreTrusted == IF error[Main] THEN "create" ELSE "upgrade"      \* mutant
AfterRestore == IF error[Main] THEN "create" ELSE "version2"
AfterAnswer ==
  CASE stage = "version?"  -> AfterVersion
    [] stage = "restore?"  -> AfterRestore
    [] stage = "version2?" -> IF error[Main] THEN "create" ELSE "upgrade"
    [] stage = "create?"   -> IF error[Main] THEN "fails" ELSE "version3"
    [] stage = "version3?" -> IF error[Main] THEN "fails" ELSE "upgrade"
    [] stage = "upgrade?"  -> IF error[Main] THEN "thrown" ELSE "backup"
    [] stage = "backup?"   -> "ready"

InitGoesOn ==
  /\ stage \in {"version?", "restore?", "version2?", "create?", "version3?", "upgrade?", "backup?"}
  /\ pc[Main] = "idle"
  /\ stage' = AfterAnswer
  /\ UNCHANGED <<queueVars, thread, taskVars, restoreOption, discVars>>

(* shutdownDriver(), also when init() gives up: the flag, the signal and,  *)
(* when the thread is gone, the join.                                      *)
shutdownDriver ==
  /\ stage \in {"ready", "fails"} /\ pc[Main] = "idle"
  /\ stage' = IF stage = "ready" THEN "joins" ELSE "joins!"
  /\ shutdownFlag' = TRUE
  /\ Signal
  /\ UNCHANGED <<taskQueue, taskQueueOpen, dirty, startupError, current, outcome, taskVars,
                 restoreOption, discVars>>

Joined ==
  /\ stage \in {"joins", "joins!"} /\ tpc = "gone"
  /\ stage' = IF stage = "joins" THEN "over" ELSE "thrown"
  /\ UNCHANGED <<queueVars, thread, taskVars, restoreOption, discVars>>

InitStep ==
  \/ InitStarts \/ InitGoesOn
  \/ InitAsks("version", "select", "version?") \/ InitAsks("restore", "restore", "restore?")
  \/ InitAsks("version2", "select", "version2?") \/ InitAsks("create", "init", "create?")
  \/ InitAsks("version3", "select", "version3?") \/ InitAsks("upgrade", "exec", "upgrade?")
  \/ InitAsks("backup", "backup", "backup?")

ThreadStep ==
  \/ ThreadOpens \/ ThreadSignals \/ ThreadDequeues
  \/ RunSelect \/ RunExec \/ RunBackup \/ RunRestore \/ RunInit
  \/ ThreadNotes \/ ThreadEnds

Waiting(c) == addTask(c) \/ TestRunning(c) \/ TestAndWait(c)

Next ==
  \/ InitStep \/ shutdownDriver \/ Joined \/ ThreadStep \/ timerNotify
  \/ \E c \in Askers : Call(c) \/ Waiting(c)

GivesUp == stage = "fails" /\ shutdownDriver

Fairness ==
  /\ WF_vars(InitStep) /\ WF_vars(GivesUp) /\ WF_vars(Joined) /\ WF_vars(ThreadStep)
  /\ \A c \in Askers : WF_vars(Waiting(c))

Spec == Init /\ [][Next]_vars /\ Fairness
(***************************************************************************)
(* Properties                                                              *)
(***************************************************************************)
Kinds == {"select", "exec", "backup", "restore", "init"}

(* Every variable has its type (Sqlite3Storage, SLTask).                   *)
TypeOK ==
  /\ taskQueue \in Seq([who : Askers \union {"timer"}, kind : Kinds])
  /\ taskQueueOpen \in BOOLEAN /\ shutdownFlag \in BOOLEAN
  /\ dirty \in BOOLEAN /\ startupError \in BOOLEAN
  /\ tpc \in {"none", "opens", "signals", "top", "waits", "runs", "notes", "gone"}
  /\ current \in [who : Askers \union {"timer"}, kind : Kinds] \union {NoTask}
  /\ outcome \in {"none", "ok", "failed", "contaminated", "decontaminated"}
  /\ pc \in [Askers -> {"idle", "asks", "tests", "locks", "waits"}]
  /\ running \in [Askers -> Kinds \union {"none"}]
  /\ error \in [Askers -> BOOLEAN]
  /\ db \in {"good", "bad", "none"} /\ backup \in {"good", "bad", "none"}
  /\ handle \in {"open", "closed", "twice"}
  /\ changed \in BOOLEAN /\ changes \in Nat

(* A caller that returned from waitForTask() has no task in the queue or   *)
(* in the thread's hands: the result it reads is complete, although the    *)
(* flag is first read without a mutex and the wait is no loop.             *)
OnlyWhenDone ==
  \A c \in Askers : pc[c] = "idle" =>
    /\ current.who # c
    /\ \A i \in DOMAIN taskQueue : taskQueue[i].who # c

(* What was changed since the last backup is known to be dirty, so that    *)
(* the next timer makes a backup: the flag is written without the mutex,   *)
(* by the thread that changes and copies the file.                         *)
BackupsCoverChanges ==
  changed => dirty \/ (tpc = "notes" /\ outcome = "contaminated")

(* init() leaves a database that can be read and a connection that is      *)
(* open, whatever it found on the disk.                                    *)
InitLeavesGoodDatabase == stage = "ready" => db = "good" /\ handle = "open"

(* The connection is closed once.  (When the backup cannot be copied the   *)
(* thread closes it, and the task that creates the database, or the end of *)
(* the thread, closes it again.)                                           *)
NotClosedTwice == handle # "twice"

(* Every call of select() and exec() comes back, also when the driver is   *)
(* shut down at the same time.                                             *)
CallsReturn == \A c \in Askers : pc[c] # "idle" ~> pc[c] = "idle"

(* init() comes to an end.  (When the file cannot be opened the thread     *)
(* ends without the signal and init() waits for ever.)                     *)
InitEnds == stage = "waits" ~> stage \in {"ready", "thrown"}

(* The shutdown joins the thread.                                          *)
ShutdownEnds == stage = "joins" ~> stage = "over"
=============================================================================
