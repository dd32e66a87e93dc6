------------------------ MODULE StorageThreads_proof ------------------------
(***************************************************************************)
(* Theorems about components of StorageThreads, for any constants: of the  *)
(* driver, for any callers and number of changes, whatever is on the disk  *)
(* (the invariants build on each other: the types and the calls first,     *)
(* then init() and the backup); of the cache with the insert buffer, for   *)
(* any files, threads and limits; and of the transcoder.                   *)
(***************************************************************************)
EXTENDS StorageThreads, TLAPS

(***************************************************************************)
(* What a call relies on                                                   *)
(***************************************************************************)
\* No task of c is queued or in the hands of the thread.
Absent(c) == current.who # c /\ \A i \in DOMAIN taskQueue : taskQueue[i].who # c

\* A caller has one task at most, and its flag `running' is up from before it
\* is queued until it is answered.
CallInv ==
  /\ \A c \in Askers :
       /\ pc[c] = "idle" => running[c] = "none"
       /\ pc[c] = "asks" => running[c] # "none"
       /\ pc[c] = "asks" \/ running[c] = "none" => Absent(c)
  /\ \A i, j \in DOMAIN taskQueue :
       i # j => taskQueue[i].who # taskQueue[j].who \/ taskQueue[i].who = "timer"
  /\ \A i \in DOMAIN taskQueue :
       taskQueue[i].who # current.who \/ taskQueue[i].who = "timer"
  /\ tpc \notin {"runs", "notes"} => current = NoTask

(***************************************************************************)
(* What init() relies on                                                   *)
(***************************************************************************)
Good == db = "good" /\ handle = "open"

Queries == {"version?", "version2?", "version3?"}

\* What init() has asked for at a stage; it waits at these stages only.
Asked ==
  CASE stage \in Queries -> "select" [] stage = "restore?" -> "restore"
    [] stage = "create?" -> "init"   [] stage = "upgrade?" -> "exec"
    [] stage = "backup?" -> "backup" [] OTHER -> "none"

\* Only init() has the database restored or created.
Fits(task) == IF task.who = Main THEN task.kind = Asked ELSE task.kind \notin {"restore", "init"}

StageInv ==
  /\ running[Main] \in {"none", Asked}
  /\ \A c \in Callers : running[c] \notin {"restore", "init"}
  /\ Asked = "none" => pc[Main] = "idle"
  /\ Fits(current) /\ \A i \in DOMAIN taskQueue : Fits(taskQueue[i])
  /\ stage \in {"upgrade", "upgrade?", "backup", "backup?", "ready"} => Good
  /\ stage \in Queries /\ running[Main] = "none" /\ ~error[Main] => Good
  /\ stage \in Queries /\ tpc = "notes" /\ current.who = Main /\ outcome # "failed" => Good
  /\ shutdownFlag => stage \in {"joins", "joins!", "over", "thrown"}
  /\ tpc \in {"opens", "signals"} => stage = "waits"

(***************************************************************************)
(* What the backup timer relies on                                         *)
(***************************************************************************)
\* A copy that is not noted yet was of the database as it is.
DirtyInv ==
  /\ BackupsCoverChanges
  /\ tpc = "notes" /\ outcome = "decontaminated" => ~changed

Tasks == [who : Askers \union {"timer"}, kind : Kinds]

\* The types that the proofs need; the flags are left out.
Types ==
  /\ taskQueue \in Seq(Tasks)
  /\ tpc \in {"none", "opens", "signals", "top", "waits", "runs", "notes", "gone"}
  /\ current \in Tasks \union {NoTask}
  /\ pc \in [Askers -> {"idle", "asks", "tests", "locks", "waits"}]
  /\ running \in [Askers -> Kinds \union {"none"}]
  /\ DOMAIN error = Askers

CallsInv == Types /\ CallInv
BeginInv == stage = "begin" => tpc = "none"
IInv == CallsInv /\ BeginInv /\ StageInv /\ DirtyInv

(***************************************************************************)
(* The beginning                                                           *)
(***************************************************************************)
LEMMA InitIInv == ASSUME SqliteAssumption, Init PROVE IInv
<1>1. /\ taskQueue = <<>> /\ current = NoTask /\ tpc = "none"
      /\ pc = [c \in Askers |-> "idle"] /\ running = [c \in Askers |-> "none"]
      /\ error = [c \in Askers |-> FALSE] /\ stage = "begin"
  BY DEF Init
<1>2. ~shutdownFlag /\ ~changed
  BY Zenon DEF Init
<1>3. Types
  BY <1>1 DEF Types
<1>4. CallInv
  BY <1>1 DEF CallInv, Absent, NoTask, Askers, Main, SqliteAssumption
<1>5. StageInv
  BY <1>1, <1>2 DEF StageInv, Asked, Queries, Fits, Good, NoTask, Main, Askers
<1>6. DirtyInv
  BY <1>2 DEF DirtyInv, BackupsCoverChanges
<1> QED
  BY <1>1, <1>3, <1>4, <1>5, <1>6 DEF IInv, CallsInv, BeginInv

(***************************************************************************)
(* The calls, one step at a time                                           *)
(***************************************************************************)
\* A step that leaves the calls alone, and the thread at rest if it was.
LEMMA QuietStep ==
  ASSUME CallsInv, UNCHANGED <<taskQueue, current, pc, running, error>>, Types',
         tpc \in {"runs", "notes"} => tpc' \in {"runs", "notes"}
  PROVE  CallInv'
BY DEF CallsInv, CallInv, Absent

\* Before addTask() a caller has no task.
LEMMA AsksStep ==
  ASSUME SqliteAssumption, CallsInv, NEW c \in Askers, NEW kind \in Kinds, Asks(c, kind),
         UNCHANGED <<taskQueue, current, tpc>>
  PROVE  CallsInv'
<1> USE DEF CallsInv
<1>1. Types'
  BY DEF Types, Asks
<1>2. CallInv'
  BY DEF Types, CallInv, Absent, Asks, Kinds
<1> QED
  BY <1>1, <1>2

LEMMA addTaskStep ==
  ASSUME SqliteAssumption, CallsInv, NEW c \in Askers, addTask(c)
  PROVE  CallsInv'
<1> USE DEF CallsInv
<1>1. CASE taskQueueOpen
  <2> DEFINE task == Task(c, running[c])
  <2>1. /\ taskQueue' = Append(taskQueue, task)
        /\ pc[c] = "asks" /\ pc' = [pc EXCEPT ![c] = "tests"]
        /\ running' = running /\ error' = error /\ current' = current
        /\ tpc' = IF tpc = "waits" THEN "top" ELSE tpc
    BY <1>1 DEF addTask, Signal
  <2>2. task \in Tasks /\ task.who = c /\ c # "timer"
    BY <2>1 DEF Types, CallInv, Task, Tasks, SqliteAssumption, Askers, Main
  <2> HIDE DEF task
  <2>3. /\ taskQueue' \in Seq(Tasks) /\ Len(taskQueue') = Len(taskQueue) + 1
        /\ \A i \in DOMAIN taskQueue' :
             taskQueue'[i] = IF i \in DOMAIN taskQueue THEN taskQueue[i] ELSE task
        /\ \A i \in DOMAIN taskQueue' : i \in DOMAIN taskQueue \/ i = Len(taskQueue) + 1
    BY <2>1, <2>2 DEF Types
  <2>4. Absent(c)
    BY <2>1 DEF CallInv
  <2>5. Types'
    BY <2>1, <2>3 DEF Types
  <2>6. \A d \in Askers : d # c /\ Absent(d) => Absent(d)'
    BY <2>1, <2>2, <2>3 DEF Absent
  <2>7. CallInv'
    <3>1. \A d \in Askers :
            /\ pc'[d] = "idle" => running'[d] = "none"
            /\ pc'[d] = "asks" => running'[d] # "none"
            /\ pc'[d] = "asks" \/ running'[d] = "none" => Absent(d)'
      BY <2>1, <2>6 DEF CallInv, Types
    <3>2. \A i, j \in DOMAIN taskQueue' :
            i # j => taskQueue'[i].who # taskQueue'[j].who \/ taskQueue'[i].who = "timer"
      BY <2>2, <2>3, <2>4 DEF CallInv, Absent
    <3>3. \A i \in DOMAIN taskQueue' :
            taskQueue'[i].who # current'.who \/ taskQueue'[i].who = "timer"
      BY <2>1, <2>2, <2>3, <2>4 DEF CallInv, Absent
    <3>4. tpc' \notin {"runs", "notes"} => current' = NoTask
      BY <2>1 DEF CallInv
    <3> QED
      BY <3>1, <3>2, <3>3, <3>4 DEF CallInv
  <2> QED
    BY <2>5, <2>7
<1>2. CASE ~taskQueueOpen
  <2>1. /\ UNCHANGED <<taskQueue, tpc, current>>
        /\ pc[c] = "asks" /\ pc' = [pc EXCEPT ![c] = "idle"]
        /\ running' = [running EXCEPT ![c] = "none"] /\ error' = [error EXCEPT ![c] = TRUE]
    BY <1>2 DEF addTask
  <2>2. Types'
    BY <2>1 DEF Types
  <2>3. CallInv'
    BY <2>1 DEF CallInv, Types, Absent
  <2> QED
    BY <2>2, <2>3
<1> QED
  BY <1>1, <1>2

\* waitForTask(): a caller that returns has seen its flag down.
LEMMA WaitStep ==
  ASSUME CallsInv, NEW c \in Askers, TestRunning(c) \/ TestAndWait(c)
  PROVE  CallsInv'
<1>1. /\ UNCHANGED <<taskQueue, current, running, error, tpc>>
      /\ pc[c] \in {"tests", "locks"}
      /\ \E p \in {"idle", "locks", "waits"} :
           pc' = [pc EXCEPT ![c] = p] /\ (p = "idle" => running[c] = "none")
  BY DEF TestRunning, TestAndWait, Over, thread, queueVars
<1>2. Types'
  BY <1>1 DEF CallsInv, Types
<1>3. CallInv'
  BY <1>1 DEF CallsInv, CallInv, Types, Absent
<1> QED
  BY <1>2, <1>3 DEF CallsInv

\* A backup that the timer asks for.
LEMMA timerStep ==
  ASSUME SqliteAssumption, CallsInv, timerNotify
  PROVE  CallsInv'
<1> USE DEF CallsInv
<1>1. /\ taskQueue' = Append(taskQueue, Timed)
      /\ UNCHANGED <<current, pc, running, error>>
      /\ tpc' = IF tpc = "waits" THEN "top" ELSE tpc
  BY DEF timerNotify, Signal, taskVars
<1>2. Timed \in Tasks /\ Timed.who = "timer" /\ "timer" \notin Askers
  BY DEF Timed, Tasks, Kinds, SqliteAssumption, Askers, Main
<1>3. /\ taskQueue' \in Seq(Tasks)
      /\ \A i \in DOMAIN taskQueue' :
           (i \in DOMAIN taskQueue /\ taskQueue'[i] = taskQueue[i]) \/ taskQueue'[i] = Timed
      /\ \A i, j \in DOMAIN taskQueue' : i # j => i \in DOMAIN taskQueue \/ j \in DOMAIN taskQueue
  BY <1>1, <1>2 DEF Types
<1>4. Types'
  BY <1>1, <1>3 DEF Types
<1>5. \A c \in Askers : Absent(c) => Absent(c)'
  BY <1>1, <1>2, <1>3 DEF Absent
<1>6. CallInv'
  BY <1>1, <1>2, <1>3, <1>5 DEF CallInv
<1> QED
  BY <1>4, <1>6

LEMMA DequeueStep ==
  ASSUME SqliteAssumption, CallsInv, ThreadDequeues
  PROVE  CallsInv'
<1> USE DEF CallsInv
<1>1. tpc = "top" /\ UNCHANGED <<pc, running, error>> /\ current = NoTask
  BY DEF ThreadDequeues, taskVars, CallInv
<1>2. CASE taskQueue = <<>>
  <2>1. tpc' = "waits" /\ UNCHANGED <<taskQueue, current>>
    BY <1>2 DEF ThreadDequeues
  <2>2. Types'
    BY <1>1, <2>1 DEF Types
  <2> QED
    BY <1>1, <2>1, <2>2, QuietStep
<1>3. CASE taskQueue # <<>>
  <2>1. tpc' = "runs" /\ current' = Head(taskQueue) /\ taskQueue' = Tail(taskQueue)
    BY <1>3 DEF ThreadDequeues
  <2>2. /\ 1 \in DOMAIN taskQueue /\ current' = taskQueue[1] /\ current' \in Tasks
        /\ taskQueue' \in Seq(Tasks)
        /\ \A i \in DOMAIN taskQueue' :
             i + 1 \in DOMAIN taskQueue /\ i + 1 # 1 /\ taskQueue'[i] = taskQueue[i + 1]
        /\ \A i, j \in DOMAIN taskQueue' : i # j => i + 1 # j + 1
    BY <1>3, <2>1 DEF Types
  <2>3. Types'
    BY <1>1, <2>1, <2>2 DEF Types
  <2>4. \A c \in Askers : Absent(c) => Absent(c)'
    BY <2>2 DEF Absent
  <2>5. CallInv'
    BY <1>1, <2>1, <2>2, <2>4 DEF CallInv
  <2> QED
    BY <2>3, <2>5
<1> QED
  BY <1>2, <1>3

\* The caller that is answered has no other task.
LEMMA NotesStep ==
  ASSUME SqliteAssumption, CallsInv, ThreadNotes
  PROVE  CallsInv'
<1> USE DEF CallsInv
<1>1. /\ tpc' = "top" /\ current' = NoTask /\ taskQueue' = taskQueue
  BY DEF ThreadNotes
<1>2. NoTask.who = "none" /\ "none" \notin Askers /\ "timer" \notin Askers
  BY DEF NoTask, SqliteAssumption, Askers, Main
<1>3. \A c \in Askers : Absent(c) => Absent(c)'
  BY <1>1, <1>2 DEF Absent
<1>6. \A i \in DOMAIN taskQueue : taskQueue[i].who # "none"
  <2>1. \A i \in DOMAIN taskQueue : taskQueue[i] \in Tasks
    BY DEF Types
  <2> QED
    BY <1>2, <2>1 DEF Tasks
<1>4. CASE current.who = "timer"
  <2>1. UNCHANGED <<pc, running, error>>
    BY <1>4 DEF ThreadNotes, taskVars
  <2>2. Types'
    BY <1>1, <2>1 DEF Types
  <2> QED
    BY <1>1, <1>2, <1>3, <1>6, <2>1, <2>2 DEF CallInv
<1>5. ASSUME NEW w, w = current.who, w # "timer" PROVE CallsInv'
  <2>1. /\ running' = [running EXCEPT ![w] = "none"]
        /\ pc' = [pc EXCEPT ![w] = IF @ = "waits" THEN "idle" ELSE @]
        /\ DOMAIN error' = DOMAIN error
    BY <1>5 DEF ThreadNotes, Answered
  <2>2. Types'
    BY <1>1, <2>1 DEF Types
  <2>3. w \in Askers => Absent(w)'
    <3>1. \A i \in DOMAIN taskQueue : taskQueue[i].who # w
      BY <1>5 DEF CallInv
    <3> QED
      BY <1>1, <1>2, <3>1 DEF Absent
  <2>4. w \in Askers => pc[w] # "asks"
    BY <1>5 DEF CallInv, Absent
  <2>6. CallInv'
    <3>1. \A c \in Askers :
            /\ pc'[c] = "idle" => running'[c] = "none"
            /\ pc'[c] = "asks" => running'[c] # "none"
            /\ pc'[c] = "asks" \/ running'[c] = "none" => Absent(c)'
      BY <1>3, <2>1, <2>3, <2>4 DEF CallInv, Types
    <3> QED
      BY <3>1, <1>1, <1>2, <1>6 DEF CallInv
  <2> QED
    BY <2>2, <2>6
<1> QED
  BY <1>4, <1>5

\* The end of the thread answers everything that is queued.
LEMMA EndsStep ==
  ASSUME SqliteAssumption, CallsInv, ThreadEnds
  PROVE  CallsInv'
<1> USE DEF CallsInv
<1>1. /\ taskQueue' = <<>> /\ tpc' = "gone" /\ current' = NoTask
      /\ running' = [c \in Askers |-> IF c \in Left THEN "none" ELSE running[c]]
      /\ pc' = [c \in Askers |-> IF c \in Left /\ pc[c] = "waits" THEN "idle" ELSE pc[c]]
      /\ DOMAIN error' = Askers
  BY DEF ThreadEnds, CallInv
<1>2. NoTask.who = "none" /\ "none" \notin Askers
  BY DEF NoTask, SqliteAssumption, Askers, Main
<1>3. Types'
  BY <1>1 DEF Types
<1>4. \A c \in Askers : Absent(c)'
  BY <1>1, <1>2 DEF Absent
<1>5. \A c \in Askers : pc[c] = "asks" => c \notin Left
  BY DEF CallInv, Absent, Left
<1>6. CallInv'
  BY <1>1, <1>4, <1>5 DEF CallInv, Types
<1> QED
  BY <1>3, <1>6

LEMMA BeginStep == ASSUME BeginInv, [Next]_vars PROVE BeginInv'
BY DEF BeginInv, Next, InitStep, InitStarts, InitGoesOn, AfterAnswer, AfterVersion, AfterRestore,
       InitAsks, shutdownDriver, Joined, ThreadStep, ThreadOpens, ThreadSignals, InitWoken,
       ThreadDequeues, RunSelect, RunExec, RunBackup, RunRestore, RunInit, Ran, Runs, ThreadNotes,
       ThreadEnds, timerNotify, Signal, Call, Waiting, addTask, TestRunning, TestAndWait, thread, vars

LEMMA CallsStep == ASSUME SqliteAssumption, CallsInv, BeginInv, [Next]_vars PROVE CallsInv'
<1> USE DEF CallsInv, discVars, queueVars, taskVars, thread
<1>1. CASE InitStep
  <2>1. CASE InitStarts
    <3>1. UNCHANGED <<taskQueue, current, pc, running, error>> /\ tpc' = "opens" /\ tpc = "none"
      BY <2>1 DEF InitStarts, BeginInv
    <3>2. Types'
      BY <3>1 DEF Types
    <3> QED
      BY <3>1, <3>2, QuietStep
  <2>2. CASE InitGoesOn
    <3>1. UNCHANGED <<taskQueue, current, pc, running, error, tpc>>
      BY <2>2 DEF InitGoesOn
    <3> QED
      BY <3>1, QuietStep DEF Types
  <2>3. ASSUME NEW from, NEW kind \in Kinds, NEW to, InitAsks(from, kind, to) PROVE CallsInv'
    <3>1. Main \in Askers
      BY DEF Askers
    <3> QED
      BY <2>3, <3>1, AsksStep DEF InitAsks
  <2> QED
    BY <1>1, <2>1, <2>2, <2>3 DEF InitStep, Kinds
<1>2. CASE shutdownDriver \/ Joined \/ ThreadOpens \/ ThreadSignals
           \/ RunSelect \/ RunExec \/ RunBackup \/ RunRestore \/ RunInit \/ UNCHANGED vars
  <2>1. /\ UNCHANGED <<taskQueue, current, pc, running, error>>
        /\ tpc \in {"runs", "notes"} => tpc' \in {"runs", "notes"}
        /\ tpc' \in {"none", "opens", "signals", "top", "waits", "runs", "notes", "gone"}
    BY <1>2 DEF Types, shutdownDriver, Joined, ThreadOpens, ThreadSignals, Signal, RunSelect, RunExec,
                RunBackup, RunRestore, RunInit, Ran, Runs, vars
  <2>2. Types'
    BY <2>1 DEF Types
  <2> QED
    BY <2>1, <2>2, QuietStep
<1>3. ASSUME NEW c \in Askers, Call(c) PROVE CallsInv'
  BY <1>3, AsksStep DEF Call, Kinds
<1> QED
  BY <1>1, <1>2, <1>3, addTaskStep, WaitStep, timerStep, DequeueStep, NotesStep, EndsStep
  DEF Next, ThreadStep, Waiting

(***************************************************************************)
(* What init() finds and leaves                                            *)
(***************************************************************************)
\* A step of a caller or of the timer, which leaves files and stages alone.
LEMMA StageQueue ==
  ASSUME SqliteAssumption, CallsInv, StageInv, NEW c \in Askers,
         addTask(c) \/ TestRunning(c) \/ TestAndWait(c) \/ Call(c) \/ timerNotify
  PROVE  StageInv'
<1> USE DEF CallsInv, queueVars, taskVars, thread
<1>1. UNCHANGED <<stage, db, handle, current, outcome, shutdownFlag>>
  BY DEF addTask, TestRunning, TestAndWait, Call, timerNotify, discVars
<1>2. Asked' = Asked /\ Good' = Good
  BY <1>1 DEF Asked, Good, Queries
<1>3. \A t : Fits(t)' <=> Fits(t)
  BY <1>2 DEF Fits
<1>4. Main \in Askers /\ Main # "timer" /\ Main \notin Callers
  BY DEF Askers, Main, SqliteAssumption
<1>5. /\ running'[Main] \in {"none", running[Main]}
      /\ running'[Main] = "none" /\ ~error'[Main] => running[Main] = "none" /\ ~error[Main]
      /\ pc[Main] = "idle" => pc'[Main] = "idle"
  <2>1. CASE addTask(c)
    BY <2>1, <1>4 DEF addTask, Types, CallInv
  <2>2. CASE TestRunning(c) \/ TestAndWait(c)
    BY <2>2, <1>4 DEF TestRunning, TestAndWait, Types
  <2>3. CASE Call(c)
    BY <2>3, <1>4 DEF Call, Asks, Types
  <2>4. CASE timerNotify
    BY <2>4 DEF timerNotify
  <2> QED
    BY <2>1, <2>2, <2>3, <2>4
<1>7. \A d \in Callers : running'[d] \notin {"restore", "init"}
  BY <1>4 DEF addTask, TestRunning, TestAndWait, Call, Asks, timerNotify, Types, StageInv, Askers
<1>8. tpc' = tpc \/ (tpc = "waits" /\ tpc' = "top")
  BY DEF addTask, Signal, TestRunning, TestAndWait, Call, timerNotify
<1>6. \A i \in DOMAIN taskQueue' : Fits(taskQueue'[i])
  <2>1. CASE UNCHANGED taskQueue
    BY <2>1 DEF StageInv
  <2>2. CASE addTask(c) /\ taskQueueOpen
    <3>1. taskQueue' = Append(taskQueue, Task(c, running[c])) /\ running[c] # "none"
      BY <2>2 DEF addTask, CallInv
    <3>2. Fits(Task(c, running[c]))
      BY <3>1, <1>4 DEF Fits, Task, StageInv, Askers
    <3> QED
      BY <3>1, <3>2 DEF StageInv, Types
  <2>3. CASE timerNotify
    <3>1. taskQueue' = Append(taskQueue, Timed) /\ Fits(Timed)
      BY <2>3, <1>4 DEF timerNotify, Timed, Fits
    <3> QED
      BY <3>1 DEF StageInv, Types
  <2> QED
    BY <2>1, <2>2, <2>3 DEF addTask, TestRunning, TestAndWait, Call
<1> QED
  BY <1>1, <1>2, <1>3, <1>5, <1>6, <1>7, <1>8 DEF StageInv

\* While init() has asked for nothing, or has its answer, it has no task.
LEMMA MainAway ==
  ASSUME SqliteAssumption, CallsInv, pc[Main] = "idle"
  PROVE  running[Main] = "none" /\ current.who # Main
         /\ \A i \in DOMAIN taskQueue : taskQueue[i].who # Main
BY DEF CallsInv, CallInv, Absent, Askers

\* A step of init() to a stage, which finds no task of its own.
LEMMA StageMoves ==
  ASSUME SqliteAssumption, CallsInv, StageInv, pc[Main] = "idle",
         UNCHANGED <<taskQueue, current, db, handle>>, shutdownFlag' => stage' \in {"joins", "joins!", "over", "thrown"},
         running'[Main] \in {"none", Asked'}, Asked' = "none" => pc'[Main] = "idle",
         \A c \in Callers : running'[c] = running[c],
         stage' \in {"upgrade", "upgrade?", "backup", "backup?", "ready"} => Good,
         stage' \in Queries => running'[Main] # "none",
         tpc' \in {"opens", "signals"} => stage' = "waits"
  PROVE  StageInv'
<1>1. Good' = Good
  BY DEF Good
<1>2. current.who # Main /\ \A i \in DOMAIN taskQueue : taskQueue[i].who # Main
  BY MainAway
<1>3. (Fits(current) /\ \A i \in DOMAIN taskQueue : Fits(taskQueue[i]))'
  BY <1>2 DEF StageInv, Fits
<1> QED
  BY <1>1, <1>2, <1>3 DEF StageInv

LEMMA StageMain ==
  ASSUME SqliteAssumption, CallsInv, BeginInv, StageInv, InitStep \/ shutdownDriver \/ Joined
  PROVE  StageInv'
<1> USE DEF queueVars, taskVars, thread, discVars
<1>1. CASE InitStarts
  <2>1. /\ UNCHANGED <<taskQueue, current, db, handle, pc, running, shutdownFlag>>
        /\ stage' = "waits" /\ stage = "begin"
    BY <1>1 DEF InitStarts
  <2>2. pc[Main] = "idle" /\ running[Main] = "none"
    BY <2>1, MainAway DEF StageInv, Asked, Queries
  <2>3. ~shutdownFlag
    BY <2>1 DEF StageInv
  <2> QED
    BY <2>1, <2>2, <2>3, StageMoves DEF Asked, Queries
<1>2. CASE InitGoesOn
  <2>1. /\ UNCHANGED <<taskQueue, current, db, handle, pc, running, shutdownFlag, tpc>>
        /\ stage \in {"version?", "restore?", "version2?", "create?", "version3?", "upgrade?", "backup?"}
        /\ stage' = AfterAnswer /\ pc[Main] = "idle"
    BY <1>2 DEF InitGoesOn
  <2>2. running[Main] = "none"
    BY <2>1, MainAway
  <2>3. stage' \in {"upgrade", "fails", "create", "restore", "version2", "version3", "thrown", "backup", "ready"}
    BY <2>1 DEF AfterAnswer, AfterVersion, AfterRestore
  <2>4. stage' \in {"upgrade", "backup", "ready"} => Good
    BY <2>1, <2>2 DEF AfterAnswer, AfterVersion, AfterRestore, StageInv, Queries
  <2>5. ~shutdownFlag /\ tpc \notin {"opens", "signals"}
    BY <2>1 DEF StageInv
  <2> QED
    BY <2>1, <2>2, <2>3, <2>4, <2>5, StageMoves DEF Asked, Queries
<1>3. ASSUME NEW from, NEW kind, NEW to, InitAsks(from, kind, to),
             <<from, kind, to>> \in { <<"version", "select", "version?">>, <<"restore", "restore", "restore?">>,
               <<"version2", "select", "version2?">>, <<"create", "init", "create?">>,
               <<"version3", "select", "version3?">>, <<"upgrade", "exec", "upgrade?">>,
               <<"backup", "backup", "backup?">> }
      PROVE StageInv'
  <2>1. /\ UNCHANGED <<taskQueue, current, db, handle, shutdownFlag, tpc>>
        /\ stage = from /\ stage' = to /\ pc[Main] = "idle"
        /\ pc' = [pc EXCEPT ![Main] = "asks"] /\ running' = [running EXCEPT ![Main] = kind]
    BY <1>3 DEF InitAsks, Asks
  <2>2. /\ running'[Main] = kind /\ kind = Asked' /\ kind # "none"
        /\ \A c \in Callers : running'[c] = running[c]
    BY <2>1, <1>3 DEF Asked, Queries, CallsInv, Types, Askers, Main, SqliteAssumption
  <2>3. ~shutdownFlag /\ tpc \notin {"opens", "signals"}
    BY <2>1, <1>3 DEF StageInv
  <2>4. stage' \in {"upgrade", "upgrade?", "backup", "backup?", "ready"} => Good
    BY <2>1, <1>3 DEF StageInv
  <2> QED
    BY <2>1, <2>2, <2>3, <2>4, StageMoves
<1>4. CASE shutdownDriver \/ Joined
  <2>1. /\ UNCHANGED <<taskQueue, current, db, handle, pc, running>>
        /\ stage' \in {"joins", "joins!", "over", "thrown"}
        /\ stage \in {"ready", "fails", "joins", "joins!"}
        /\ tpc' = tpc \/ tpc' = "top"
    BY <1>4 DEF shutdownDriver, Joined, Signal
  <2>2. pc[Main] = "idle" /\ tpc \notin {"opens", "signals"}
    BY <2>1 DEF StageInv, Asked, Queries
  <2>3. running[Main] = "none"
    BY <2>2, MainAway
  <2> QED
    BY <2>1, <2>2, <2>3, StageMoves DEF Asked, Queries
<1> QED
  BY <1>1, <1>2, <1>3, <1>4 DEF InitStep

LEMMA StageThread ==
  ASSUME SqliteAssumption, CallsInv, StageInv, ThreadStep
  PROVE  StageInv'
<1> USE DEF queueVars, taskVars, thread, discVars
<1>1. CASE ThreadOpens
  <2>1. /\ UNCHANGED <<taskQueue, current, stage, pc, running, error, shutdownFlag>>
        /\ tpc = "opens" /\ tpc' \in {"signals", "gone"}
    BY <1>1 DEF ThreadOpens
  <2> QED
    BY <2>1 DEF StageInv, Asked, Queries, Fits
<1>2. CASE ThreadSignals
  <2>1. /\ UNCHANGED <<taskQueue, current, db, handle, pc, running, shutdownFlag>>
        /\ stage = "waits" /\ stage' = "version" /\ tpc' = "top"
    BY <1>2 DEF ThreadSignals, InitWoken
  <2>2. pc[Main] = "idle" /\ ~shutdownFlag
    BY <2>1 DEF StageInv, Asked, Queries
  <2>3. running[Main] = "none"
    BY <2>2, MainAway
  <2> QED
    BY <2>1, <2>2, <2>3, StageMoves DEF Asked, Queries
<1>3. CASE ThreadDequeues
  <2>1. /\ UNCHANGED <<stage, db, handle, pc, running, error, shutdownFlag>>
        /\ tpc' \in {"waits", "runs"}
    BY <1>3 DEF ThreadDequeues
  <2>2. /\ current' = current \/ (taskQueue # <<>> /\ current' = Head(taskQueue))
        /\ taskQueue' = taskQueue \/ (taskQueue # <<>> /\ taskQueue' = Tail(taskQueue))
    BY <1>3 DEF ThreadDequeues
  <2>3. Fits(current') /\ \A i \in DOMAIN taskQueue' : Fits(taskQueue'[i])
    <3>1. taskQueue \in Seq(Tasks)
      BY DEF CallsInv, Types
    <3>2. taskQueue # <<>> => /\ Head(taskQueue) = taskQueue[1] /\ 1 \in DOMAIN taskQueue
                             /\ \A i \in DOMAIN Tail(taskQueue) :
                                  i + 1 \in DOMAIN taskQueue /\ Tail(taskQueue)[i] = taskQueue[i + 1]
      BY <3>1
    <3> QED
      BY <2>2, <3>2 DEF StageInv
  <2> QED
    BY <2>1, <2>3 DEF StageInv, Asked, Queries, Fits, Good
<1>4. ASSUME NEW kind, Runs(kind), tpc' = "notes", UNCHANGED <<queueVars, current, taskVars, stage>>,
             kind \in {"restore", "init"} \/ UNCHANGED <<db, handle>>,
             kind = "select" /\ current.who = Main /\ outcome' # "failed" => Good
      PROVE StageInv'
  <2>1. current.kind = kind /\ Fits(current)
    BY <1>4 DEF Runs, StageInv
  <2>2. Asked' = Asked
    BY <1>4 DEF Asked, Queries
  <2>3. \A t : Fits(t)' <=> Fits(t)
    BY <2>2 DEF Fits
  <2>4. CASE kind \in {"restore", "init"}
    <3>1. stage \in {"restore?", "create?"}
      BY <2>1, <2>4 DEF Fits, Asked, Queries
    <3> QED
      BY <1>4, <2>2, <2>3, <3>1 DEF StageInv, Queries
  <2>5. CASE UNCHANGED <<db, handle>>
    <3>1. Good' = Good
      BY <2>5 DEF Good
    <3>2. stage \in Queries /\ current.who = Main => kind = "select"
      BY <2>1 DEF Fits, Asked, Queries
    <3> QED
      BY <1>4, <2>2, <2>3, <3>1, <3>2 DEF StageInv, Queries
  <2> QED
    BY <1>4, <2>4, <2>5
<1>5. CASE RunSelect \/ RunExec \/ RunBackup \/ RunRestore \/ RunInit
  <2>1. CASE RunSelect
    BY <2>1, <1>4 DEF RunSelect, Ran, Good
  <2>2. CASE RunExec
    BY <2>2, <1>4 DEF RunExec, Ran
  <2>3. CASE RunBackup
    BY <2>3, <1>4 DEF RunBackup, Ran
  <2>4. CASE RunRestore
    BY <2>4, <1>4 DEF RunRestore, Ran
  <2>5. CASE RunInit
    BY <2>5, <1>4 DEF RunInit, Ran
  <2> QED
    BY <1>5, <2>1, <2>2, <2>3, <2>4, <2>5
<1>6. CASE ThreadNotes
  <2>1. /\ UNCHANGED <<taskQueue, stage, db, handle, shutdownFlag>>
        /\ current' = NoTask /\ tpc' = "top" /\ tpc = "notes"
    BY <1>6 DEF ThreadNotes
  <2>2. /\ Asked' = Asked /\ Good' = Good /\ Main \in Askers /\ Callers \subseteq Askers
        /\ \A t : Fits(t)' <=> Fits(t)
    BY <2>1 DEF Asked, Queries, Good, Fits, Askers
  <2>3. Fits(NoTask)
    BY DEF Fits, NoTask, Main
  <2>4. /\ \A c \in Askers : running'[c] \in {"none", running[c]}
        /\ pc[Main] = "idle" => pc'[Main] = "idle"
        /\ current.who # Main => running'[Main] = running[Main] /\ error'[Main] = error[Main]
        /\ current.who = Main => error'[Main] = (outcome = "failed")
    <3>1. CASE current.who = "timer"
      <4>1. Main # "timer" /\ UNCHANGED <<pc, running, error>>
        BY <1>6, <3>1 DEF ThreadNotes, Main
      <4> QED
        BY <3>1, <4>1
    <3>2. CASE current.who # "timer"
      <4>1. Answered(current.who, outcome = "failed")
        BY <1>6, <3>2 DEF ThreadNotes
      <4>2. /\ \A c \in Askers : running'[c] \in {"none", running[c]}
            /\ pc[Main] = "idle" => pc'[Main] = "idle"
            /\ current.who # Main => running'[Main] = running[Main]
        BY <2>2, <4>1 DEF Answered, CallsInv, Types
      <4>3. /\ current.who # Main => error'[Main] = error[Main]
            /\ current.who = Main => error'[Main] = (outcome = "failed")
        BY <2>2, <4>1 DEF Answered, CallsInv, Types
      <4> QED
        BY <4>2, <4>3
    <3> QED
      BY <3>1, <3>2
  <2>5. stage \in Queries /\ running'[Main] = "none" /\ ~error'[Main] => Good
    BY <2>1, <2>4 DEF StageInv
  <2> QED
    BY <2>1, <2>2, <2>3, <2>4, <2>5 DEF StageInv
<1>7. CASE ThreadEnds
  <2>1. /\ UNCHANGED <<stage, current, shutdownFlag>> /\ shutdownFlag
        /\ taskQueue' = <<>> /\ tpc' = "gone"
    BY <1>7 DEF ThreadEnds
  <2>2. /\ \A c \in Askers : running'[c] \in {"none", running[c]}
        /\ pc[Main] = "idle" => pc'[Main] = "idle" /\ Main \in Askers /\ Callers \subseteq Askers
    BY <1>7 DEF ThreadEnds, Askers
  <2>3. stage \in {"joins", "joins!", "over", "thrown"}
    BY <2>1 DEF StageInv
  <2>4. Main \in Askers /\ Callers \subseteq Askers
    BY DEF Askers
  <2> QED
    BY <2>1, <2>2, <2>3, <2>4 DEF StageInv, Asked, Queries, Fits
<1> QED
  BY <1>1, <1>2, <1>3, <1>5, <1>6, <1>7 DEF ThreadStep

LEMMA StageStep ==
  ASSUME SqliteAssumption, CallsInv, BeginInv, StageInv, [Next]_vars PROVE StageInv'
<1>1. CASE UNCHANGED vars
  BY <1>1 DEF vars, StageInv, Asked, Queries, Fits, Good
<1>2. CASE timerNotify
  <2>1. Main \in Askers
    BY DEF Askers
  <2> QED
    BY <1>2, <2>1, StageQueue
<1> QED
  BY <1>1, <1>2, StageQueue, StageMain, StageThread DEF Next, Waiting

(***************************************************************************)
(* The backup                                                              *)
(***************************************************************************)
LEMMA DirtyStep == ASSUME BeginInv, DirtyInv, [Next]_vars PROVE DirtyInv'
<1> USE DEF DirtyInv, BackupsCoverChanges, discVars, queueVars, thread
<1>1. CASE /\ UNCHANGED <<changed, dirty>>
           /\ (tpc' = tpc /\ outcome' = outcome) \/ (tpc # "notes" /\ tpc' # "notes")
  BY <1>1
<1>2. CASE RunSelect
  BY <1>2 DEF RunSelect, Ran, Runs
<1>3. CASE RunExec
  <2>1. PICK ok \in BOOLEAN : Ran(IF ok THEN "contaminated" ELSE "failed") /\ changed' = (changed \/ ok)
    BY <1>3 DEF RunExec
  <2>2. CASE ok
    BY <2>1, <2>2 DEF Ran
  <2>3. CASE ~ok
    <3>1. /\ tpc' = "notes" /\ outcome' = "failed" /\ UNCHANGED dirty
          /\ tpc = "runs" /\ (changed' => changed)
      BY <1>3, <2>1, <2>3, Zenon DEF Ran, RunExec, Runs
    <3> QED
      BY <3>1
  <2> QED
    BY <2>2, <2>3
<1>4. CASE RunBackup
  BY <1>4 DEF RunBackup, Ran, Runs, NotCopied
<1>5. CASE RunRestore
  BY <1>5 DEF RunRestore, Ran, Runs
<1>6. CASE RunInit
  BY <1>6 DEF RunInit, Ran, Runs
<1>7. CASE ThreadNotes
  BY <1>7 DEF ThreadNotes
<1>8. CASE InitStep \/ shutdownDriver \/ Joined
  BY <1>8, <1>1 DEF BeginInv, InitStep, InitStarts, InitGoesOn, InitAsks, shutdownDriver, Joined, Signal
<1>9. CASE ThreadOpens \/ ThreadSignals \/ ThreadDequeues \/ ThreadEnds
  BY <1>9, <1>1 DEF ThreadOpens, ThreadSignals, ThreadDequeues, ThreadEnds
<1>10. CASE timerNotify \/ UNCHANGED vars
  BY <1>10, <1>1 DEF timerNotify, Signal, vars
<1>11. ASSUME NEW c \in Askers, Call(c) \/ Waiting(c) PROVE DirtyInv'
  BY <1>11, <1>1 DEF Call, Waiting, addTask, TestRunning, TestAndWait, Signal
<1> QED
  BY <1>2, <1>3, <1>4, <1>5, <1>6, <1>7, <1>8, <1>9, <1>10, <1>11 DEF Next, ThreadStep

(***************************************************************************)
(* The theorems                                                            *)
(***************************************************************************)
LEMMA StepIInv == ASSUME SqliteAssumption, IInv, [Next]_vars PROVE IInv'
BY CallsStep, BeginStep, StageStep, DirtyStep DEF IInv

LEMMA IInvImplies == ASSUME IInv PROVE OnlyWhenDone /\ InitLeavesGoodDatabase /\ BackupsCoverChanges
<1>1. OnlyWhenDone
  BY DEF IInv, CallsInv, CallInv, Absent, OnlyWhenDone
<1>2. InitLeavesGoodDatabase
  BY DEF IInv, StageInv, Good, InitLeavesGoodDatabase
<1>3. BackupsCoverChanges
  BY DEF IInv, DirtyInv
<1> QED
  BY <1>1, <1>2, <1>3

(* The invariant holds in every reachable state.                           *)
THEOREM DriverInvariant == SqliteAssumption => (Spec => []IInv)
<1> SUFFICES ASSUME SqliteAssumption PROVE Spec => []IInv
  OBVIOUS
<1>1. Init => IInv
  BY InitIInv
<1>2. IInv /\ [Next]_vars => IInv'
  BY StepIInv
<1> QED
  BY <1>1, <1>2, PTL DEF Spec

(* A caller that comes back from waitForTask() has a complete answer: its  *)
(* task is neither queued nor at work, although the flag is looked at      *)
(* first without a mutex.                                                  *)
THEOREM AnswersAreComplete == SqliteAssumption => (Spec => []OnlyWhenDone)
<1>1. IInv => OnlyWhenDone
  BY IInvImplies
<1> QED
  BY <1>1, DriverInvariant, PTL

(* When init() has come to its end the database can be read, whatever it   *)
(* found on the disk and whatever failed on the way.                       *)
THEOREM InitIsSound == SqliteAssumption => (Spec => []InitLeavesGoodDatabase)
<1>1. IInv => InitLeavesGoodDatabase
  BY IInvImplies
<1> QED
  BY <1>1, DriverInvariant, PTL

(* The flag dirty, which the thread writes without the mutex, covers every *)
(* change since the last backup (threadProc(), SLBackupTask::run()).       *)
THEOREM BackupsAreDue == SqliteAssumption => (Spec => []BackupsCoverChanges)
<1>1. IInv => BackupsCoverChanges
  BY IInvImplies
<1> QED
  BY <1>1, DriverInvariant, PTL

(***************************************************************************)
(* The cache and the insert buffer                                         *)
(***************************************************************************)
\* Only w adds and removes, or only w writes at all: no lock of the code covers
\* an operation as a whole, and two of them could find the same file missing.
OneAdder(w)  == \A u \in Users \ {w} : Does[u] \subseteq {"update", "count"}
OneWriter(w) == \A u \in Users \ {w} : Does[u] \subseteq {"count"}

Operations == {"none", "add", "update", "remove", "count"}
Steps == {"idle", "query", "insert", "remember", "flush", "exec", "delete", "clear"}

\* What an operation may have read: a version, or a number of rows.
Values == Nat \union {Cache!Cardinality(S) : S \in SUBSET CacheFiles}

CacheTypes ==
  /\ sc_row \in [CacheFiles -> Nat] /\ sc_buffered \in [CacheFiles -> Nat]
  /\ sc_cached \in [CacheFiles -> Nat] /\ sc_located \subseteq CacheFiles
  /\ sc_broken = FALSE
  /\ sc_op \in [Users -> [name : Operations, at : Steps,
                         file : CacheFiles \union {"none"}, got : Values]]
  /\ \A u \in Users : sc_op[u].name # "none" => /\ sc_op[u].name \in Does[u]
                                              /\ sc_op[u].file \in CacheFiles
  /\ \A u \in Users : Cache!At(u, "update", "remember") => sc_op[u].got \in Nat

\* Of a row that waits the cache knows the location, or w is about to tell it.
\* What w found missing is still missing when it writes, and no row waits when
\* w empties the cache.
RowInv(w) ==
  /\ \A f \in Cache!Pending :
       /\ sc_buffered[f] = Cache!Created /\ sc_row[f] = Cache!Absent
       /\ f \in sc_located \/ (Cache!At(w, "add", "remember") /\ sc_op[w].file = f)
  /\ Cache!At(w, "add", "query") => sc_op[w].file \notin Cache!Pending
  /\ Cache!At(w, "add", "insert") => sc_op[w].file \notin Cache!Pending \union Cache!Rows
  /\ Cache!At(w, "remove", "delete") \/ Cache!At(w, "remove", "clear") => Cache!Pending = {}

\* The cache finds by location what it knows, and it is the version that a query
\* after a flush would read, but for the file that w is writing.
CurrentInv(w) ==
  /\ Cache!Known = sc_located
  /\ \A f \in Cache!Known :
       \/ sc_cached[f] = Cache!Written[f]
       \/ Cache!At(w, "update", "remember") /\ sc_op[w].file = f
       \/ Cache!At(w, "remove", "clear") /\ sc_op[w].file = f
  /\ sc_op[w].name = "add" /\ sc_op[w].at \in {"query", "insert", "remember"} =>
       sc_op[w].file \notin Cache!Known
  /\ Cache!At(w, "add", "remember") => Cache!Written[sc_op[w].file] = Cache!Created
  /\ Cache!At(w, "update", "flush") => Cache!Written[sc_op[w].file] # Cache!Absent
  /\ Cache!At(w, "update", "exec") =>
       Cache!Pending = {} /\ sc_row[sc_op[w].file] # Cache!Absent
  /\ Cache!At(w, "update", "remember") =>
       /\ Cache!Pending = {} /\ sc_row[sc_op[w].file] = sc_op[w].got
       /\ sc_op[w].got # Cache!Absent


LEMMA CacheStarts ==
  ASSUME Cache!Init, NEW w \in Users PROVE CacheTypes /\ RowInv(w) /\ CurrentInv(w)
<1>1. CacheTypes
  BY DEF CacheTypes, Cache!Init, Cache!Idle, Cache!Absent, Cache!At, Operations, Steps, Values
<1>2. sc_op[w].name = "none" /\ Cache!Pending = {} /\ Cache!Known = {} /\ sc_located = {}
  BY DEF Cache!Init, Cache!Idle, Cache!Pending, Cache!Known
<1>3. RowInv(w) /\ CurrentInv(w)
  BY <1>2 DEF RowInv, CurrentInv, Cache!At
<1> QED BY <1>1, <1>3

LEMMA BeginsAs ==
  ASSUME NEW n \in Operations, NEW f \in CacheFiles, NEW a \in Steps
  PROVE  LET r == [Cache!Idle EXCEPT !.name = n, !.file = f, !.at = a] IN
         /\ r \in [name : Operations, at : Steps, file : CacheFiles \union {"none"}, got : Values]
         /\ r.name = n /\ r.file = f /\ r.at = a
<1>1. PICK i \in [name : Operations, at : Steps, file : CacheFiles \union {"none"}, got : Values] :
        i = Cache!Idle
  BY DEF Cache!Idle, Operations, Steps, Values
<1>2. LET r == [i EXCEPT !.name = n, !.file = f, !.at = a] IN
      /\ r \in [name : Operations, at : Steps, file : CacheFiles \union {"none"}, got : Values]
      /\ r.name = n /\ r.file = f /\ r.at = a
  OBVIOUS
<1> QED BY <1>1, <1>2

\* What the operators that a step is made of do to op.
LEMMA OpTypes ==
  ASSUME CacheTypes, NEW t \in Users
  PROVE  /\ \A a \in Steps : Cache!To(t, a) =>
              /\ sc_op' \in [Users -> [name : Operations, at : Steps,
                                       file : CacheFiles \union {"none"}, got : Values]]
              /\ sc_op'[t].name = sc_op[t].name /\ sc_op'[t].at = a
              /\ sc_op'[t].file = sc_op[t].file /\ sc_op'[t].got = sc_op[t].got
         /\ \A a \in Steps, v \in Values : Cache!Reads(t, a, v) =>
              /\ sc_op' \in [Users -> [name : Operations, at : Steps,
                                       file : CacheFiles \union {"none"}, got : Values]]
              /\ sc_op'[t].name = sc_op[t].name /\ sc_op'[t].at = a
              /\ sc_op'[t].file = sc_op[t].file /\ sc_op'[t].got = v
         /\ Cache!Done(t) =>
              /\ sc_op' \in [Users -> [name : Operations, at : Steps,
                                       file : CacheFiles \union {"none"}, got : Values]]
              /\ sc_op'[t].name = "none"
         /\ \A n \in Operations \ {"none"}, f \in CacheFiles, a \in Steps : Cache!Begin(t, n, f, a) =>
              /\ sc_op' \in [Users -> [name : Operations, at : Steps,
                                       file : CacheFiles \union {"none"}, got : Values]]
              /\ sc_op'[t].name = n /\ sc_op'[t].at = a /\ sc_op'[t].file = f
              /\ n \in Does[t] /\ sc_op[t].name = "none"
<1> DEFINE R == [name : Operations, at : Steps, file : CacheFiles \union {"none"}, got : Values]
<1>0. sc_op \in [Users -> R] /\ sc_op[t] \in R
  BY DEF CacheTypes
<1>1. ASSUME NEW a \in Steps, Cache!To(t, a)
      PROVE  /\ sc_op' \in [Users -> R]
             /\ sc_op'[t].name = sc_op[t].name /\ sc_op'[t].at = a
             /\ sc_op'[t].file = sc_op[t].file /\ sc_op'[t].got = sc_op[t].got
  BY <1>0, <1>1 DEF Cache!To
<1>2. ASSUME NEW a \in Steps, NEW v \in Values, Cache!Reads(t, a, v)
      PROVE  /\ sc_op' \in [Users -> R]
             /\ sc_op'[t].name = sc_op[t].name /\ sc_op'[t].at = a
             /\ sc_op'[t].file = sc_op[t].file /\ sc_op'[t].got = v
  BY <1>0, <1>2 DEF Cache!Reads
<1>3. ASSUME Cache!Done(t)
      PROVE  sc_op' \in [Users -> R] /\ sc_op'[t].name = "none"
  BY <1>0, <1>3 DEF Cache!Done, Cache!Idle, Operations, Steps, Values
<1>4. ASSUME NEW n \in Operations \ {"none"}, NEW f \in CacheFiles, NEW a \in Steps,
             Cache!Begin(t, n, f, a)
      PROVE  /\ sc_op' \in [Users -> R] /\ n \in Does[t] /\ sc_op[t].name = "none"
             /\ sc_op'[t].name = n /\ sc_op'[t].at = a /\ sc_op'[t].file = f
  <2> DEFINE r == [Cache!Idle EXCEPT !.name = n, !.file = f, !.at = a]
  <2>1. r \in R /\ r.name = n /\ r.file = f /\ r.at = a
    BY BeginsAs
  <2>2. sc_op[t].name = "none" /\ n \in Does[t] /\ sc_op' = [sc_op EXCEPT ![t] = r]
    <3>1. sc_op[t] = Cache!Idle /\ n \in Does[t] /\ sc_op' = [sc_op EXCEPT ![t] = r]
      BY <1>4 DEF Cache!Begin
    <3> QED BY <3>1 DEF Cache!Idle
  <2> HIDE DEF r
  <2> QED BY <1>0, <2>1, <2>2
<1> QED BY <1>1, <1>2, <1>3, <1>4

\* What FlushOK leaves, and that nothing fails.
Flushed ==
  /\ sc_row' \in [CacheFiles -> Nat] /\ sc_buffered' \in [CacheFiles -> Nat]
  /\ sc_broken' = FALSE
  /\ \A f \in CacheFiles : sc_row'[f] = Cache!Written[f] /\ sc_buffered'[f] = Cache!Absent

LEMMA FlushWrites ==
  ASSUME CacheTypes, Cache!FlushOK PROVE Flushed
<1>1. Cache!Written \in [CacheFiles -> Nat]
  BY DEF CacheTypes, Cache!Written
<1> QED BY <1>1 DEF CacheTypes, Cache!FlushOK, Flushed, Cache!Absent

LEMMA FlushSucceeds ==
  ASSUME CacheTypes, ~MayFail PROVE ~Cache!FlushFails
BY DEF CacheTypes, Cache!FlushFails

\* What a flush means for the sets and the versions.
LEMMA FlushMeans ==
  ASSUME CacheTypes, Flushed
  PROVE  /\ Cache!Pending' = {}
         /\ Cache!Rows' = Cache!Rows \union Cache!Pending
         /\ \A f \in CacheFiles : Cache!Written'[f] = Cache!Written[f]
<1>1. Cache!Pending' = {}
  BY DEF Flushed, Cache!Pending
<1>2. \A f \in CacheFiles : Cache!Written[f] = IF sc_buffered[f] # Cache!Absent THEN sc_buffered[f]
                                               ELSE sc_row[f]
  BY DEF Cache!Written
<1>3. \A f \in CacheFiles : Cache!Written'[f] = IF sc_buffered'[f] # Cache!Absent
                                                THEN sc_buffered'[f] ELSE sc_row'[f]
  BY DEF Cache!Written, Cache!Absent
<1>4. \A f \in CacheFiles : Cache!Written'[f] = Cache!Written[f]
  BY <1>3 DEF Flushed
<1>5. Cache!Rows' = Cache!Rows \union Cache!Pending
  BY <1>2 DEF Flushed, Cache!Rows, Cache!Pending, Cache!Absent
<1> QED BY <1>1, <1>4, <1>5

\* Where the rows are as they were, so is what is made of them.
LEMMA RowsStay ==
  ASSUME UNCHANGED <<sc_row, sc_buffered>>
  PROVE  UNCHANGED <<Cache!Pending, Cache!Rows, Cache!Written>>
BY DEF Cache!Pending, Cache!Rows, Cache!Written

\* Remember() adds to the cache, or has the buffer flushed and begins anew.
Remembered(f, v) ==
  \/ /\ UNCHANGED <<sc_row, sc_buffered, sc_broken>>
     /\ sc_cached' = [sc_cached EXCEPT ![f] = v]
     /\ sc_located' = sc_located \union {f}
  \/ /\ Flushed
     /\ sc_cached' = [g \in CacheFiles |-> IF g = f THEN v ELSE Cache!Absent]
     /\ sc_located' = {f}

LEMMA Remembers ==
  ASSUME CacheTypes, ~MayFail, NEW f \in CacheFiles, NEW v \in Nat, Cache!Remember(f, v)
  PROVE  Remembered(f, v)
<1>1. CASE f \notin Cache!Known /\ Cache!MustEmpty
  <2>1. Cache!FlushOK
    BY <1>1, FlushSucceeds DEF Cache!Remember, Cache!FlushIf
  <2> QED BY <1>1, <2>1, FlushWrites DEF Cache!Remember, Remembered
<1>2. CASE ~(f \notin Cache!Known /\ Cache!MustEmpty)
  BY <1>2 DEF Cache!Remember, Cache!FlushIf, Cache!NoFlush, Remembered
<1> QED BY <1>1, <1>2

\* RememberCount() leaves the cache alone, or has it emptied and the buffer flushed.
Counted ==
  \/ UNCHANGED <<sc_row, sc_buffered, sc_broken, sc_cached, sc_located>>
  \/ Flushed /\ sc_cached' = [f \in CacheFiles |-> Cache!Absent] /\ sc_located' = {}

LEMMA RemembersCount ==
  ASSUME CacheTypes, ~MayFail, NEW t \in Users, Cache!RememberCount(t)
  PROVE  Counted
<1>1. CASE ~sc_entry /\ Cache!MustEmpty
  <2>1. Cache!FlushOK
    BY <1>1, FlushSucceeds DEF Cache!RememberCount, Cache!FlushIf
  <2> QED BY <1>1, <2>1, FlushWrites DEF Cache!RememberCount, Counted
<1>2. CASE ~(~sc_entry /\ Cache!MustEmpty)
  BY <1>2 DEF Cache!RememberCount, Cache!FlushIf, Cache!NoFlush, Counted
<1> QED BY <1>1, <1>2

\* After a flush, after Remember() and after RememberCount() the types are right.
LEMMA EffectTypes ==
  ASSUME CacheTypes,
         \/ UNCHANGED <<sc_row, sc_buffered, sc_broken, sc_cached, sc_located>>
         \/ Flushed /\ UNCHANGED <<sc_cached, sc_located>>
         \/ \E f \in CacheFiles, v \in Nat : Remembered(f, v)
         \/ Counted
  PROVE  /\ sc_row' \in [CacheFiles -> Nat] /\ sc_buffered' \in [CacheFiles -> Nat]
         /\ sc_cached' \in [CacheFiles -> Nat] /\ sc_located' \subseteq CacheFiles
         /\ sc_broken' = FALSE
<1>1. CASE UNCHANGED <<sc_row, sc_buffered, sc_broken, sc_cached, sc_located>>
  BY <1>1 DEF CacheTypes
<1>2. CASE Flushed /\ UNCHANGED <<sc_cached, sc_located>>
  BY <1>2 DEF CacheTypes, Flushed
<1>3. CASE \E f \in CacheFiles, v \in Nat : Remembered(f, v)
  <2>1. PICK f \in CacheFiles, v \in Nat : Remembered(f, v)
    BY <1>3
  <2> QED BY <2>1 DEF CacheTypes, Remembered, Flushed, Cache!Absent
<1>4. CASE Counted
  BY <1>4 DEF CacheTypes, Counted, Flushed, Cache!Absent
<1> QED BY <1>1, <1>2, <1>3, <1>4

\* What happens to op in a step of t: it begins an operation, goes on or is done.
Moves(t) ==
  /\ sc_op' \in [Users -> [name : Operations, at : Steps,
                           file : CacheFiles \union {"none"}, got : Values]]
  /\ \A u \in Users \ {t} : sc_op'[u] = sc_op[u]
  /\ \/ sc_op'[t].name = "none"
     \/ /\ sc_op'[t].name = sc_op[t].name /\ sc_op'[t].file = sc_op[t].file
     \/ /\ sc_op[t].name = "none" /\ sc_op'[t].name \in Does[t]
        /\ sc_op'[t].file \in CacheFiles

LEMMA MovesTypes ==
  ASSUME CacheTypes, NEW t \in Users, Moves(t)
  PROVE  /\ sc_op' \in [Users -> [name : Operations, at : Steps,
                                  file : CacheFiles \union {"none"}, got : Values]]
         /\ \A u \in Users : sc_op'[u].name # "none" => /\ sc_op'[u].name \in Does[u]
                                                      /\ sc_op'[u].file \in CacheFiles
BY DEF CacheTypes, Moves

LEMMA OpMoves ==
  ASSUME CacheTypes, NEW t \in Users
  PROVE  /\ \A a \in Steps : Cache!To(t, a) => Moves(t)
         /\ \A a \in Steps, v \in Values : Cache!Reads(t, a, v) => Moves(t)
         /\ Cache!Done(t) => Moves(t)
         /\ \A n \in Operations \ {"none"}, f \in CacheFiles, a \in Steps :
              Cache!Begin(t, n, f, a) => Moves(t)
<1>1. ASSUME NEW x, sc_op' = [sc_op EXCEPT ![t] = x]
      PROVE  \A u \in Users \ {t} : sc_op'[u] = sc_op[u]
  BY <1>1 DEF CacheTypes
<1>2. ASSUME NEW a \in Steps, Cache!To(t, a) PROVE Moves(t)
  <2>1. \A u \in Users \ {t} : sc_op'[u] = sc_op[u]
    BY <1>2 DEF Cache!To, CacheTypes
  <2> QED BY <1>2, <2>1, OpTypes DEF Moves
<1>3. ASSUME NEW a \in Steps, NEW v \in Values, Cache!Reads(t, a, v) PROVE Moves(t)
  <2>1. \A u \in Users \ {t} : sc_op'[u] = sc_op[u]
    BY <1>3 DEF Cache!Reads, CacheTypes
  <2> QED BY <1>3, <2>1, OpTypes DEF Moves
<1>4. ASSUME Cache!Done(t) PROVE Moves(t)
  <2>1. \A u \in Users \ {t} : sc_op'[u] = sc_op[u]
    BY <1>1, <1>4 DEF Cache!Done
  <2> QED BY <1>4, <2>1, OpTypes DEF Moves
<1>5. ASSUME NEW n \in Operations \ {"none"}, NEW f \in CacheFiles, NEW a \in Steps,
             Cache!Begin(t, n, f, a)
      PROVE  Moves(t)
  <2>1. \A u \in Users \ {t} : sc_op'[u] = sc_op[u]
    BY <1>1, <1>5 DEF Cache!Begin
  <2>2. /\ sc_op' \in [Users -> [name : Operations, at : Steps,
                                 file : CacheFiles \union {"none"}, got : Values]]
        /\ sc_op'[t].name = n /\ sc_op'[t].file = f /\ n \in Does[t] /\ sc_op[t].name = "none"
    BY <1>5, OpTypes
  <2> QED BY <2>1, <2>2 DEF Moves
<1> QED BY <1>2, <1>3, <1>4, <1>5

\* How the operations of t begin, go on and end, one case for each section.
Quiet == UNCHANGED <<sc_row, sc_buffered, sc_broken, sc_cached, sc_located>>

Goes(t, name, from, to) ==
  /\ Cache!At(t, name, from)
  /\ sc_op'[t].name = name /\ sc_op'[t].at = to /\ sc_op'[t].file = sc_op[t].file
Ends(t, name, from) == Cache!At(t, name, from) /\ sc_op'[t].name = "none"
Begins(t, name, to) ==
  /\ sc_op[t].name = "none" /\ name \in Does[t]
  /\ sc_op'[t].name = name /\ sc_op'[t].at = to /\ sc_op'[t].file \in CacheFiles

Adds(t) ==
  \/ Begins(t, "add", "idle") /\ Quiet
  \/ Begins(t, "add", "query") /\ sc_op'[t].file \notin sc_located /\ Quiet
  \/ Ends(t, "add", "query") /\ Quiet
  \/ Goes(t, "add", "query", "insert") /\ sc_op[t].file \notin Cache!Rows /\ Quiet
  \/ /\ Goes(t, "add", "insert", "remember")
     /\ sc_buffered' = [sc_buffered EXCEPT ![sc_op[t].file] = @ + Cache!Created]
     /\ UNCHANGED <<sc_row, sc_broken, sc_cached, sc_located>>
  \/ Ends(t, "add", "remember") /\ Remembered(sc_op[t].file, Cache!Created)

Updates(t) ==
  \/ /\ Begins(t, "update", "flush") /\ sc_op'[t].file \in Cache!Known \union Cache!Rows
     /\ Quiet
  \/ Goes(t, "update", "flush", "exec") /\ Flushed /\ UNCHANGED <<sc_cached, sc_located>>
  \/ /\ Goes(t, "update", "exec", "remember")
     /\ sc_op'[t].got \in Cache!Versions
     /\ sc_row' = IF sc_op[t].file \in Cache!Rows
                  THEN [sc_row EXCEPT ![sc_op[t].file] = sc_op'[t].got] ELSE sc_row
     /\ UNCHANGED <<sc_buffered, sc_broken, sc_cached, sc_located>>
  \/ Ends(t, "update", "remember") /\ Remembered(sc_op[t].file, sc_op[t].got)

Removes(t) ==
  \/ Begins(t, "remove", "flush") /\ Quiet
  \/ Goes(t, "remove", "flush", "delete") /\ Flushed /\ UNCHANGED <<sc_cached, sc_located>>
  \/ /\ Goes(t, "remove", "delete", "clear")
     /\ sc_row' = [sc_row EXCEPT ![sc_op[t].file] = Cache!Absent]
     /\ UNCHANGED <<sc_buffered, sc_broken, sc_cached, sc_located>>
  \/ /\ Ends(t, "remove", "clear")
     /\ sc_cached' = [f \in CacheFiles |-> Cache!Absent] /\ sc_located' = {}
     /\ UNCHANGED <<sc_row, sc_buffered, sc_broken>>

Counts(t) ==
  \/ Begins(t, "count", "flush") /\ Quiet
  \/ Goes(t, "count", "flush", "query") /\ Flushed /\ UNCHANGED <<sc_cached, sc_located>>
  \/ Goes(t, "count", "query", "remember") /\ Quiet
  \/ Ends(t, "count", "remember") /\ Counted

Returns(t) == sc_op[t].at = "idle" /\ sc_op'[t].name = "none" /\ Quiet

CacheSteps(t) == Moves(t) /\ (Adds(t) \/ Updates(t) \/ Removes(t) \/ Counts(t) \/ Returns(t))

LEMMA AddSteps ==
  ASSUME CacheTypes, ~MayFail, NEW t \in Users,
         \/ Cache!FindInCache(t) \/ Cache!FindInRows(t) \/ Cache!Insert(t) \/ Cache!RememberNew(t)
  PROVE  Moves(t) /\ Adds(t)
<1> USE DEF Quiet, Cache!cache
<1>0. sc_op[t].file \in CacheFiles \union {"none"} /\ Cache!Created \in Nat
  BY DEF CacheTypes, Cache!Created
<1>1. CASE Cache!FindInCache(t)
  <2>1. PICK f \in CacheFiles :
          Cache!Begin(t, "add", f, IF f \in sc_located THEN "idle" ELSE "query")
    BY <1>1 DEF Cache!FindInCache
  <2>2. PICK a \in Steps : a = IF f \in sc_located THEN "idle" ELSE "query"
    BY DEF Steps
  <2>3. "add" \in Operations \ {"none"} /\ Cache!Begin(t, "add", f, a)
    BY <2>1, <2>2 DEF Operations
  <2>4. Moves(t)
    BY <2>3, OpMoves
  <2>5. /\ sc_op'[t].name = "add" /\ sc_op'[t].at = a /\ sc_op'[t].file = f
        /\ "add" \in Does[t] /\ sc_op[t].name = "none"
    BY <2>3, OpTypes
  <2> QED BY <1>1, <2>2, <2>4, <2>5 DEF Adds, Begins, Cache!FindInCache
<1>2. CASE Cache!FindInRows(t)
  <2>1. CASE sc_op[t].file \in Cache!Rows
    BY <1>2, <2>1, OpMoves, OpTypes DEF Adds, Ends, Cache!FindInRows
  <2>2. CASE sc_op[t].file \notin Cache!Rows
    <3>1. Cache!To(t, "insert") /\ "insert" \in Steps
      BY <1>2, <2>2 DEF Cache!FindInRows, Steps
    <3>2. Moves(t)
      BY <3>1, OpMoves
    <3>3. sc_op'[t].name = sc_op[t].name /\ sc_op'[t].at = "insert" /\ sc_op'[t].file = sc_op[t].file
      BY <3>1, OpTypes
    <3> QED BY <1>2, <2>2, <3>2, <3>3 DEF Adds, Goes, Cache!FindInRows, Cache!At
  <2> QED BY <2>1, <2>2
<1>3. CASE Cache!Insert(t)
  <2>1. Cache!To(t, "remember") /\ "remember" \in Steps
    BY <1>3 DEF Cache!Insert, Steps
  <2>2. Moves(t)
    BY <2>1, OpMoves
  <2>3. sc_op'[t].name = sc_op[t].name /\ sc_op'[t].at = "remember" /\ sc_op'[t].file = sc_op[t].file
    BY <2>1, OpTypes
  <2> QED BY <1>3, <2>2, <2>3 DEF Adds, Goes, Cache!Insert, Cache!At
<1>4. CASE Cache!RememberNew(t)
  <2>1. Moves(t) /\ Ends(t, "add", "remember")
    BY <1>4, OpMoves, OpTypes DEF Ends, Cache!RememberNew
  <2>2. sc_op[t].file \in CacheFiles
    BY <1>4 DEF Cache!RememberNew, Cache!At, CacheTypes
  <2>3. Remembered(sc_op[t].file, Cache!Created)
    BY <1>0, <1>4, <2>2, Remembers DEF Cache!RememberNew
  <2> QED BY <2>1, <2>3 DEF Adds
<1> QED BY <1>1, <1>2, <1>3, <1>4

\* A step that only goes on to `to'.
LEMMA GoesOn ==
  ASSUME CacheTypes, NEW t \in Users, NEW name, NEW from, NEW to \in Steps,
         Cache!At(t, name, from), Cache!To(t, to)
  PROVE  Moves(t) /\ Goes(t, name, from, to)
<1>1. Moves(t)
  BY OpMoves
<1>2. sc_op'[t].name = sc_op[t].name /\ sc_op'[t].at = to /\ sc_op'[t].file = sc_op[t].file
  BY OpTypes
<1> QED BY <1>1, <1>2 DEF Goes, Cache!At

\* A step that starts an operation.
LEMMA StartsWith ==
  ASSUME CacheTypes, NEW t \in Users, NEW name \in Operations \ {"none"}, NEW f \in CacheFiles,
         NEW to \in Steps, Cache!Begin(t, name, f, to)
  PROVE  Moves(t) /\ Begins(t, name, to) /\ sc_op'[t].file = f
<1>1. Moves(t)
  BY OpMoves
<1>2. /\ sc_op'[t].name = name /\ sc_op'[t].at = to /\ sc_op'[t].file = f
      /\ name \in Does[t] /\ sc_op[t].name = "none"
  BY OpTypes
<1> QED BY <1>1, <1>2 DEF Begins

LEMMA EndsIt ==
  ASSUME CacheTypes, NEW t \in Users, Cache!Done(t)
  PROVE  Moves(t) /\ sc_op'[t].name = "none"
BY OpMoves, OpTypes

\* A flush as the first section: that it fails is excluded.
LEMMA FlushesFirst ==
  ASSUME CacheTypes, ~MayFail, NEW t \in Users, NEW name, NEW to \in Steps,
         Cache!At(t, name, "flush"), Cache!FlushFirst(t, to)
  PROVE  Moves(t) /\ Goes(t, name, "flush", to) /\ Flushed
<1>1. Cache!FlushOK /\ Cache!To(t, to)
  BY FlushSucceeds DEF Cache!FlushFirst
<1> QED BY <1>1, FlushWrites, GoesOn

LEMMA UpdateSteps ==
  ASSUME CacheTypes, ~MayFail, NEW t \in Users,
         Cache!StorageCacheAssumption,
         Cache!UpdateFlush(t) \/ Cache!UpdateRow(t) \/ Cache!UpdateCache(t)
  PROVE  Moves(t) /\ Updates(t)
<1> USE DEF Quiet, Cache!cache
<1>0. "flush" \in Steps /\ "exec" \in Steps /\ "remember" \in Steps /\ "update" \in Operations \ {"none"}
  BY DEF Steps, Operations
<1>1. CASE Cache!UpdateFlush(t)
  <2>1. CASE \E f \in Cache!Known \union Cache!Rows :
               Cache!Begin(t, "update", f, "flush") /\ UNCHANGED <<sc_row, sc_buffered, sc_broken, Cache!cache>>
    <3>1. PICK f \in Cache!Known \union Cache!Rows : Cache!Begin(t, "update", f, "flush")
      BY <2>1
    <3>2. f \in CacheFiles
      BY DEF Cache!Known, Cache!Rows
    <3>3. Moves(t) /\ Begins(t, "update", "flush") /\ sc_op'[t].file = f
      BY <1>0, <3>1, <3>2, StartsWith
    <3> QED BY <2>1, <3>1, <3>3 DEF Updates
  <2>2. CASE Cache!At(t, "update", "flush") /\ Cache!FlushFirst(t, "exec") /\ UNCHANGED Cache!cache
    <3>1. Moves(t) /\ Goes(t, "update", "flush", "exec") /\ Flushed
      BY <1>0, <2>2, FlushesFirst
    <3> QED BY <2>2, <3>1 DEF Updates
  <2> QED BY <1>1, <2>1, <2>2 DEF Cache!UpdateFlush
<1>2. CASE Cache!UpdateRow(t)
  <2>1. PICK v \in Cache!Versions \ {sc_row[sc_op[t].file]} :
          /\ sc_row' = IF sc_op[t].file \in Cache!Rows THEN [sc_row EXCEPT ![sc_op[t].file] = v] ELSE sc_row
          /\ Cache!Reads(t, "remember", v)
    BY <1>2 DEF Cache!UpdateRow
  <2>2. v \in Values
    BY DEF Cache!Versions, Cache!StorageCacheAssumption, Values
  <2>3. Moves(t)
    BY <1>0, <2>1, <2>2, OpMoves
  <2>4. /\ sc_op'[t].name = sc_op[t].name /\ sc_op'[t].at = "remember"
        /\ sc_op'[t].file = sc_op[t].file /\ sc_op'[t].got = v
    BY <1>0, <2>1, <2>2, OpTypes
  <2>5. Goes(t, "update", "exec", "remember")
    BY <1>2, <2>4 DEF Goes, Cache!UpdateRow, Cache!At
  <2> QED BY <1>2, <2>1, <2>3, <2>4, <2>5 DEF Updates, Cache!UpdateRow
<1>3. CASE Cache!UpdateCache(t)
  <2>1. Moves(t) /\ Ends(t, "update", "remember")
    BY <1>3, EndsIt DEF Ends, Cache!UpdateCache
  <2>2. sc_op[t].file \in CacheFiles /\ sc_op[t].got \in Nat
    BY <1>3 DEF Cache!UpdateCache, Cache!At, CacheTypes
  <2>3. Remembered(sc_op[t].file, sc_op[t].got)
    BY <1>3, <2>2, Remembers DEF Cache!UpdateCache
  <2> QED BY <2>1, <2>3 DEF Updates
<1> QED BY <1>1, <1>2, <1>3

LEMMA RemoveSteps ==
  ASSUME CacheTypes, ~MayFail, NEW t \in Users,
         Cache!RemoveFlush(t) \/ Cache!DeleteRow(t) \/ Cache!ClearCache(t)
  PROVE  Moves(t) /\ Removes(t)
<1> USE DEF Quiet, Cache!cache
<1>0. "flush" \in Steps /\ "delete" \in Steps /\ "clear" \in Steps /\ "remove" \in Operations \ {"none"}
  BY DEF Steps, Operations
<1>1. CASE Cache!RemoveFlush(t)
  <2>1. CASE \E f \in CacheFiles :
               Cache!Begin(t, "remove", f, "flush") /\ UNCHANGED <<sc_row, sc_buffered, sc_broken, Cache!cache>>
    BY <1>0, <2>1, StartsWith DEF Removes
  <2>2. CASE Cache!At(t, "remove", "flush") /\ Cache!FlushFirst(t, "delete") /\ UNCHANGED Cache!cache
    <3>1. Moves(t) /\ Goes(t, "remove", "flush", "delete") /\ Flushed
      BY <1>0, <2>2, FlushesFirst
    <3> QED BY <2>2, <3>1 DEF Removes
  <2> QED BY <1>1, <2>1, <2>2 DEF Cache!RemoveFlush
<1>2. CASE Cache!DeleteRow(t)
  <2>1. Moves(t) /\ Goes(t, "remove", "delete", "clear")
    BY <1>0, <1>2, GoesOn DEF Cache!DeleteRow
  <2> QED BY <1>2, <2>1 DEF Removes, Cache!DeleteRow
<1>3. CASE Cache!ClearCache(t)
  <2>1. Moves(t) /\ Ends(t, "remove", "clear")
    BY <1>3, EndsIt DEF Ends, Cache!ClearCache
  <2>2. sc_cached' = [f \in CacheFiles |-> Cache!Absent]
    BY <1>3 DEF Cache!ClearCache, Cache!Cleared
  <2>3. sc_located' = {f \in sc_located : sc_cached'[f] # Cache!Absent}
    BY <1>3 DEF Cache!ClearCache
  <2>4. sc_located' = {}
    BY <2>2, <2>3 DEF CacheTypes
  <2> QED BY <1>3, <2>1, <2>2, <2>4 DEF Removes, Cache!ClearCache
<1> QED BY <1>1, <1>2, <1>3

LEMMA CountSteps ==
  ASSUME CacheTypes, ~MayFail, NEW t \in Users, Cache!StorageCacheAssumption,
         Cache!CountFlush(t) \/ Cache!CountRows(t) \/ Cache!RememberCount(t)
  PROVE  Moves(t) /\ Counts(t)
<1> USE DEF Quiet, Cache!cache
<1>0. "flush" \in Steps /\ "query" \in Steps /\ "remember" \in Steps /\ "count" \in Operations \ {"none"}
  BY DEF Steps, Operations
<1>1. CASE Cache!CountFlush(t)
  <2>1. CASE /\ \E f \in CacheFiles : Cache!Begin(t, "count", f, "flush")
             /\ UNCHANGED <<sc_row, sc_buffered, sc_broken, Cache!cache>>
    BY <1>0, <2>1, StartsWith DEF Counts
  <2>2. CASE Cache!At(t, "count", "flush") /\ Cache!FlushFirst(t, "query") /\ UNCHANGED Cache!cache
    <3>1. Moves(t) /\ Goes(t, "count", "flush", "query") /\ Flushed
      BY <1>0, <2>2, FlushesFirst
    <3> QED BY <2>2, <3>1 DEF Counts
  <2> QED BY <1>1, <2>1, <2>2 DEF Cache!CountFlush
<1>2. CASE Cache!CountRows(t)
  <2>1. Cache!Rows \in SUBSET CacheFiles
    BY DEF Cache!Rows
  <2>2. Cache!Cardinality(Cache!Rows) \in Values
    BY <2>1 DEF Values
  <2>3. Moves(t)
    BY <1>0, <1>2, <2>2, OpMoves DEF Cache!CountRows
  <2>4. sc_op'[t].name = sc_op[t].name /\ sc_op'[t].at = "remember" /\ sc_op'[t].file = sc_op[t].file
    BY <1>0, <1>2, <2>2, OpTypes DEF Cache!CountRows
  <2> QED BY <1>2, <2>3, <2>4 DEF Counts, Goes, Cache!CountRows, Cache!At
<1>3. CASE Cache!RememberCount(t)
  <2>1. Moves(t) /\ Ends(t, "count", "remember")
    BY <1>3, EndsIt DEF Ends, Cache!RememberCount
  <2> QED BY <1>3, <2>1, RemembersCount DEF Counts
<1> QED BY <1>1, <1>2, <1>3

\* Every step of the cache is one of these.
LEMMA CacheStepsAre ==
  ASSUME CacheTypes, ~MayFail, Cache!StorageCacheAssumption, Cache!Next
  PROVE  \E t \in Users : CacheSteps(t)
<1>1. PICK t \in Users :
        \/ Cache!FindInCache(t) \/ Cache!FindInRows(t) \/ Cache!Insert(t) \/ Cache!RememberNew(t)
        \/ Cache!UpdateFlush(t) \/ Cache!UpdateRow(t) \/ Cache!UpdateCache(t)
        \/ Cache!RemoveFlush(t) \/ Cache!DeleteRow(t) \/ Cache!ClearCache(t)
        \/ Cache!CountFlush(t) \/ Cache!CountRows(t) \/ Cache!RememberCount(t)
        \/ Cache!Return(t)
  BY DEF Cache!Next
<1>2. CASE Cache!Return(t)
  <2>1. Moves(t) /\ Returns(t)
    BY <1>2, EndsIt DEF Returns, Quiet, Cache!Return, Cache!cache
  <2> QED BY <2>1 DEF CacheSteps
<1> QED BY <1>1, <1>2, AddSteps, UpdateSteps, RemoveSteps, CountSteps DEF CacheSteps

LEMMA CacheTypesStep ==
  ASSUME CacheTypes, Cache!StorageCacheAssumption, NEW t \in Users, CacheSteps(t)
  PROVE  CacheTypes'
<1>1. Moves(t)
  BY DEF CacheSteps
<1>2. /\ sc_op' \in [Users -> [name : Operations, at : Steps,
                               file : CacheFiles \union {"none"}, got : Values]]
      /\ \A u \in Users : sc_op'[u].name # "none" => /\ sc_op'[u].name \in Does[u]
                                                   /\ sc_op'[u].file \in CacheFiles
  BY <1>1, MovesTypes
<1>3. sc_op[t].name # "none" => sc_op[t].file \in CacheFiles
  BY DEF CacheTypes
<1>4. Cache!Absent \in Nat /\ Cache!Created \in Nat
  BY DEF Cache!Absent, Cache!Created
<1>5. /\ sc_row' \in [CacheFiles -> Nat] /\ sc_buffered' \in [CacheFiles -> Nat]
      /\ sc_cached' \in [CacheFiles -> Nat] /\ sc_located' \subseteq CacheFiles
      /\ sc_broken' = FALSE
  <2>1. CASE Quiet \/ Counted \/ (Flushed /\ UNCHANGED <<sc_cached, sc_located>>)
    BY <2>1, EffectTypes DEF Quiet
  <2>2. CASE Goes(t, "add", "insert", "remember") /\ Adds(t)
             /\ sc_buffered' = [sc_buffered EXCEPT ![sc_op[t].file] = @ + Cache!Created]
             /\ UNCHANGED <<sc_row, sc_broken, sc_cached, sc_located>>
    BY <1>3, <1>4, <2>2 DEF CacheTypes, Goes, Cache!At
  <2>3. CASE Ends(t, "add", "remember") /\ Remembered(sc_op[t].file, Cache!Created)
    <3>1. sc_op[t].file \in CacheFiles
      BY <1>3, <2>3 DEF Ends, Cache!At
    <3> QED BY <1>4, <2>3, <3>1, EffectTypes
  <2>4. CASE Ends(t, "update", "remember") /\ Remembered(sc_op[t].file, sc_op[t].got)
    <3>1. sc_op[t].file \in CacheFiles /\ sc_op[t].got \in Nat
      BY <1>3, <2>4 DEF Ends, Cache!At, CacheTypes
    <3> QED BY <2>4, <3>1, EffectTypes
  <2>5. CASE /\ Goes(t, "update", "exec", "remember")
             /\ sc_op'[t].got \in Cache!Versions
             /\ sc_row' = IF sc_op[t].file \in Cache!Rows
                          THEN [sc_row EXCEPT ![sc_op[t].file] = sc_op'[t].got] ELSE sc_row
             /\ UNCHANGED <<sc_buffered, sc_broken, sc_cached, sc_located>>
    <3>1. sc_op'[t].got \in Nat
      BY <2>5 DEF Cache!Versions, Cache!StorageCacheAssumption
    <3> QED BY <2>5, <3>1 DEF CacheTypes
  <2>6. CASE /\ sc_row' = [sc_row EXCEPT ![sc_op[t].file] = Cache!Absent]
             /\ UNCHANGED <<sc_buffered, sc_broken, sc_cached, sc_located>>
    BY <1>4, <2>6 DEF CacheTypes
  <2>7. CASE /\ sc_cached' = [f \in CacheFiles |-> Cache!Absent] /\ sc_located' = {}
             /\ UNCHANGED <<sc_row, sc_buffered, sc_broken>>
    BY <1>4, <2>7 DEF CacheTypes
  <2>8. Adds(t) \/ Updates(t) \/ Removes(t) \/ Counts(t) \/ Returns(t)
    BY DEF CacheSteps
  <2>9. CASE Adds(t)
    BY <2>1, <2>2, <2>3, <2>9 DEF Adds
  <2>10. CASE Updates(t)
    BY <2>1, <2>4, <2>5, <2>10 DEF Updates
  <2>11. CASE Removes(t)
    BY <2>1, <2>6, <2>7, <2>11 DEF Removes
  <2>12. CASE Counts(t) \/ Returns(t)
    BY <2>1, <2>12 DEF Counts, Returns
  <2> QED BY <2>8, <2>9, <2>10, <2>11, <2>12
<1>6. ASSUME NEW u \in Users, sc_op'[u].name = "update", sc_op'[u].at = "remember"
      PROVE  sc_op'[u].got \in Nat
  <2>1. CASE u # t
    BY <1>1, <1>6, <2>1 DEF Moves, CacheTypes, Cache!At
  <2>2. CASE u = t
    <3>1. Updates(t)
      BY <1>6, <2>2 DEF CacheSteps, Adds, Removes, Counts, Returns, Goes, Ends, Begins
    <3>2. sc_op'[t].got \in Cache!Versions
      BY <1>6, <2>2, <3>1 DEF Updates, Goes, Ends, Begins
    <3> QED BY <2>2, <3>2 DEF Cache!Versions, Cache!StorageCacheAssumption
  <2> QED BY <2>1, <2>2
<1> QED BY <1>2, <1>5, <1>6 DEF CacheTypes, Cache!At

LEMMA RowInvOthers ==
  ASSUME CacheTypes, Cache!StorageCacheAssumption, NEW w \in Users, OneAdder(w), RowInv(w),
         NEW t \in Users, t # w, CacheSteps(t)
  PROVE  RowInv(w)'
<1>1. sc_op'[w] = sc_op[w]
  BY DEF CacheSteps, Moves
<1>2. CASE UNCHANGED <<sc_row, sc_buffered>> /\ sc_located \subseteq sc_located'
  BY <1>1, <1>2, RowsStay DEF RowInv, Cache!At
<1>3. CASE Flushed
  BY <1>1, <1>3, FlushMeans DEF RowInv, Cache!At
<1>4. CASE /\ sc_op'[t].got \in Cache!Versions
           /\ sc_row' = IF sc_op[t].file \in Cache!Rows
                        THEN [sc_row EXCEPT ![sc_op[t].file] = sc_op'[t].got] ELSE sc_row
           /\ UNCHANGED <<sc_buffered, sc_located>>
  <2>1. Cache!Pending' = Cache!Pending
    BY <1>4 DEF Cache!Pending
  <2>2. \A f \in CacheFiles : f \notin Cache!Rows => sc_row'[f] = sc_row[f]
    BY <1>4 DEF CacheTypes
  <2>3. \A f \in CacheFiles : f \notin Cache!Rows <=> sc_row[f] = Cache!Absent
    BY DEF Cache!Rows
  <2>4. Cache!Rows' \subseteq Cache!Rows
    BY <2>2, <2>3 DEF Cache!Rows
  <2>5. \A f \in Cache!Pending : sc_row'[f] = Cache!Absent
    BY <2>2, <2>3 DEF RowInv, Cache!Pending
  <2> QED BY <1>1, <1>4, <2>1, <2>4, <2>5 DEF RowInv, Cache!At
<1>5. sc_op[t].name \in {"none", "update", "count"} /\ {"add", "remove"} \intersect Does[t] = {}
  BY DEF OneAdder, CacheTypes
<1>6. ~Adds(t) /\ ~Removes(t)
  BY <1>5 DEF Adds, Removes, Begins, Goes, Ends, Cache!At
<1>7. CASE Updates(t)
  BY <1>2, <1>3, <1>4, <1>7 DEF Updates, Quiet, Remembered
<1>8. CASE Counts(t) \/ Returns(t)
  BY <1>2, <1>3, <1>8 DEF Counts, Returns, Quiet, Counted
<1> QED BY <1>6, <1>7, <1>8 DEF CacheSteps

LEMMA RowInvOwn ==
  ASSUME CacheTypes, Cache!StorageCacheAssumption, NEW w \in Users, RowInv(w), CacheSteps(w)
  PROVE  RowInv(w)'
<1>0. sc_op[w].name # "none" => sc_op[w].file \in CacheFiles
  BY DEF CacheTypes
\* What RowInv says of the rows that wait, when the cache has been told of them.
<1> DEFINE Told == \A f \in Cache!Pending :
              /\ sc_buffered[f] = Cache!Created /\ sc_row[f] = Cache!Absent /\ f \in sc_located
<1>1. ASSUME ~Cache!At(w, "add", "remember") PROVE Told
  BY <1>1 DEF RowInv
<1>2. CASE Adds(w)
  <2>1. CASE Begins(w, "add", "idle") /\ Quiet
    BY <1>1, <2>1, RowsStay DEF RowInv, Begins, Quiet, Cache!At
  <2>2. CASE Begins(w, "add", "query") /\ sc_op'[w].file \notin sc_located /\ Quiet
    BY <1>1, <2>2, RowsStay DEF RowInv, Begins, Quiet, Cache!At
  <2>3. CASE Ends(w, "add", "query") /\ Quiet
    BY <1>1, <2>3, RowsStay DEF RowInv, Ends, Quiet, Cache!At
  <2>4. CASE Goes(w, "add", "query", "insert") /\ sc_op[w].file \notin Cache!Rows /\ Quiet
    BY <1>1, <2>4, RowsStay DEF RowInv, Goes, Quiet, Cache!At
  <2>5. CASE /\ Goes(w, "add", "insert", "remember")
             /\ sc_buffered' = [sc_buffered EXCEPT ![sc_op[w].file] = @ + Cache!Created]
             /\ UNCHANGED <<sc_row, sc_broken, sc_cached, sc_located>>
    <3>1. PICK f \in CacheFiles : f = sc_op[w].file
      BY <1>0, <2>5 DEF Goes, Cache!At
    <3>2. sc_buffered[f] = Cache!Absent /\ sc_row[f] = Cache!Absent /\ Told
      BY <1>1, <2>5, <3>1 DEF RowInv, Goes, Cache!At, Cache!Pending, Cache!Rows
    <3>3. sc_buffered'[f] = Cache!Created
      BY <2>5, <3>1, <3>2 DEF CacheTypes, Cache!Absent, Cache!Created
    <3>4. \A g \in CacheFiles : g # f => sc_buffered'[g] = sc_buffered[g]
      BY <2>5, <3>1 DEF CacheTypes
    <3>5. Cache!Pending' = Cache!Pending \union {f}
      BY <3>3, <3>4 DEF Cache!Pending, Cache!Absent, Cache!Created
    <3>6. \A g \in Cache!Pending' :
            /\ sc_buffered'[g] = Cache!Created /\ sc_row'[g] = Cache!Absent
            /\ g \in sc_located' \/ g = f
      <4>1. ASSUME NEW g \in Cache!Pending', g # f
            PROVE  sc_buffered'[g] = Cache!Created /\ sc_row'[g] = Cache!Absent /\ g \in sc_located'
        <5>1. g \in Cache!Pending /\ g \in CacheFiles
          BY <3>5, <4>1 DEF Cache!Pending
        <5> QED BY <2>5, <3>2, <3>4, <4>1, <5>1
      <4> QED BY <2>5, <3>2, <3>3, <4>1
    <3> QED BY <2>5, <3>1, <3>6 DEF RowInv, Goes, Cache!At
  <2>6. CASE Ends(w, "add", "remember") /\ Remembered(sc_op[w].file, Cache!Created)
    <3>1. CASE UNCHANGED <<sc_row, sc_buffered>> /\ sc_located' = sc_located \union {sc_op[w].file}
      BY <2>6, <3>1, RowsStay DEF RowInv, Ends, Cache!At
    <3>2. CASE Flushed
      BY <2>6, <3>2, FlushMeans DEF RowInv, Ends, Cache!At
    <3> QED BY <2>6, <3>1, <3>2 DEF Remembered
  <2> QED BY <1>2, <2>1, <2>2, <2>3, <2>4, <2>5, <2>6 DEF Adds
<1>3. CASE Updates(w)
  <2>1. CASE Begins(w, "update", "flush") /\ Quiet
    BY <1>1, <2>1, RowsStay DEF RowInv, Begins, Quiet, Cache!At
  <2>2. CASE Goes(w, "update", "flush", "exec") /\ Flushed
    BY <2>2, FlushMeans DEF RowInv, Goes, Cache!At
  <2>3. CASE /\ Goes(w, "update", "exec", "remember")
             /\ sc_row' = IF sc_op[w].file \in Cache!Rows
                          THEN [sc_row EXCEPT ![sc_op[w].file] = sc_op'[w].got] ELSE sc_row
             /\ UNCHANGED <<sc_buffered, sc_broken, sc_cached, sc_located>>
    <3>1. Told
      BY <1>1, <2>3 DEF Goes, Cache!At
    <3>2. Cache!Pending' = Cache!Pending
      BY <2>3 DEF Cache!Pending
    <3>3. \A f \in Cache!Pending : sc_row'[f] = Cache!Absent
      BY <2>3, <3>1 DEF CacheTypes, Cache!Pending, Cache!Rows
    <3> QED BY <2>3, <3>1, <3>2, <3>3 DEF RowInv, Goes, Cache!At
  <2>4. CASE Ends(w, "update", "remember") /\ Remembered(sc_op[w].file, sc_op[w].got)
    <3>1. CASE UNCHANGED <<sc_row, sc_buffered>> /\ sc_located' = sc_located \union {sc_op[w].file}
      BY <1>1, <2>4, <3>1, RowsStay DEF RowInv, Ends, Cache!At
    <3>2. CASE Flushed
      BY <2>4, <3>2, FlushMeans DEF RowInv, Ends, Cache!At
    <3> QED BY <2>4, <3>1, <3>2 DEF Remembered
  <2> QED BY <1>3, <2>1, <2>2, <2>3, <2>4 DEF Updates
<1>4. CASE Removes(w)
  <2>1. CASE Begins(w, "remove", "flush") /\ Quiet
    BY <1>1, <2>1, RowsStay DEF RowInv, Begins, Quiet, Cache!At
  <2>2. CASE Goes(w, "remove", "flush", "delete") /\ Flushed
    BY <2>2, FlushMeans DEF RowInv, Goes, Cache!At
  <2>3. CASE Goes(w, "remove", "delete", "clear") /\ UNCHANGED sc_buffered
    BY <2>3 DEF RowInv, Goes, Cache!At, Cache!Pending
  <2>4. CASE Ends(w, "remove", "clear") /\ UNCHANGED <<sc_row, sc_buffered>>
    BY <2>4 DEF RowInv, Ends, Cache!At, Cache!Pending
  <2> QED BY <1>4, <2>1, <2>2, <2>3, <2>4 DEF Removes
<1>5. CASE Counts(w) \/ Returns(w)
  <2>1. CASE UNCHANGED <<sc_row, sc_buffered, sc_located>> /\ ~Cache!At(w, "add", "remember")
             /\ sc_op'[w].name \in {"none", "count"}
    BY <1>1, <2>1, RowsStay DEF RowInv, Cache!At
  <2>2. CASE Flushed /\ sc_op'[w].name \in {"none", "count"}
    BY <2>2, FlushMeans DEF RowInv, Cache!At
  <2> QED BY <1>5, <2>1, <2>2 DEF Counts, Returns, Begins, Goes, Ends, Counted, Quiet, Cache!At
<1> QED BY <1>2, <1>3, <1>4, <1>5 DEF CacheSteps

\* The others only count: they may have the cache emptied, or the buffer flushed.
LEMMA CurrentInvOthers ==
  ASSUME CacheTypes, NEW w \in Users, OneWriter(w), RowInv(w), CurrentInv(w),
         NEW t \in Users, t # w, CacheSteps(t)
  PROVE  CurrentInv(w)'
<1>1. sc_op'[w] = sc_op[w]
  BY DEF CacheSteps, Moves
<1>2. sc_op[w].name # "none" => sc_op[w].file \in CacheFiles
  BY DEF CacheTypes
<1>3. CASE Quiet
  <2>1. UNCHANGED <<Cache!Pending, Cache!Written, Cache!Known>>
    BY <1>3, RowsStay DEF Quiet, Cache!Known
  <2> QED BY <1>1, <1>3, <2>1 DEF CurrentInv, Cache!At, Quiet
<1>4. CASE Flushed
  <2>1. /\ Cache!Pending' = {}
        /\ \A f \in CacheFiles : Cache!Written'[f] = Cache!Written[f]
        /\ \A f \in CacheFiles : sc_row'[f] = Cache!Written[f]
    BY <1>4, FlushMeans DEF Flushed
  <2>2. \A f \in CacheFiles : Cache!Pending = {} => Cache!Written[f] = sc_row[f]
    BY DEF Cache!Pending, Cache!Written
  <2>3. CASE UNCHANGED <<sc_cached, sc_located>>
    <3>1. Cache!Known' = Cache!Known /\ Cache!Known \subseteq CacheFiles
      BY <2>3 DEF Cache!Known
    <3> QED BY <1>1, <1>2, <2>1, <2>2, <2>3, <3>1 DEF CurrentInv, Cache!At
  <2>4. CASE sc_cached' = [f \in CacheFiles |-> Cache!Absent] /\ sc_located' = {}
    <3>1. Cache!Known' = {}
      BY <2>4 DEF Cache!Known
    <3> QED BY <1>1, <1>2, <2>1, <2>2, <2>4, <3>1 DEF CurrentInv, Cache!At
  <2>5. sc_op[t].name \in {"none", "count"} /\ {"add", "update", "remove"} \intersect Does[t] = {}
    BY DEF OneWriter, CacheTypes
  <2>6. Counts(t) \/ Returns(t)
    BY <2>5 DEF CacheSteps, Adds, Updates, Removes, Begins, Goes, Ends, Cache!At
  <2>7. CASE Quiet
    BY <1>3, <2>7
  <2> QED BY <2>3, <2>4, <2>6, <2>7 DEF Counts, Returns, Counted, Quiet
<1>5. sc_op[t].name \in {"none", "count"} /\ {"add", "update", "remove"} \intersect Does[t] = {}
  BY DEF OneWriter, CacheTypes
<1>6. Counts(t) \/ Returns(t)
  BY <1>5 DEF CacheSteps, Adds, Updates, Removes, Begins, Goes, Ends, Cache!At
<1> QED BY <1>3, <1>4, <1>6 DEF Counts, Returns, Counted, Quiet

LEMMA CurrentInvAdds ==
  ASSUME CacheTypes, NEW w \in Users, RowInv(w), CurrentInv(w), Adds(w)
  PROVE  CurrentInv(w)'
<1>0. sc_op[w].name # "none" => sc_op[w].file \in CacheFiles
  BY DEF CacheTypes
<1> DEFINE Agrees == \A f \in Cache!Known : sc_cached[f] = Cache!Written[f]
<1>1. ASSUME sc_op[w].name \in {"none", "add"} PROVE Agrees
  BY <1>1 DEF CurrentInv, Cache!At
<1>2. ASSUME Quiet PROVE UNCHANGED <<Cache!Pending, Cache!Written, Cache!Known, sc_located>>
  BY <1>2, RowsStay DEF Quiet, Cache!Known
<1>3. CASE Begins(w, "add", "idle") /\ Quiet
  BY <1>1, <1>2, <1>3 DEF CurrentInv, Begins, Quiet, Cache!At
<1>4. CASE Begins(w, "add", "query") /\ sc_op'[w].file \notin sc_located /\ Quiet
  BY <1>1, <1>2, <1>4 DEF CurrentInv, Begins, Quiet, Cache!At
<1>5. CASE Ends(w, "add", "query") /\ Quiet
  BY <1>1, <1>2, <1>5 DEF CurrentInv, Ends, Quiet, Cache!At
<1>6. CASE Goes(w, "add", "query", "insert") /\ Quiet
  BY <1>1, <1>2, <1>6 DEF CurrentInv, Goes, Quiet, Cache!At
<1>7. CASE /\ Goes(w, "add", "insert", "remember")
           /\ sc_buffered' = [sc_buffered EXCEPT ![sc_op[w].file] = @ + Cache!Created]
           /\ UNCHANGED <<sc_row, sc_broken, sc_cached, sc_located>>
  <2>1. PICK f \in CacheFiles : f = sc_op[w].file
    BY <1>0, <1>7 DEF Goes, Cache!At
  <2>2. sc_buffered[f] = Cache!Absent /\ f \notin Cache!Known
    BY <1>7, <2>1 DEF RowInv, CurrentInv, Goes, Cache!At, Cache!Pending
  <2>3. sc_buffered'[f] = Cache!Created
    BY <1>7, <2>1, <2>2 DEF CacheTypes, Cache!Absent, Cache!Created
  <2>4. \A g \in CacheFiles : g # f => sc_buffered'[g] = sc_buffered[g]
    BY <1>7, <2>1 DEF CacheTypes
  <2>5. \A g \in CacheFiles : Cache!Written[g] = IF sc_buffered[g] # Cache!Absent
                                                 THEN sc_buffered[g] ELSE sc_row[g]
    BY DEF Cache!Written
  <2>6. \A g \in CacheFiles : Cache!Written'[g] = IF sc_buffered'[g] # Cache!Absent
                                                  THEN sc_buffered'[g] ELSE sc_row[g]
    BY <1>7 DEF Cache!Written, Cache!Absent
  <2>7. Cache!Written'[f] = Cache!Created /\ \A g \in CacheFiles \ {f} : Cache!Written'[g] = Cache!Written[g]
    BY <2>3, <2>4, <2>5, <2>6 DEF Cache!Absent, Cache!Created
  <2>8. Cache!Known' = Cache!Known /\ Cache!Known \subseteq CacheFiles
    BY <1>7 DEF Cache!Known
  <2>9. Agrees
    BY <1>1, <1>7 DEF Goes, Cache!At
  <2>10. \A g \in Cache!Known : Cache!Written'[g] = Cache!Written[g]
    BY <2>2, <2>7, <2>8
  <2> QED BY <1>7, <2>1, <2>2, <2>7, <2>8, <2>9, <2>10 DEF CurrentInv, Goes, Cache!At
<1>8. CASE Ends(w, "add", "remember") /\ Remembered(sc_op[w].file, Cache!Created)
  <2>1. PICK f \in CacheFiles : f = sc_op[w].file
    BY <1>0, <1>8 DEF Ends, Cache!At
  <2>2. Cache!Written[f] = Cache!Created /\ Agrees
    BY <1>1, <1>8, <2>1 DEF CurrentInv, Ends, Cache!At
  <2>3. /\ \A g \in CacheFiles : Cache!Written'[g] = Cache!Written[g]
        /\ Cache!Known' = sc_located'
        /\ \A g \in Cache!Known' : sc_cached'[g] = Cache!Written[g]
    <3>1. CASE /\ UNCHANGED <<sc_row, sc_buffered>>
               /\ sc_cached' = [sc_cached EXCEPT ![f] = Cache!Created]
               /\ sc_located' = sc_located \union {f}
      <4>1. sc_cached'[f] = Cache!Created /\ \A g \in CacheFiles \ {f} : sc_cached'[g] = sc_cached[g]
        BY <3>1 DEF CacheTypes
      <4>2. Cache!Known' = Cache!Known \union {f}
        BY <4>1 DEF Cache!Known, Cache!Created, Cache!Absent
      <4>3. \A g \in Cache!Known' : sc_cached'[g] = Cache!Written[g]
        BY <2>2, <4>1, <4>2 DEF Cache!Known
      <4> QED BY <3>1, <4>2, <4>3, RowsStay DEF CurrentInv
    <3>2. CASE /\ Flushed
               /\ sc_cached' = [g \in CacheFiles |-> IF g = f THEN Cache!Created ELSE Cache!Absent]
               /\ sc_located' = {f}
      <4>1. Cache!Known' = {f} /\ sc_cached'[f] = Cache!Created
        BY <3>2 DEF Cache!Known, Cache!Created, Cache!Absent
      <4> QED BY <2>2, <3>2, <4>1, FlushMeans
    <3> QED BY <1>8, <2>1, <3>1, <3>2 DEF Remembered
  <2>4. Cache!Known' \subseteq CacheFiles
    BY DEF Cache!Known
  <2> QED BY <1>8, <2>3, <2>4 DEF CurrentInv, Ends, Cache!At
<1> QED BY <1>3, <1>4, <1>5, <1>6, <1>7, <1>8 DEF Adds

LEMMA CurrentInvUpdates ==
  ASSUME CacheTypes, Cache!StorageCacheAssumption,
         NEW w \in Users, RowInv(w), CurrentInv(w), Updates(w)
  PROVE  CurrentInv(w)'
<1>0. sc_op[w].name # "none" => sc_op[w].file \in CacheFiles
  BY DEF CacheTypes
<1> DEFINE Agrees == \A f \in Cache!Known : sc_cached[f] = Cache!Written[f]
<1>1. ASSUME sc_op[w].name = "none" \/ Cache!At(w, "update", "flush") \/ Cache!At(w, "update", "exec")
      PROVE  Agrees
  BY <1>1 DEF CurrentInv, Cache!At
<1>2. \A f \in CacheFiles : Cache!Written[f] = IF sc_buffered[f] # Cache!Absent
                                               THEN sc_buffered[f] ELSE sc_row[f]
  BY DEF Cache!Written
<1>3. CASE Begins(w, "update", "flush") /\ sc_op'[w].file \in Cache!Known \union Cache!Rows /\ Quiet
  <2>1. UNCHANGED <<Cache!Pending, Cache!Written, Cache!Known, sc_located>>
    BY <1>3, RowsStay DEF Quiet, Cache!Known
  <2>2. PICK f \in CacheFiles : f = sc_op'[w].file
    BY <1>3 DEF Begins
  <2>3. Cache!Written[f] # Cache!Absent
    <3>1. CASE f \in Cache!Known
      BY <1>1, <1>3, <3>1 DEF Begins, Cache!Known
    <3>2. CASE f \in Cache!Rows
      BY <1>2, <3>2 DEF Cache!Rows
    <3> QED BY <1>3, <2>2, <3>1, <3>2
  <2>4. Agrees
    BY <1>1, <1>3 DEF Begins
  <2> QED BY <1>3, <2>1, <2>2, <2>3, <2>4 DEF CurrentInv, Begins, Quiet, Cache!At
<1>4. CASE Goes(w, "update", "flush", "exec") /\ Flushed /\ UNCHANGED <<sc_cached, sc_located>>
  <2>1. Cache!Pending' = {} /\ \A f \in CacheFiles : Cache!Written'[f] = Cache!Written[f]
    BY <1>4, FlushMeans
  <2>2. Cache!Known' = Cache!Known /\ Cache!Known \subseteq CacheFiles
    BY <1>4 DEF Cache!Known
  <2>3. PICK f \in CacheFiles : f = sc_op[w].file
    BY <1>0, <1>4 DEF Goes, Cache!At
  <2>4. sc_row'[f] # Cache!Absent /\ Agrees
    BY <1>1, <1>4, <2>3 DEF Flushed, CurrentInv, Goes, Cache!At
  <2> QED BY <1>4, <2>1, <2>2, <2>3, <2>4 DEF CurrentInv, Goes, Cache!At
<1>5. CASE /\ Goes(w, "update", "exec", "remember")
           /\ sc_op'[w].got \in Cache!Versions
           /\ sc_row' = IF sc_op[w].file \in Cache!Rows
                        THEN [sc_row EXCEPT ![sc_op[w].file] = sc_op'[w].got] ELSE sc_row
           /\ UNCHANGED <<sc_buffered, sc_broken, sc_cached, sc_located>>
  <2>1. PICK f \in CacheFiles : f = sc_op[w].file
    BY <1>0, <1>5 DEF Goes, Cache!At
  <2>2. Cache!Pending = {} /\ f \in Cache!Rows /\ Agrees
    BY <1>1, <1>5, <2>1 DEF CurrentInv, Goes, Cache!At, Cache!Rows
  <2>3. sc_row'[f] = sc_op'[w].got /\ \A g \in CacheFiles \ {f} : sc_row'[g] = sc_row[g]
    BY <1>5, <2>1, <2>2 DEF CacheTypes
  <2>4. sc_op'[w].got # Cache!Absent
    BY <1>5 DEF Cache!Versions, Cache!Absent, Cache!StorageCacheAssumption
  <2>5. Cache!Pending' = {} /\ Cache!Known' = Cache!Known /\ Cache!Known \subseteq CacheFiles
    BY <1>5, <2>2 DEF Cache!Pending, Cache!Known
  <2>6. \A g \in CacheFiles : Cache!Written'[g] = IF sc_buffered[g] # Cache!Absent
                                                  THEN sc_buffered[g] ELSE sc_row'[g]
    BY <1>5 DEF Cache!Written, Cache!Absent
  <2>7. \A g \in CacheFiles \ {f} : Cache!Written'[g] = Cache!Written[g]
    BY <1>2, <2>3, <2>6
  <2> QED BY <1>5, <2>1, <2>2, <2>3, <2>4, <2>5, <2>7 DEF CurrentInv, Goes, Cache!At
<1>6. CASE Ends(w, "update", "remember") /\ Remembered(sc_op[w].file, sc_op[w].got)
  <2>1. PICK f \in CacheFiles : f = sc_op[w].file
    BY <1>0, <1>6 DEF Ends, Cache!At
  <2>2. PICK v \in Nat : v = sc_op[w].got
    BY <1>6 DEF CacheTypes, Ends
  <2>3. Cache!Pending = {} /\ sc_row[f] = v /\ v # Cache!Absent
    BY <1>6, <2>1, <2>2 DEF CurrentInv, Ends, Cache!At
  <2>4. Cache!Written[f] = v
    BY <1>2, <2>3 DEF Cache!Pending
  <2>5. \A g \in Cache!Known : g # f => sc_cached[g] = Cache!Written[g]
    BY <1>6, <2>1 DEF CurrentInv, Ends, Cache!At
  <2>6. /\ \A g \in CacheFiles : Cache!Written'[g] = Cache!Written[g]
        /\ Cache!Known' = sc_located'
        /\ \A g \in Cache!Known' : sc_cached'[g] = Cache!Written[g]
    <3>1. CASE /\ UNCHANGED <<sc_row, sc_buffered>>
               /\ sc_cached' = [sc_cached EXCEPT ![f] = v]
               /\ sc_located' = sc_located \union {f}
      <4>1. sc_cached'[f] = v /\ \A g \in CacheFiles \ {f} : sc_cached'[g] = sc_cached[g]
        BY <3>1 DEF CacheTypes
      <4>2. Cache!Known' = Cache!Known \union {f}
        BY <2>3, <4>1 DEF Cache!Known
      <4>3. \A g \in Cache!Known' : sc_cached'[g] = Cache!Written[g]
        BY <2>4, <2>5, <4>1, <4>2 DEF Cache!Known
      <4> QED BY <3>1, <4>2, <4>3, RowsStay DEF CurrentInv
    <3>2. CASE /\ Flushed
               /\ sc_cached' = [g \in CacheFiles |-> IF g = f THEN v ELSE Cache!Absent]
               /\ sc_located' = {f}
      <4>1. Cache!Known' = {f} /\ sc_cached'[f] = v
        BY <2>3, <3>2 DEF Cache!Known
      <4> QED BY <2>4, <3>2, <4>1, FlushMeans
    <3> QED BY <1>6, <2>1, <2>2, <3>1, <3>2 DEF Remembered
  <2>7. Cache!Known' \subseteq CacheFiles
    BY DEF Cache!Known
  <2> QED BY <1>6, <2>6, <2>7 DEF CurrentInv, Ends, Cache!At
<1> QED BY <1>3, <1>4, <1>5, <1>6 DEF Updates

LEMMA CurrentInvRest ==
  ASSUME CacheTypes, NEW w \in Users, RowInv(w), CurrentInv(w),
         Removes(w) \/ Counts(w) \/ Returns(w)
  PROVE  CurrentInv(w)'
<1>0. sc_op[w].name # "none" => sc_op[w].file \in CacheFiles
  BY DEF CacheTypes
<1>1. Cache!Known \subseteq CacheFiles /\ Cache!Known' \subseteq CacheFiles
  BY DEF Cache!Known
<1> DEFINE Agrees == \A f \in Cache!Known : sc_cached[f] = Cache!Written[f]
<1>2. CASE Quiet /\ sc_op'[w].name \in {"none", "remove", "count"}
           /\ (sc_op[w].name \in {"none", "count"} \/ sc_op[w].at = "idle")
  <2>1. UNCHANGED <<Cache!Pending, Cache!Written, Cache!Known, sc_located>>
    BY <1>2, RowsStay DEF Quiet, Cache!Known
  <2>2. Agrees
    BY <1>2 DEF CurrentInv, Cache!At
  <2> QED BY <1>2, <2>1, <2>2 DEF CurrentInv, Cache!At, Quiet
<1>3. CASE Flushed /\ UNCHANGED <<sc_cached, sc_located>> /\ sc_op'[w].name = sc_op[w].name
           /\ sc_op[w].name \in {"remove", "count"} /\ sc_op[w].at = "flush"
  <2>1. Cache!Pending' = {} /\ \A f \in CacheFiles : Cache!Written'[f] = Cache!Written[f]
    BY <1>3, FlushMeans
  <2>2. Cache!Known' = Cache!Known
    BY <1>3 DEF Cache!Known
  <2>3. Agrees
    BY <1>3 DEF CurrentInv, Cache!At
  <2> QED BY <1>1, <1>3, <2>1, <2>2, <2>3 DEF CurrentInv, Cache!At
<1>4. CASE sc_cached' = [f \in CacheFiles |-> Cache!Absent] /\ sc_located' = {} /\ sc_op'[w].name = "none"
  <2>1. Cache!Known' = {}
    BY <1>4 DEF Cache!Known
  <2> QED BY <1>4, <2>1 DEF CurrentInv, Cache!At
<1>5. CASE /\ Goes(w, "remove", "delete", "clear")
           /\ sc_row' = [sc_row EXCEPT ![sc_op[w].file] = Cache!Absent]
           /\ UNCHANGED <<sc_buffered, sc_broken, sc_cached, sc_located>>
  <2>1. PICK f \in CacheFiles : f = sc_op[w].file
    BY <1>0, <1>5 DEF Goes, Cache!At
  <2>2. \A g \in CacheFiles \ {f} : sc_row'[g] = sc_row[g]
    BY <1>5, <2>1 DEF CacheTypes
  <2>3. \A g \in CacheFiles \ {f} : Cache!Written'[g] = Cache!Written[g]
    BY <1>5, <2>2 DEF Cache!Written, Cache!Absent
  <2>4. Cache!Known' = Cache!Known
    BY <1>5 DEF Cache!Known
  <2>5. Agrees
    BY <1>5 DEF CurrentInv, Goes, Cache!At
  <2> QED BY <1>1, <1>5, <2>1, <2>3, <2>4, <2>5 DEF CurrentInv, Goes, Cache!At
<1>6. CASE Removes(w)
  BY <1>2, <1>3, <1>4, <1>5, <1>6 DEF Removes, Begins, Goes, Ends, Cache!At
<1>7. CASE Counts(w)
  BY <1>2, <1>3, <1>4, <1>7 DEF Counts, Counted, Quiet, Begins, Goes, Ends, Cache!At
<1>8. CASE Returns(w)
  BY <1>2, <1>8 DEF Returns
<1> QED BY <1>6, <1>7, <1>8

LEMMA RowStep ==
  ASSUME Cache!StorageCacheAssumption, ~MayFail, NEW w \in Users, OneAdder(w),
         CacheTypes, RowInv(w), [Cache!Next]_(Cache!vars)
  PROVE  CacheTypes' /\ RowInv(w)'
<1>1. CASE Cache!Next
  <2>1. PICK t \in Users : CacheSteps(t)
    BY <1>1, CacheStepsAre
  <2> QED BY <2>1, CacheTypesStep, RowInvOthers, RowInvOwn
<1>2. CASE UNCHANGED Cache!vars
  BY <1>2, RowsStay DEF Cache!vars, CacheTypes, RowInv, Cache!At
<1> QED BY <1>1, <1>2

LEMMA CurrentStep ==
  ASSUME Cache!StorageCacheAssumption, ~MayFail, NEW w \in Users, OneWriter(w),
         CacheTypes, RowInv(w), CurrentInv(w), [Cache!Next]_(Cache!vars)
  PROVE  CurrentInv(w)'
<1>1. CASE Cache!Next
  <2>1. PICK t \in Users : CacheSteps(t)
    BY <1>1, CacheStepsAre
  <2>2. CASE t # w
    BY <2>1, <2>2, CurrentInvOthers
  <2>3. CASE t = w
    BY <2>1, <2>3, CurrentInvAdds, CurrentInvUpdates, CurrentInvRest DEF CacheSteps
  <2> QED BY <2>2, <2>3
<1>2. CASE UNCHANGED Cache!vars
  <2>1. UNCHANGED Cache!Known
    BY <1>2 DEF Cache!vars, Cache!Known
  <2> QED BY <1>2, <2>1, RowsStay DEF Cache!vars, CurrentInv, Cache!At
<1> QED BY <1>1, <1>2

LEMMA RowsImply ==
  ASSUME NEW w \in Users, RowInv(w) PROVE OneRowPerFile
BY DEF RowInv, OneRowPerFile, Cache!OneRowPerFile

LEMMA CurrentImplies ==
  ASSUME NEW w \in Users, CurrentInv(w) PROVE CacheIsCurrent
<1> SUFFICES ASSUME NEW f \in Cache!Known
             PROVE  \/ Cache!Busy(f, {"update"}, {"remember"})
                    \/ Cache!Busy(f, {"remove"}, {"clear"})
                    \/ sc_cached[f] = Cache!Written[f]
  BY DEF CacheIsCurrent, Cache!CacheIsCurrent
<1> QED BY DEF CurrentInv, Cache!Busy, Cache!At

(* A file never gets a second row: whatever the limit of the cache and     *)
(* whoever updates or counts at the same time, a search that does not look *)
(* at the insert buffer finds what waits in it, as long as one thread adds *)
(* and removes and no flush fails (sql_storage.cc:402-471, :813-848).      *)
THEOREM RowsAreUnique ==
  ASSUME Cache!StorageCacheAssumption, ~MayFail, NEW w \in Users, OneAdder(w)
  PROVE  Cache!Spec => []OneRowPerFile
<1>1. Cache!Init => CacheTypes /\ RowInv(w)
  BY CacheStarts
<1>2. CacheTypes /\ RowInv(w) /\ [Cache!Next]_(Cache!vars) => CacheTypes' /\ RowInv(w)'
  BY RowStep
<1>3. RowInv(w) => OneRowPerFile
  BY RowsImply
<1> QED BY <1>1, <1>2, <1>3, PTL DEF Cache!Spec

(* What the cache answers is what a query after a flush would read, but    *)
(* for the object whose update or removal is under way, as long as one     *)
(* thread writes; the others may have the cache emptied at any moment      *)
(* (storage_cache.cc, sql_storage.cc:402-518).                             *)
THEOREM CachedObjectsAreCurrent ==
  ASSUME Cache!StorageCacheAssumption, ~MayFail, NEW w \in Users, OneWriter(w)
  PROVE  Cache!Spec => []CacheIsCurrent
<1>1. OneAdder(w)
  BY DEF OneWriter, OneAdder
<1>2. Cache!Init => CacheTypes /\ RowInv(w) /\ CurrentInv(w)
  BY CacheStarts
<1>3. CacheTypes /\ RowInv(w) /\ CurrentInv(w) /\ [Cache!Next]_(Cache!vars)
        => CacheTypes' /\ RowInv(w)' /\ CurrentInv(w)'
  BY <1>1, RowStep, CurrentStep
<1>4. CurrentInv(w) => CacheIsCurrent
  BY CurrentImplies
<1> QED BY <1>2, <1>3, <1>4, PTL DEF Cache!Spec

(***************************************************************************)
(* The transcoder                                                          *)
(***************************************************************************)
\* close() begins with the death of the process; the chainer is there from open()
\* on or never, and nobody but close() forgets it.
ClosedInv ==
  /\ tr_chained \in BOOLEAN /\ tr_threadRunning \in BOOLEAN
  /\ tr_main \in {"runs", "dead"} /\ (tr_closing # "no" => tr_main = "dead")
  /\ tr_closing \in {"no", "kills"} => (tr_threadRunning <=> tr_chained)
  /\ ~tr_chained => tr_cpc = "none"
  /\ tr_closing \in {"unlinks", "closed", "closed again"} => tr_cpc \in {"none", "over"}

LEMMA ClosedStep ==
  ASSUME ClosedInv, [Transcoding!Next]_(Transcoding!vars) PROVE ClosedInv'
<1> USE DEF Transcoding!process, Transcoding!input, Transcoding!output, Transcoding!reader,
            Transcoding!chainer, Transcoding!files
<1> DEFINE Aside == UNCHANGED <<tr_chained, tr_threadRunning, tr_closing>>
           Alive == UNCHANGED tr_main \/ tr_main' = "dead"
<1>1. ASSUME Aside, Alive, UNCHANGED tr_cpc PROVE ClosedInv'
  BY <1>1 DEF ClosedInv
<1>2. ASSUME Transcoding!Transcoder PROVE Aside /\ Alive /\ UNCHANGED tr_cpc
  <2>1. CASE Transcoding!Opens
    BY <2>1 DEF Transcoding!Opens
  <2>2. CASE Transcoding!Consumes
    BY <2>2 DEF Transcoding!Consumes
  <2>3. CASE Transcoding!Produces
    BY <2>3 DEF Transcoding!Produces
  <2>4. CASE Transcoding!Exits
    BY <2>4 DEF Transcoding!Exits, Transcoding!Dies
  <2> QED BY <1>2, <2>1, <2>2, <2>3, <2>4 DEF Transcoding!Transcoder
<1>3. ASSUME Transcoding!Read \/ Transcoding!Reading PROVE Aside /\ Alive /\ UNCHANGED tr_cpc
  <2>1. CASE Transcoding!Read
    BY <2>1 DEF Transcoding!Read
  <2>2. CASE Transcoding!ReadBytes
    BY <2>2 DEF Transcoding!ReadBytes
  <2>3. CASE Transcoding!ReadEnd
    BY <2>3 DEF Transcoding!ReadEnd
  <2>4. CASE Transcoding!ReadTimesOut
    BY <2>4 DEF Transcoding!ReadTimesOut
  <2> QED BY <1>3, <2>1, <2>2, <2>3, <2>4 DEF Transcoding!Reading
<1>4. CASE Transcoding!Chaining
  <2>1. Aside /\ UNCHANGED tr_main /\ tr_cpc \notin {"none", "over"}
    BY <1>4 DEF Transcoding!Chaining, Transcoding!ChainerOpens, Transcoding!ChainerReads,
                Transcoding!ChainerWrites, Transcoding!ChainerFails, Transcoding!ChainerTimesOut,
                Transcoding!ChainerEnds
  <2> QED BY <2>1 DEF ClosedInv
<1>5. CASE Transcoding!CloseKills
  <2>1. /\ UNCHANGED <<tr_chained, tr_threadRunning, tr_cpc>>
        /\ tr_closing = "no" /\ tr_closing' = "kills"
    BY <1>5 DEF Transcoding!CloseKills
  <2>2. tr_main' = "dead"
    BY <1>5 DEF Transcoding!CloseKills, Transcoding!Killed, Transcoding!Dies, ClosedInv
  <2> QED BY <2>1, <2>2 DEF ClosedInv
<1>6. CASE Transcoding!Closing
  BY <1>6 DEF Transcoding!Closing, Transcoding!KillChainer, Transcoding!JoinChainer, Transcoding!Joined,
              Transcoding!ToldToEnd, Transcoding!CloseFd, Transcoding!CloseAgain, ClosedInv
<1>7. CASE Transcoding!Reused
  BY <1>1, <1>7 DEF Transcoding!Reused
<1>8. CASE Transcoding!ServerStops
  BY <1>1, <1>8 DEF Transcoding!ServerStops, Transcoding!Dies
<1>9. CASE UNCHANGED Transcoding!vars
  BY <1>1, <1>9 DEF Transcoding!vars
<1> QED BY <1>1, <1>2, <1>3, <1>4, <1>5, <1>6, <1>7, <1>8, <1>9 DEF Transcoding!Next

(* After close() the transcoder is dead and the thread that feeds it gone, *)
(* whatever the two are at when the web server closes, or the content      *)
(* manager kills the process (process_io_handler.cc, io_handler_chainer.cc). *)
THEOREM NobodyIsLeftBehind == Transcoding!Spec => []NothingLeftBehind
<1>1. Transcoding!Init => ClosedInv
  BY DEF Transcoding!Init, ClosedInv
<1>2. ClosedInv => NothingLeftBehind
  BY DEF ClosedInv, NothingLeftBehind, Transcoding!NothingLeftBehind
<1> QED BY <1>1, <1>2, ClosedStep, PTL DEF Transcoding!Spec

(***************************************************************************)
(* The components together                                                 *)
(***************************************************************************)
LEMMA PartsStart ==
  ASSUME ThreadsInit PROVE Init /\ Cache!Init /\ Transcoding!Init
BY DEF ThreadsInit

\* A step of one component leaves the others as they are.
LEMMA PartsStep ==
  ASSUME [ThreadsNext]_allVars
  PROVE  [Next]_vars /\ [Cache!Next]_(Cache!vars) /\ [Transcoding!Next]_(Transcoding!vars)
<1>1. sc_vars' = sc_vars => Cache!vars' = Cache!vars
  BY DEF sc_vars, Cache!vars
<1>2. tr_vars' = tr_vars => Transcoding!vars' = Transcoding!vars
  BY DEF tr_vars, Transcoding!vars, Transcoding!process, Transcoding!input, Transcoding!output,
         Transcoding!reader, Transcoding!chainer, Transcoding!files
<1>3. CASE UNCHANGED allVars
  BY <1>1, <1>2, <1>3 DEF allVars
<1>4. CASE ThreadsNext
  BY <1>1, <1>2, <1>4 DEF ThreadsNext, Others
<1> QED BY <1>3, <1>4

(* Side by side, with one thread that writes to the storage, no failed     *)
(* flush, and anything the others may do: a backup is due for every        *)
(* change, init() ends with a good database, close() leaves nothing        *)
(* behind, no file has two rows, and the cache agrees with the database.   *)
THEOREM PartsAreSafe ==
  ASSUME ~MayFail, NEW w \in Users, OneWriter(w)
  PROVE  ThreadsSpec => [](/\ BackupsCoverChanges /\ InitLeavesGoodDatabase
                           /\ NothingLeftBehind /\ OneRowPerFile /\ CacheIsCurrent)
<1> DEFINE Inv == IInv /\ ClosedInv /\ CacheTypes /\ RowInv(w) /\ CurrentInv(w)
<1>1. SqliteAssumption /\ Cache!StorageCacheAssumption /\ OneAdder(w)
  BY StorageThreadsAssumption DEF OneWriter, OneAdder
<1>2. ThreadsInit => Inv
  <2> SUFFICES ASSUME ThreadsInit PROVE Inv
    OBVIOUS
  <2>1. IInv
    BY <1>1, PartsStart, InitIInv
  <2>2. ClosedInv
    BY PartsStart DEF Transcoding!Init, ClosedInv
  <2> QED BY <2>1, <2>2, PartsStart, CacheStarts
<1>3. Inv /\ [ThreadsNext]_allVars => Inv'
  <2> SUFFICES ASSUME Inv, [ThreadsNext]_allVars PROVE Inv'
    OBVIOUS
  <2>1. IInv'
    BY <1>1, PartsStep, StepIInv
  <2>2. ClosedInv'
    BY PartsStep, ClosedStep
  <2>3. CacheTypes' /\ RowInv(w)' /\ CurrentInv(w)'
    BY <1>1, PartsStep, RowStep, CurrentStep
  <2> QED BY <2>1, <2>2, <2>3
<1>4. Inv => /\ BackupsCoverChanges /\ InitLeavesGoodDatabase
             /\ NothingLeftBehind /\ OneRowPerFile /\ CacheIsCurrent
  BY IInvImplies, RowsImply, CurrentImplies DEF ClosedInv, NothingLeftBehind,
     Transcoding!NothingLeftBehind
<1> QED BY <1>2, <1>3, <1>4, PTL DEF ThreadsSpec
=============================================================================
