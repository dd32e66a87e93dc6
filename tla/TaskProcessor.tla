---------------------------- MODULE TaskProcessor ----------------------------
(***************************************************************************)
(* task_processor.cc: the thread that fetches the content of the online    *)
(* services, and the life of a refresh: the timer or a user asks the       *)
(* content manager, whose task thread hands a task over to the processor,  *)
(* which may queue another for the next page, and the last one subscribes  *)
(* to the timer again.  The count of the tasks of a service is a plain     *)
(* integer that several threads change: each change is a read and a write. *)
(***************************************************************************)
EXTENDS Integers, Sequences, FiniteSets, SequencesExt

CONSTANTS
  Services,
  Askers,               \* threads that call fetchOnlineContent()
  MaxFetches,           \* bound on the refreshes that are started
  MaxPages              \* bound on the pages of all refreshes after the first one

\* What the constants are, ASSUMEd where they have values.
TaskProcessorAssumption == MaxFetches \in Nat /\ MaxPages \in Nat

VARIABLES
  taskQueue, taskID, currentTask, shutdownFlag, mutex,
  tpc,                  \* the thread; "waits" is in cond.wait()
  stopper,              \* shutdown(): "no", "flagged", "joins", "done"
  contentQueue,         \* tasks of the content manager that hand one over
  asker,                \* of each asker: where it is, for which service, and what it read
  taskCount, read,      \* of each service, and what the thread read of it
  subscribed,           \* services the timer will refresh
  fetches, pages

queue   == <<taskQueue, taskID>>
process == <<currentTask, shutdownFlag, tpc>>
counts  == <<taskCount, read>>
bounds  == <<fetches, pages>>
vars    == <<queue, process, mutex, stopper, contentQueue, asker, counts, subscribed, bounds>>

None == "none"
NoTask == [id |-> 0, s |-> None, u |-> FALSE]
Idle == [pc |-> "idle", s |-> None, u |-> FALSE, read |-> 0]

Init ==
  /\ taskQueue = <<>> /\ taskID = 1 /\ currentTask = NoTask
  /\ shutdownFlag = FALSE /\ mutex = None /\ tpc = "top" /\ stopper = "no"
  /\ contentQueue = <<>>
  /\ asker = [a \in Askers |-> Idle]
  /\ taskCount = [s \in Services |-> 0] /\ read = 0
  /\ subscribed = Services
  /\ fetches = 0 /\ pages = 0

NotNotified == tpc                            \* mutant: the call is missing
Notified == IF tpc = "waits" THEN "top" ELSE tpc

(* addTask() of the processor: one section.                                *)
AddTask(s, u) ==
  /\ mutex = None
  /\ taskQueue' = Append(taskQueue, [id |-> taskID, s |-> s, u |-> u])
  /\ taskID' = taskID + 1

(***************************************************************************)
(* fetchOnlineContent(), from the timer (one callback, then it forgets the *)
(* service) or from a user                                                 *)
(***************************************************************************)
Fetch(a, s, u) ==
  /\ asker[a] = Idle /\ fetches < MaxFetches
  /\ asker' = [asker EXCEPT ![a] = [pc |-> "reads", s |-> s, u |-> u, read |-> 0]]
  /\ fetches' = fetches + 1
  /\ UNCHANGED <<queue, process, mutex, stopper, contentQueue, counts, pages>>

TimerFetches(a) ==
  \E s \in subscribed : Fetch(a, s, FALSE) /\ subscribed' = subscribed \ {s}

UserFetches(a) ==
  \E s \in Services : Fetch(a, s, TRUE) /\ UNCHANGED subscribed

IncReads(a) ==
  /\ asker[a].pc = "reads"
  /\ asker' = [asker EXCEPT ![a].pc = "writes", ![a].read = taskCount[asker[a].s]]
  /\ UNCHANGED <<queue, process, mutex, stopper, contentQueue, counts, subscribed, bounds>>

incTaskCount(a) ==
  /\ asker[a].pc = "writes"
  /\ taskCount' = [taskCount EXCEPT ![asker[a].s] = asker[a].read + 1]
  /\ contentQueue' = Append(contentQueue, [s |-> asker[a].s, u |-> asker[a].u])
  /\ asker' = [asker EXCEPT ![a] = Idle]
  /\ UNCHANGED <<queue, process, mutex, stopper, read, subscribed, bounds>>

(* CMFetchOnlineContentTask::run(), in the thread of the content manager.  *)
HandOver ==
  /\ contentQueue # <<>>
  /\ AddTask(Head(contentQueue).s, Head(contentQueue).u)
  /\ tpc' = Notified
  /\ contentQueue' = Tail(contentQueue)
  /\ UNCHANGED <<currentTask, shutdownFlag, mutex, stopper, asker, counts, subscribed, bounds>>

(***************************************************************************)
(* threadProc()                                                            *)
(***************************************************************************)
Dequeued == Head(taskQueue)

Dequeue ==
  /\ tpc = "top" /\ mutex = None /\ ~shutdownFlag
  /\ IF taskQueue = <<>>
     THEN tpc' = "waits" /\ currentTask' = NoTask /\ UNCHANGED taskQueue
     ELSE /\ currentTask' = Dequeued
          /\ taskQueue' = SelectSeq(taskQueue, LAMBDA t : t # Dequeued)
          /\ tpc' = "runs"
  /\ UNCHANGED <<taskID, shutdownFlag, mutex, stopper, contentQueue, asker, counts, subscribed, bounds>>

(* refreshServiceData(): there is another page, or this was the last, or   *)
(* it failed; the task is queued again, without being counted.             *)
Refresh ==
  /\ tpc = "runs"
  /\ \/ /\ pages < MaxPages
        /\ AddTask(currentTask.s, currentTask.u)
        /\ pages' = pages + 1
     \/ UNCHANGED <<queue, pages>>
  /\ tpc' = "decs"
  /\ UNCHANGED <<currentTask, shutdownFlag, mutex, stopper, contentQueue, asker, counts, subscribed, fetches>>

DecReads ==
  /\ tpc = "decs"
  /\ read' = taskCount[currentTask.s] /\ tpc' = "writes"
  /\ UNCHANGED <<queue, currentTask, shutdownFlag, mutex, stopper, contentQueue, asker, taskCount,
                 subscribed, bounds>>

decTaskCount ==
  /\ tpc = "writes"
  /\ taskCount' = [taskCount EXCEPT ![currentTask.s] = read - 1]
  /\ tpc' = "asks"
  /\ UNCHANGED <<queue, currentTask, shutdownFlag, mutex, stopper, contentQueue, asker, read,
                 subscribed, bounds>>

(* A second subscription throws, which the thread catches.                 *)
Subscribe ==
  /\ tpc = "asks"
  /\ subscribed' = IF taskCount[currentTask.s] = 0 /\ ~currentTask.u
                   THEN subscribed \union {currentTask.s} ELSE subscribed
  /\ tpc' = "over"
  /\ UNCHANGED <<queue, currentTask, shutdownFlag, mutex, stopper, contentQueue, asker, counts, bounds>>

(* The mutex is taken again, unless the flag was seen; the flag ends the   *)
(* loop.  currentTask is left to the next turn.                            *)
Loop ==
  /\ tpc = "over" /\ (mutex = None \/ shutdownFlag)
  /\ tpc' = "top"
  /\ UNCHANGED <<queue, currentTask, shutdownFlag, mutex, stopper, contentQueue, asker, counts,
                 subscribed, bounds>>

ThreadEnds ==
  /\ tpc = "top" /\ shutdownFlag
  /\ tpc' = "gone"
  /\ UNCHANGED <<queue, currentTask, shutdownFlag, mutex, stopper, contentQueue, asker, counts,
                 subscribed, bounds>>

(***************************************************************************)
(* getTasklist() and invalidateTask(), asked by the tasks page, take the   *)
(* mutex and then call getCurrentTask(), which takes it again: they never  *)
(* come back, and so no task is ever invalidated                           *)
(***************************************************************************)
getTasklist ==
  /\ mutex = None
  /\ mutex' = "list"
  /\ UNCHANGED <<queue, process, stopper, contentQueue, asker, counts, subscribed, bounds>>

(***************************************************************************)
(* shutdown() takes no mutex                                               *)
(***************************************************************************)
ShutdownFlags ==
  /\ stopper = "no"
  /\ shutdownFlag' = TRUE /\ stopper' = "flagged"
  /\ UNCHANGED <<queue, currentTask, tpc, mutex, contentQueue, asker, counts, subscribed, bounds>>

ShutdownSignals ==
  /\ stopper = "flagged"
  /\ tpc' = Notified /\ stopper' = "joins"
  /\ UNCHANGED <<queue, currentTask, shutdownFlag, mutex, contentQueue, asker, counts, subscribed, bounds>>

Join ==
  /\ stopper = "joins" /\ tpc = "gone"
  /\ stopper' = "done"
  /\ UNCHANGED <<queue, process, mutex, contentQueue, asker, counts, subscribed, bounds>>

(* The thread read the flag as FALSE before it is in cond.wait(): the test *)
(* and the wait hold the mutex, shutdown() does not, so it can set the     *)
(* flag and signal between the two.                                        *)
ShutdownBetween ==
  /\ stopper = "no" /\ tpc = "top" /\ mutex = None /\ ~shutdownFlag /\ taskQueue = <<>>
  /\ shutdownFlag' = TRUE /\ stopper' = "joins"
  /\ tpc' = "waits" /\ currentTask' = NoTask
  /\ UNCHANGED <<queue, mutex, contentQueue, asker, counts, subscribed, bounds>>

Thread == Dequeue \/ Refresh \/ DecReads \/ decTaskCount \/ Subscribe \/ Loop \/ ThreadEnds
Count(a) == IncReads(a) \/ incTaskCount(a)

Next ==
  \/ Thread \/ HandOver \/ getTasklist
  \/ ShutdownFlags \/ ShutdownSignals \/ Join \/ ShutdownBetween
  \/ \E a \in Askers : TimerFetches(a) \/ UserFetches(a) \/ Count(a)

Fairness ==
  /\ WF_vars(Thread) /\ WF_vars(HandOver) /\ WF_vars(ShutdownSignals) /\ WF_vars(Join)
  /\ \A a \in Askers : WF_vars(Count(a))

Spec == Init /\ [][Next]_vars /\ Fairness

(***************************************************************************)
(* Properties                                                              *)
(***************************************************************************)
Tasks == [id : Nat, s : Services, u : BOOLEAN]

(* Every variable has its type (TaskProcessor).                            *)
TypeOK ==
  /\ taskQueue \in Seq(Tasks) /\ currentTask \in Tasks \union {NoTask}
  /\ taskID \in Nat /\ shutdownFlag \in BOOLEAN
  /\ mutex \in {None, "list"} /\ stopper \in {"no", "flagged", "joins", "done"}
  /\ tpc \in {"top", "waits", "runs", "decs", "writes", "asks", "over", "gone"}
  /\ taskCount \in [Services -> Int] /\ subscribed \subseteq Services
  /\ fetches \in 0..MaxFetches /\ pages \in 0..MaxPages

(* Tasks are run in the order of their numbers, each once: also those that *)
(* the thread itself puts behind what others queued meanwhile.             *)
TasksInOrder ==
  /\ \A i \in 1..Len(taskQueue) - 1 : taskQueue[i].id < taskQueue[i + 1].id
  /\ currentTask # NoTask /\ taskQueue # <<>> => currentTask.id < Head(taskQueue).id

(* A thread that sleeps has nothing to do: addTask() signals under the     *)
(* mutex that the test of the queue and the wait hold.                     *)
NoTaskOverslept == tpc = "waits" => taskQueue = <<>>

(* A queued task is taken, unless the tasks page hangs with the mutex.     *)
TasksTaken == \A s \in Services :
  (\E i \in DOMAIN taskQueue : taskQueue[i].s = s) ~>
    (currentTask # NoTask /\ currentTask.s = s) \/ shutdownFlag \/ mutex # None

(* "When timer gets to zero, we will resubscribe": a service of which      *)
(* nothing is under way waits for the timer.                               *)
Underway(s) ==
  \/ \E i \in DOMAIN taskQueue : taskQueue[i].s = s
  \/ \E i \in DOMAIN contentQueue : contentQueue[i].s = s
  \/ \E a \in Askers : asker[a].s = s
  \/ tpc \in {"runs", "decs", "writes", "asks"} /\ currentTask.s = s
RefreshesContinue == \A s \in Services : Underway(s) \/ s \in subscribed

(* The list of the tasks and the cancellation come back.                   *)
ListReturns == mutex = "list" ~> mutex = None

(* The shutdown joins the thread.                                          *)
ShutdownEnds == stopper # "no" ~> stopper = "done"
=============================================================================
