---------------------------- MODULE UpdateManager ----------------------------
(***************************************************************************)
(* update_manager.cc: threads of the server report changed containers; the *)
(* update thread increments their update IDs in the storage and sends one  *)
(* subscription update for all of them, at most every SPEC_INTERVAL unless *)
(* a caller asks for FLUSH_ASAP or MAX_OBJECT_IDS containers are pending.  *)
(*                                                                         *)
(* A section that runs under the mutex is one action.  containersChanged() *)
(* holds the mutex from one id to the next (mutex = c) and releases it in  *)
(* its in-between loop.  Time is one bit: whether SPEC_INTERVAL has passed *)
(* since the last update was sent.                                         *)
(*                                                                         *)
(* Control of the update thread: "loop" before the head of the loop, with  *)
(* the mutex to be taken; "idle" in cond.wait(); "sleep" in wait_for();    *)
(* "woken" notified in there; "send" sending, the mutex released; "done".  *)
(***************************************************************************)
EXTENDS Integers, Sequences, FiniteSets

CONSTANTS
  Containers,           \* object IDs of containers
  INVALID_OBJECT_ID,
  Callers,              \* threads that report changes
  Arrays,               \* arguments of containersChanged()
  MAX_OBJECT_IDS, MAX_OBJECT_IDS_OVERLOAD,
  Failures              \* incrementing and sending may throw

ASSUME UpdateAssumption ==
  /\ INVALID_OBJECT_ID \notin Containers
  /\ Arrays \subseteq Seq(Containers)
  /\ MAX_OBJECT_IDS \in Nat \ {0}
  /\ MAX_OBJECT_IDS_OVERLOAD \in Nat \ {0}
  /\ Failures \in BOOLEAN

VARIABLES
  mutex,                \* who holds the mutex from one action to the next
  objectIDHash,         \* containers whose update is pending
  flushPolicy, lastContainerChanged, shutdownFlag,
  elapsed,              \* SPEC_INTERVAL has passed since lastUpdate
  tpc,                  \* the update thread
  pc, ids, signal, split,   \* the callers inside containersChanged()
  paused,               \* an in-between loop was entered once
  owed,                 \* containers reported since their last increment
  killed                \* kill(0, SIGINT) was called

shared  == <<objectIDHash, flushPolicy, lastContainerChanged, owed>>
callers == <<pc, ids, signal, split, paused>>
vars    == <<mutex, shared, shutdownFlag, elapsed, tpc, callers, killed>>

FLUSH_SPEC == 1
FLUSH_ASAP == 2
Policies   == {FLUSH_SPEC, FLUSH_ASAP}
Free       == "free"

haveUpdates == objectIDHash # {}

(* Mutant of Woken: the notification is missing.                           *)
NotWoken == tpc

(* cond.notify_one(): only the update thread waits on cond.                *)
Woken == CASE tpc = "idle"  -> "loop"
           [] tpc = "sleep" -> "woken"
           [] OTHER         -> tpc

Init ==
  /\ mutex = Free
  /\ objectIDHash = {} /\ owed = {}
  /\ flushPolicy = FLUSH_SPEC
  /\ lastContainerChanged = INVALID_OBJECT_ID
  /\ shutdownFlag = FALSE /\ killed = FALSE
  /\ elapsed = FALSE
  /\ tpc = "loop"
  /\ pc = [c \in Callers |-> "idle"]
  /\ ids = [c \in Callers |-> << >>]
  /\ signal = [c \in Callers |-> FALSE]
  /\ split = [c \in Callers |-> FALSE]
  /\ paused = FALSE

(***************************************************************************)
(* containerChanged(): a container equal to the last one is skipped, for   *)
(* it is pending already.                                                  *)
(***************************************************************************)
ContainerChanged(c, id, policy) ==
  /\ pc[c] = "idle" /\ mutex = Free
  /\ owed' = owed \union {id}
  /\ IF id # lastContainerChanged \/ policy > flushPolicy
     THEN /\ objectIDHash' = objectIDHash \union {id}
          /\ lastContainerChanged' = id
          /\ flushPolicy' = IF policy > flushPolicy THEN policy ELSE flushPolicy
          /\ tpc' = IF \/ ~haveUpdates
                       \/ Cardinality(objectIDHash') >= MAX_OBJECT_IDS
                       \/ policy > flushPolicy
                    THEN Woken ELSE tpc
     ELSE UNCHANGED <<objectIDHash, lastContainerChanged, flushPolicy, tpc>>
  /\ UNCHANGED <<mutex, shutdownFlag, elapsed, callers, killed>>

(***************************************************************************)
(* containersChanged(): whether to signal is decided on entry.             *)
(***************************************************************************)
CallContainersChanged(c, arr, policy) ==
  /\ pc[c] = "idle" /\ mutex = Free
  /\ mutex' = c
  /\ pc' = [pc EXCEPT ![c] = "loop"]
  /\ ids' = [ids EXCEPT ![c] = arr]
  /\ signal' = [signal EXCEPT ![c] = ~haveUpdates \/ policy > flushPolicy]
  /\ split' = [split EXCEPT ![c] =
                 Cardinality(objectIDHash) + Len(arr)
                   >= MAX_OBJECT_IDS + MAX_OBJECT_IDS_OVERLOAD]
  /\ flushPolicy' = IF policy > flushPolicy THEN policy ELSE flushPolicy
  /\ UNCHANGED <<objectIDHash, lastContainerChanged, owed, shutdownFlag,
                 elapsed, tpc, paused, killed>>

(* One id.  A long array pauses when too many containers are pending.      *)
InsertNext(c) ==
  /\ pc[c] = "loop" /\ ids[c] # << >>
  /\ LET id  == Head(ids[c])
         new == IF id = lastContainerChanged THEN objectIDHash
                ELSE objectIDHash \union {id}
     IN  /\ owed' = owed \union {id}
         /\ objectIDHash' = new
         /\ IF /\ id # lastContainerChanged
               /\ split[c]
               /\ Cardinality(new) > MAX_OBJECT_IDS
            THEN /\ tpc' = Woken
                 /\ mutex' = Free
                 /\ pc' = [pc EXCEPT ![c] = "between"]
                 /\ paused' = TRUE
            ELSE UNCHANGED <<tpc, mutex, pc, paused>>
  /\ ids' = [ids EXCEPT ![c] = Tail(@)]
  /\ UNCHANGED <<flushPolicy, lastContainerChanged, shutdownFlag, elapsed,
                 signal, split, killed>>

(* The in-between loop took the mutex again.                               *)
InBetween(c) ==
  /\ pc[c] = "between" /\ mutex = Free
  /\ IF Cardinality(objectIDHash) > MAX_OBJECT_IDS
     THEN tpc' = Woken /\ UNCHANGED <<mutex, pc>>
     ELSE /\ mutex' = c
          /\ pc' = [pc EXCEPT ![c] = "loop"]
          /\ UNCHANGED tpc
  /\ UNCHANGED <<shared, shutdownFlag, elapsed, ids, signal, split, paused,
                 killed>>

FinishContainersChanged(c) ==
  /\ pc[c] = "loop" /\ ids[c] = << >>
  /\ tpc' = IF signal[c] \/ Cardinality(objectIDHash) >= MAX_OBJECT_IDS
            THEN Woken ELSE tpc
  /\ mutex' = Free
  /\ pc' = [pc EXCEPT ![c] = "idle"]
  /\ UNCHANGED <<shared, shutdownFlag, elapsed, ids, signal, split, paused,
                 killed>>

(***************************************************************************)
(* threadProc()                                                            *)
(***************************************************************************)

(* Mutant of Flush: the cache of the last container survives the flush.    *)
FlushKeepsLast ==
  /\ flushPolicy' = FLUSH_SPEC
  /\ tpc' = "send"
  /\ objectIDHash' = {}
  /\ owed' = owed \ objectIDHash
  /\ UNCHANGED <<lastContainerChanged, killed>>

(* The IDs are incremented under the mutex, the update is sent without it. *)
(* incrementUpdateIDs() may throw: the containers stay pending.            *)
Flush ==
  /\ lastContainerChanged' = INVALID_OBJECT_ID
  /\ flushPolicy' = FLUSH_SPEC
  /\ tpc' = "send"
  /\ \/ /\ objectIDHash' = {}
        /\ owed' = owed \ objectIDHash
        /\ UNCHANGED killed
     \/ /\ Failures
        /\ killed' = TRUE
        /\ UNCHANGED <<objectIDHash, owed>>

MustSleep == /\ flushPolicy = FLUSH_SPEC
             /\ ~elapsed
             /\ Cardinality(objectIDHash) < MAX_OBJECT_IDS

ThreadKeeps == UNCHANGED <<mutex, shutdownFlag, elapsed, callers>>

ThreadExit ==
  /\ tpc \in {"loop", "woken"} /\ mutex = Free /\ shutdownFlag
  /\ tpc' = "done"
  /\ ThreadKeeps /\ UNCHANGED <<shared, killed>>

ThreadWait ==
  /\ tpc = "loop" /\ mutex = Free /\ ~shutdownFlag
  /\ \/ ~haveUpdates /\ tpc' = "idle"
     \/ haveUpdates /\ MustSleep /\ tpc' = "sleep"
  /\ ThreadKeeps /\ UNCHANGED <<shared, killed>>

ThreadFlush ==
  /\ mutex = Free /\ ~shutdownFlag
  /\ \/ tpc = "loop" /\ haveUpdates /\ ~MustSleep
     \/ tpc = "woken"
  /\ Flush
  /\ ThreadKeeps

(* wait_for() times out: the loop starts over, the time now being up.      *)
ThreadTimeout ==
  /\ tpc = "sleep" /\ mutex = Free /\ elapsed
  /\ tpc' = "loop"
  /\ ThreadKeeps /\ UNCHANGED <<shared, killed>>

(* The update went out; or there was none, or sending it failed, and       *)
(* lastUpdate stays as it is.                                              *)
ThreadSent ==
  /\ tpc = "send"
  /\ tpc' = "loop"
  /\ \/ elapsed' \in {elapsed, FALSE} /\ UNCHANGED killed
     \/ Failures /\ killed' = TRUE /\ UNCHANGED elapsed
  /\ UNCHANGED <<mutex, shared, shutdownFlag, callers>>

SpuriousWakeup ==
  /\ tpc \in {"idle", "sleep"}
  /\ tpc' = Woken
  /\ ThreadKeeps /\ UNCHANGED <<shared, killed>>

TimePasses ==
  /\ ~elapsed
  /\ elapsed' = TRUE
  /\ UNCHANGED <<mutex, shared, shutdownFlag, tpc, callers, killed>>

(* shutdown(), at any time, and after kill(0, SIGINT) for sure.            *)
Shutdown ==
  /\ mutex = Free /\ ~shutdownFlag
  /\ shutdownFlag' = TRUE
  /\ tpc' = Woken
  /\ UNCHANGED <<mutex, shared, elapsed, callers, killed>>

CallerStep(c) == InsertNext(c) \/ InBetween(c) \/ FinishContainersChanged(c)

ThreadStep == ThreadExit \/ ThreadWait \/ ThreadFlush \/ ThreadTimeout \/ ThreadSent

Next ==
  \/ \E c \in Callers, id \in Containers, policy \in Policies :
       ContainerChanged(c, id, policy)
  \/ \E c \in Callers, arr \in Arrays, policy \in Policies :
       CallContainersChanged(c, arr, policy)
  \/ \E c \in Callers : CallerStep(c)
  \/ ThreadStep
  \/ SpuriousWakeup
  \/ TimePasses
  \/ Shutdown

Spec == Init /\ [][Next]_vars

(* The threads are scheduled and get the mutex they keep asking for, time  *)
(* passes, and a SIGINT leads to a shutdown.                               *)
Fairness ==
  /\ SF_vars(ThreadStep)
  /\ \A c \in Callers : SF_vars(CallerStep(c))
  /\ WF_vars(TimePasses)
  /\ SF_vars(killed /\ Shutdown)

FairSpec == Spec /\ Fairness

(***************************************************************************)
(* Properties.                                                             *)
(***************************************************************************)
TypeOK ==
  /\ mutex \in Callers \union {Free}
  /\ objectIDHash \subseteq Containers
  /\ flushPolicy \in Policies
  /\ lastContainerChanged \in Containers \union {INVALID_OBJECT_ID}
  /\ shutdownFlag \in BOOLEAN /\ elapsed \in BOOLEAN /\ killed \in BOOLEAN
  /\ paused \in BOOLEAN
  /\ tpc \in {"loop", "idle", "sleep", "woken", "send", "done"}
  /\ pc \in [Callers -> {"idle", "loop", "between"}]
  /\ ids \in [Callers -> Seq(Containers)]
  /\ signal \in [Callers -> BOOLEAN]
  /\ split \in [Callers -> BOOLEAN]
  /\ owed \subseteq Containers

(* A container reported as changed since its update ID was last            *)
(* incremented is pending, though reports of the last container are        *)
(* skipped (lines 116 and 146).                                            *)
NoChangeForgotten == owed \subseteq objectIDHash

(* The thread only sleeps without a timeout when nothing is pending and no *)
(* shutdown was asked for: what was put into the hash while it was idle    *)
(* was signalled (lines 100-102 and 148-150), as long as no long array has *)
(* paused.                                                                 *)
IdleOnlyWithoutWork ==
  tpc = "idle" => (~haveUpdates /\ ~shutdownFlag) \/ mutex # Free \/ paused

(* A pending change is sent in the end, unless the server goes down.       *)
ChangesAreFlushed ==
  \A id \in Containers : (id \in owed) ~> (id \notin owed \/ shutdownFlag)

(* The same, as long as no long array has paused (lines 122-128).          *)
FlushedUnlessPaused ==
  \A id \in Containers : (id \in owed) ~> (id \notin owed \/ shutdownFlag \/ paused)

(* A caller leaves containersChanged(), whose in-between loop waits for    *)
(* the thread, unless the server goes down.                                *)
CallersReturn ==
  \A c \in Callers : (pc[c] # "idle") ~> (pc[c] = "idle" \/ shutdownFlag)

(* shutdown() can join the thread.                                         *)
ThreadStops == shutdownFlag ~> (tpc = "done")
=============================================================================
