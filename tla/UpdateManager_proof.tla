------------------------- MODULE UpdateManager_proof -------------------------
(***************************************************************************)
(* Theorems about UpdateManager, for any containers, callers and limits,   *)
(* and whether or not the storage fails.                                   *)
(***************************************************************************)
EXTENDS UpdateManager, TLAPS

USE UpdateAssumption

(* Skipping the last container is right because that container is pending: *)
(* the cache is emptied when the hash is, under the same mutex.            *)
CacheInv == lastContainerChanged # INVALID_OBJECT_ID
              => lastContainerChanged \in objectIDHash

UInv == TypeOK /\ CacheInv /\ NoChangeForgotten

LEMMA UInit == Init => UInv
<1> SUFFICES ASSUME Init PROVE UInv
  OBVIOUS
<1>1. /\ pc \in [Callers -> {"idle", "loop", "between"}]
      /\ signal \in [Callers -> BOOLEAN] /\ split \in [Callers -> BOOLEAN]
  BY Zenon DEF Init
<1>2. ids \in [Callers -> Seq(Containers)]
  <2>1. << >> \in Seq(Containers)
    OBVIOUS
  <2>. QED
    BY <2>1, Zenon DEF Init
<1>. QED
  BY <1>1, <1>2
     DEF Init, UInv, TypeOK, CacheInv, NoChangeForgotten, Policies, FLUSH_SPEC, Free

(* A notification moves the update thread to one of its control points.    *)
LEMMA WokenType ==
  ASSUME tpc \in {"loop", "idle", "sleep", "woken", "send", "done"}
  PROVE  Woken \in {"loop", "woken", "send", "done"}
BY DEF Woken

LEMMA UStep == UInv /\ [Next]_vars => UInv'
<1> SUFFICES ASSUME UInv, [Next]_vars PROVE UInv'
  OBVIOUS
<1> USE DEF UInv, TypeOK, shared, callers
<1>0. Woken \in {"loop", "woken", "send", "done"}
  BY WokenType
<1>1. ASSUME NEW c \in Callers, NEW id \in Containers, NEW policy \in Policies,
             ContainerChanged(c, id, policy)
      PROVE  UInv'
  <2>1. TypeOK'
    BY <1>0, <1>1 DEF ContainerChanged
  <2>2. CacheInv' /\ NoChangeForgotten'
    BY <1>1 DEF ContainerChanged, CacheInv, NoChangeForgotten
  <2>. QED
    BY <2>1, <2>2
<1>2. ASSUME NEW c \in Callers, NEW arr \in Arrays, NEW policy \in Policies,
             CallContainersChanged(c, arr, policy)
      PROVE  UInv'
  <2>1. arr \in Seq(Containers)
    OBVIOUS
  <2>2. /\ ids' = [ids EXCEPT ![c] = arr] /\ pc' = [pc EXCEPT ![c] = "loop"]
        /\ mutex' = c /\ flushPolicy' \in Policies
        /\ UNCHANGED <<objectIDHash, lastContainerChanged, owed, shutdownFlag,
                       elapsed, tpc, paused, killed>>
    BY <1>2 DEF CallContainersChanged
  <2>3. signal' \in [Callers -> BOOLEAN] /\ split' \in [Callers -> BOOLEAN]
    <3>1. \A s \in BOOLEAN : /\ [signal EXCEPT ![c] = s] \in [Callers -> BOOLEAN]
                             /\ [split EXCEPT ![c] = s] \in [Callers -> BOOLEAN]
      BY Zenon
    <3>2. (~haveUpdates \/ policy > flushPolicy) \in BOOLEAN
      BY Zenon
    <3>3. (Cardinality(objectIDHash) + Len(arr)
             >= MAX_OBJECT_IDS + MAX_OBJECT_IDS_OVERLOAD) \in BOOLEAN
      OBVIOUS
    <3>. QED
      BY <1>2, <3>1, <3>2, <3>3, Zenon DEF CallContainersChanged
  <2>. QED
    BY <2>1, <2>2, <2>3 DEF CacheInv, NoChangeForgotten
<1>3. ASSUME NEW c \in Callers, InsertNext(c) PROVE UInv'
  <2>1. ids[c] \in Seq(Containers) /\ ids[c] # << >>
    BY <1>3 DEF InsertNext
  <2>2. Head(ids[c]) \in Containers /\ Tail(ids[c]) \in Seq(Containers)
    BY <2>1
  <2>3. TypeOK'
    <3>1. /\ objectIDHash' \subseteq Containers /\ owed' \subseteq Containers
          /\ ids' \in [Callers -> Seq(Containers)]
      BY <1>3, <2>2 DEF InsertNext
    <3>2. /\ tpc' \in {"loop", "idle", "sleep", "woken", "send", "done"}
          /\ mutex' \in Callers \union {Free}
          /\ pc' \in [Callers -> {"idle", "loop", "between"}]
      BY <1>0, <1>3 DEF InsertNext
    <3>. QED
      BY <1>3, <3>1, <3>2 DEF InsertNext
  <2>4. CacheInv' /\ NoChangeForgotten'
    <3>1. lastContainerChanged' = lastContainerChanged
          /\ objectIDHash \subseteq objectIDHash'
      BY <1>3 DEF InsertNext
    <3>2. Head(ids[c]) \in objectIDHash'
      BY <1>3, <2>2 DEF InsertNext, CacheInv
    <3>3. owed' = owed \union {Head(ids[c])}
      BY <1>3 DEF InsertNext
    <3>. QED
      BY <3>1, <3>2, <3>3 DEF CacheInv, NoChangeForgotten
  <2>. QED
    BY <2>3, <2>4
<1>4. ASSUME NEW c \in Callers, InBetween(c) PROVE UInv'
  BY <1>0, <1>4 DEF InBetween, CacheInv, NoChangeForgotten
<1>5. ASSUME NEW c \in Callers, FinishContainersChanged(c) PROVE UInv'
  BY <1>0, <1>5 DEF FinishContainersChanged, CacheInv, NoChangeForgotten
<1>6. CASE ThreadFlush
  BY <1>6 DEF ThreadFlush, Flush, ThreadKeeps, CacheInv, NoChangeForgotten, Policies
<1>7. CASE ThreadExit \/ ThreadWait \/ ThreadTimeout \/ ThreadSent \/ TimePasses
  BY <1>7 DEF ThreadExit, ThreadWait, ThreadTimeout, ThreadSent, TimePasses,
              ThreadKeeps, CacheInv, NoChangeForgotten
<1>8. CASE SpuriousWakeup \/ Shutdown
  BY <1>0, <1>8 DEF SpuriousWakeup, Shutdown, ThreadKeeps, CacheInv, NoChangeForgotten
<1>9. CASE UNCHANGED vars
  BY <1>9 DEF vars, CacheInv, NoChangeForgotten
<1>. QED
  BY <1>1, <1>2, <1>3, <1>4, <1>5, <1>6, <1>7, <1>8, <1>9
     DEF Next, CallerStep, ThreadStep

(* No report of a change is ever lost to the cache of the last container,  *)
(* to a flush in the middle of containersChanged(), or to a storage error. *)
THEOREM ChangesArePending == Spec => []NoChangeForgotten
<1>1. UInv => NoChangeForgotten
  BY DEF UInv
<1>. QED
  BY UInit, UStep, <1>1, PTL DEF Spec

(* The types of the variables of the update manager.                       *)
THEOREM UpdateTypeCorrect == Spec => []TypeOK
<1>1. UInv => TypeOK
  BY DEF UInv
<1>. QED
  BY UInit, UStep, <1>1, PTL DEF Spec
=============================================================================
