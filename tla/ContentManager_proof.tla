------------------------ MODULE ContentManager_proof ------------------------
(***************************************************************************)
(* Theorems about ContentManager, for any directories, autoscan            *)
(* directories, requests and bounds.                                       *)
(***************************************************************************)
EXTENDS ContentManager, SequenceTheorems, FiniteSetTheorems, FunctionTheorems, TLAPS

(***************************************************************************)
(* The task thread sleeps only without work: every action that gives it    *)
(* some wakes it, or is its own.                                           *)
(***************************************************************************)

(* A signal() leaves nobody waiting.                                       *)
LEMMA NobodyWaits == Signalled # "wait"
BY DEF Signalled

LEMMA IdleStep ==
  IdleOnlyWithoutWork /\ [Next]_vars => IdleOnlyWithoutWork'
<1> SUFFICES ASSUME IdleOnlyWithoutWork, [Next]_vars, tpc' = "wait"
             PROVE  taskQueue1' = << >> /\ taskQueue2' = << >> /\ ~shutdownFlag'
  BY DEF IdleOnlyWithoutWork
<1> USE DEF IdleOnlyWithoutWork, queues, thread
<1>1. CASE ThreadStep
  BY <1>1 DEF ThreadStep, ThreadExit, ThreadWait, Dequeue, SkipTask, AddFile,
     RemoveObject, RescanDirectory, GetScanID, CheckScanID, ScanContainer,
     ScanWithoutContainer, NextChild, RescanChild, AddChild, ScanStopped, ScanEnds,
     ScanFails, LoadTaskCount, StoreTaskCount, Leave, Withdraw, OpenDir, OpenFails
<1>2. CASE SpuriousWakeup
  BY <1>2 DEF SpuriousWakeup
<1>3. CASE UserStep
  <2>1. ASSUME NEW l \in Locations, RemoveCall(l)
        PROVE  tpc' = tpc /\ UNCHANGED <<taskQueue1, taskQueue2, shutdownFlag>>
    BY <2>1 DEF RemoveCall
  <2>2. ASSUME NEW a \in Adirs, removeAutoscanDirectory(a) \/ setAutoscanDirectory(a)
        PROVE  tpc' = tpc /\ UNCHANGED <<taskQueue1, taskQueue2, shutdownFlag>>
    BY <2>2 DEF removeAutoscanDirectory, setAutoscanDirectory
  <2>3. CASE RemoveAutoscans
    BY <2>3 DEF RemoveAutoscans
  <2>4. CASE RemoveInvalidates
    BY <2>4 DEF RemoveInvalidates, InvalidatesQueues
  <2>5. CASE RemoveQueues
    BY <2>5, NobodyWaits DEF RemoveQueues
  <2>6. CASE invalidateTask
    BY <2>6 DEF invalidateTask
  <2>7. CASE shutdown
    BY <2>7, NobodyWaits DEF shutdown
  <2>. QED
    BY <1>3, <2>1, <2>2, <2>3, <2>4, <2>5, <2>6, <2>7 DEF UserStep
<1>4. CASE TimerStep
  <2>1. ASSUME NEW id \in timers \union notified, TimerNotify(id)
        PROVE  tpc' = tpc /\ UNCHANGED <<taskQueue1, taskQueue2, shutdownFlag>>
    BY <2>1 DEF TimerNotify
  <2>2. CASE TimerLoad
    BY <2>2 DEF TimerLoad
  <2>3. CASE TimerStore
    BY <2>3, NobodyWaits DEF TimerStore
  <2>. QED
    BY <1>4, <2>1, <2>2, <2>3 DEF TimerStep
<1>5. CASE UNCHANGED vars
  BY <1>5 DEF vars
<1>. QED
  BY <1>1, <1>2, <1>3, <1>4, <1>5 DEF Next, Done

(* The task thread never sleeps on work or on a shutdown: however calls of *)
(* addTask() and shutdown() fall, no signal() is lost.                     *)
THEOREM IdleTheorem == Spec => []IdleOnlyWithoutWork
<1>1. Init => IdleOnlyWithoutWork
  BY DEF Init, IdleOnlyWithoutWork
<1>. QED
  BY <1>1, IdleStep, PTL DEF Spec

(***************************************************************************)
(* Types                                                                   *)
(***************************************************************************)

Slotted == list \in Seq(Adirs \union {Nil})

(* What removal makes of the list: slots are emptied, the last may go.     *)
LEMMA WithoutIs ==
  ASSUME Slotted, NEW as \in SUBSET Adirs
  PROVE  /\ Without(as) \in Seq(Adirs \union {Nil})
         /\ Len(Without(as)) = IF list # << >> /\ list[Len(list)] \in as
                              THEN Len(list) - 1 ELSE Len(list)
         /\ \A i \in DOMAIN Without(as) :
              Without(as)[i] = IF list[i] \in as THEN Nil ELSE list[i]
<1> DEFINE S == Adirs \union {Nil}
           kept == [i \in DOMAIN list |-> IF list[i] \in as THEN Nil ELSE list[i]]
           n == Len(list)
<1>1. list \in Seq(S) /\ Nil \in S
  BY DEF Slotted
<1>2. n \in Nat /\ DOMAIN list = 1..n
  BY <1>1
<1>3. kept \in Seq(S) /\ Len(kept) = n
  <2>1. \A i \in 1..n : list[i] \in S
    BY <1>1, ElementOfSeq
  <2>2. kept \in [1..n -> S]
    BY <1>1, <1>2, <2>1
  <2> HIDE DEF kept, S, n
  <2>. QED
    BY <1>2, <2>2
<1>4. \A i \in 1..n : kept[i] = IF list[i] \in as THEN Nil ELSE list[i]
  BY <1>2
<1>5. Without(as) = IF list # << >> /\ list[n] \in as THEN SubSeq(kept, 1, n - 1)
                    ELSE kept
  <2>1. Without(as) = IF list # << >> /\ list[n] \in as THEN Front(kept) ELSE kept
    BY Zenon DEF Without, Last
  <2>2. Front(kept) = SubSeq(kept, 1, Len(kept) - 1)
    BY Zenon DEF Front
  <2>. QED
    BY <1>3, <2>1, <2>2, Zenon
<1> HIDE DEF S, kept, n
<1>6. CASE list # << >> /\ list[n] \in as
  <2>1. n - 1 \in Nat
    BY <1>1, <1>2, <1>6 DEF n
  <2>2. \A i \in 1..(n - 1) : kept[i] \in S
    BY <1>2, <1>3, <2>1, ElementOfSeq
  <2>3. /\ SubSeq(kept, 1, n - 1) \in Seq(S)
        /\ Len(SubSeq(kept, 1, n - 1)) = n - 1
        /\ \A i \in 1..(n - 1) : SubSeq(kept, 1, n - 1)[i] = kept[i]
    BY <2>1, <2>2, SubSeqProperties
  <2>4. DOMAIN SubSeq(kept, 1, n - 1) = 1..(n - 1)
    BY <2>3
  <2>5. \A i \in 1..(n - 1) : i \in 1..n
    BY <1>2, <2>1
  <2>. QED
    BY <1>4, <1>5, <1>6, <2>3, <2>4, <2>5 DEF S, n
<1>7. CASE ~(list # << >> /\ list[n] \in as)
  <2>1. DOMAIN kept = 1..n
    BY <1>3
  <2>2. Without(as) = kept
    BY <1>5, <1>7, Zenon
  <2>. QED
    BY <1>3, <1>4, <1>7, <2>1, <2>2 DEF S, n
<1>. QED
  BY <1>6, <1>7

(* get() finds an autoscan directory or nothing.                           *)
LEMMA getType ==
  ASSUME Slotted, NEW id \in Int
  PROVE  get(id) \in Adirs \union {Nil}
BY DEF get, Slotted

(* The slot for a new directory is an empty one or the next after the last.*)
LEMMA SlotsAre ==
  ASSUME Slotted, NEW slot \in Slots
  PROVE  /\ slot \in Nat
         /\ slot = Len(list) \/ (slot + 1 \in DOMAIN list /\ list[slot + 1] = Nil)
BY DEF Slots, LastNil, NilSlots, Slotted

(* Removal from the list, and addition to it, keep the types.              *)
LEMMA removeAllType ==
  ASSUME Slotted, scanID \in [Adirs -> Int], NEW as \in SUBSET Adirs, removeAll(as)
  PROVE  Slotted' /\ scanID' \in [Adirs -> Int]
<1>1. Without(as) \in Seq(Adirs \union {Nil})
  BY WithoutIs
<1>2. list' = Without(as)
  BY DEF removeAll
<1>3. scanID' \in [Adirs -> Int]
  <2>1. scanID' = [a \in Adirs |-> IF a \in as THEN INVALID_SCAN_ID ELSE scanID[a]]
    BY Zenon DEF removeAll
  <2>2. INVALID_SCAN_ID \in Int
    BY DEF INVALID_SCAN_ID
  <2>. QED
    BY <2>1, <2>2
<1>. QED
  BY <1>1, <1>2, <1>3, Zenon DEF Slotted

LEMMA addType ==
  ASSUME Slotted, scanID \in [Adirs -> Int], NEW a \in Adirs, NEW slot \in Slots,
         add(a, slot)
  PROVE  Slotted' /\ scanID' \in [Adirs -> Int]
<1>1. slot \in Int
  BY SlotsAre
<1>2. list' \in Seq(Adirs \union {Nil})
  <2> DEFINE S == Adirs \union {Nil}
  <2>1. list \in Seq(S) /\ a \in S
    BY DEF Slotted
  <2>2. CASE slot = Len(list)
    BY <2>1, <2>2 DEF add
  <2>3. CASE slot # Len(list)
    <3>1. slot + 1 \in 1..Len(list)
      BY <2>1, <2>3, SlotsAre
    <3>2. list' = [list EXCEPT ![slot + 1] = a]
      BY <2>3 DEF add
    <3> HIDE DEF S
    <3>3. [list EXCEPT ![slot + 1] = a] \in Seq(S)
      BY <2>1, <3>1, ExceptSeq
    <3>. QED
      BY <3>2, <3>3 DEF S
  <2>. QED
    BY <2>2, <2>3
<1>3. scanID' \in [Adirs -> Int]
  BY <1>1 DEF add
<1>. QED
  BY <1>2, <1>3 DEF Slotted

(* The tasks that are made are tasks.                                      *)
LEMMA TaskTypes ==
  ASSUME NEW l \in Locations, NEW a \in Adirs, NEW obj \in ObjectIDs \union {Nil},
         NEW id \in Int
  PROVE  /\ CMAddFileTask(l, a) \in Tasks
         /\ CMRemoveObjectTask(obj) \in Tasks
         /\ CMRescanDirectoryTask(obj, id, a) \in Tasks
BY DEF CMAddFileTask, CMRemoveObjectTask, CMRescanDirectoryTask, Tasks, ObjectIDs,
       INVALID_SCAN_ID

(* A task that is cancelled stays a task.                                  *)
LEMMA InvalidType ==
  ASSUME NEW t \in Tasks
  PROVE  [t EXCEPT !.valid = FALSE] \in Tasks
BY DEF Tasks

(* Containers of the storage.                                              *)
LEMMA AddedType ==
  ASSUME live \in [Locations -> BOOLEAN], gen \in [Locations -> {0, 1}],
         rows \in SUBSET Adirs, NEW ls, Added(ls)
  PROVE  /\ live' \in [Locations -> BOOLEAN] /\ gen' \in [Locations -> {0, 1}]
         /\ rows' \in SUBSET Adirs
BY DEF Added

LEMMA RemovedType ==
  ASSUME live \in [Locations -> BOOLEAN], gen \in [Locations -> {0, 1}],
         rows \in SUBSET Adirs, NEW ls, Removed(ls)
  PROVE  /\ live' \in [Locations -> BOOLEAN] /\ gen' \in [Locations -> {0, 1}]
         /\ rows' \in SUBSET Adirs
BY DEF Removed

LEMMA LeaveType ==
  ASSUME ThreadType, NEW pc \in {"loop", "dec"}, Leave(pc), tpc \in Rescanning
  PROVE  ThreadType' /\ tpc' = pc
BY DEF Leave, ThreadType, Rescanning, INVALID_SCAN_ID

(* What a step leaves alone keeps its type.                                *)
LEMMA FrameType ==
  /\ UNCHANGED autoscan /\ AutoscanType => AutoscanType'
  /\ UNCHANGED storage /\ StorageType => StorageType'
  /\ UNCHANGED timer /\ TimerType => TimerType'
  /\ UNCHANGED user /\ UserType => UserType'
  /\ UNCHANGED <<queues, currentTask>> /\ QueueType => QueueType'
  /\ UNCHANGED thread /\ ThreadType => ThreadType'
<1>1. UNCHANGED autoscan /\ AutoscanType => AutoscanType'
  BY DEF autoscan, AutoscanType
<1>2. UNCHANGED storage /\ StorageType => StorageType'
  BY DEF storage, StorageType
<1>3. UNCHANGED timer /\ TimerType => TimerType'
  BY DEF timer, TimerType
<1>4. UNCHANGED user /\ UserType => UserType'
  BY DEF user, UserType
<1>5. UNCHANGED <<queues, currentTask>> /\ QueueType => QueueType'
  BY DEF queues, QueueType
<1>6. UNCHANGED thread /\ ThreadType => ThreadType'
  BY DEF thread, rescan, ThreadType
<1>. QED
  BY <1>1, <1>2, <1>3, <1>4, <1>5, <1>6

LEMMA TypeInit == Init => TypeOK
<1> SUFFICES ASSUME Init PROVE TypeOK
  OBVIOUS
<1> USE ContentAssumption DEF Init
<1>1. AutoscanType
  <2>1. list \in Seq(Adirs \union {Nil})
    BY SeqMonotonic
  <2>2. scanID \in [Adirs -> Int]
    <3>1. ASSUME NEW a \in Adirs, \E i \in DOMAIN InitialAdirs : InitialAdirs[i] = a
          PROVE  (CHOOSE i \in DOMAIN InitialAdirs : InitialAdirs[i] = a) - 1 \in Int
      BY <3>1
    <3>. QED
      BY <3>1 DEF INVALID_SCAN_ID
  <2>. QED
    BY <2>1, <2>2 DEF AutoscanType, ObjectIDs
<1>2. StorageType
  BY DEF StorageType
<1>3. TimerType
  BY DEF TimerType
<1>4. UserType
  BY DEF UserType
<1>5. QueueType
  BY DEF QueueType
<1>6. ThreadType
  BY DEF ThreadType, Rescanning, INVALID_SCAN_ID
<1>. QED
  BY <1>1, <1>2, <1>3, <1>4, <1>5, <1>6 DEF TypeOK, Rescanning

(***************************************************************************)
(* A step of the task thread keeps the types.                              *)
(***************************************************************************)
LEMMA TypeTaskStep ==
  ASSUME TypeOK,
         ThreadExit \/ ThreadWait \/ SpuriousWakeup \/ Dequeue \/ SkipTask
           \/ AddFile \/ RemoveObject
  PROVE  TypeOK'
<1> USE DEF TypeOK
<1>1. AutoscanType' /\ TimerType' /\ UserType'
  BY FrameType DEF ThreadExit, ThreadWait, SpuriousWakeup, Dequeue, SkipTask, AddFile,
     RemoveObject, Onward
<1>2. StorageType'
  BY FrameType, AddedType, RemovedType DEF StorageType, ThreadExit, ThreadWait,
     SpuriousWakeup, Dequeue, SkipTask, AddFile, RemoveObject, Onward, storage
<1>3. QueueType'
  <2>1. CASE Dequeue
    <3>1. \A q \in Seq(Tasks) : q # << >> => Head(q) \in Tasks /\ Tail(q) \in Seq(Tasks)
      OBVIOUS
    <3>2. taskQueue1 \in Seq(Tasks) /\ taskQueue2 \in Seq(Tasks)
      BY DEF QueueType
    <3>. QED
      BY <2>1, <3>1, <3>2, Zenon DEF QueueType, Dequeue
  <2>2. CASE ThreadExit \/ ThreadWait \/ SpuriousWakeup \/ SkipTask \/ AddFile \/ RemoveObject
    BY <2>2 DEF QueueType, ThreadExit, ThreadWait, SpuriousWakeup, SkipTask, AddFile,
       RemoveObject, Onward, queues
  <2>. QED
    BY <2>1, <2>2
<1>4. ThreadType'
  BY DEF ThreadType, Rescanning, ThreadExit, ThreadWait, SpuriousWakeup, Dequeue,
     SkipTask, AddFile, RemoveObject, rescan, Starts
<1>5. tpc' \in {"start"} \union Rescanning => currentTask' \in Tasks
  BY DEF QueueType, Rescanning, ThreadExit, ThreadWait, SpuriousWakeup, Dequeue,
     SkipTask, AddFile, RemoveObject
<1>6. shutdownFlag' \in BOOLEAN /\ thrown' \in BOOLEAN
  BY DEF ThreadExit, ThreadWait, SpuriousWakeup, Dequeue, SkipTask, AddFile,
     RemoveObject, Onward
<1>. QED
  BY <1>1, <1>2, <1>3, <1>4, <1>5, <1>6

LEMMA TypeRescanStep ==
  ASSUME TypeOK,
         RescanDirectory \/ GetScanID \/ CheckScanID \/ NextChild \/ ScanStopped
           \/ ScanEnds \/ ScanFails \/ LoadTaskCount \/ StoreTaskCount
  PROVE  TypeOK'
<1> USE DEF TypeOK
<1>1. TimerType' /\ UserType' /\ QueueType' /\ UNCHANGED <<currentTask, shutdownFlag>>
  BY FrameType DEF RescanDirectory, GetScanID, CheckScanID, NextChild, ScanStopped,
     ScanEnds, ScanFails, LoadTaskCount, StoreTaskCount, Onward
<1>2. AutoscanType'
  <2>1. CASE ScanEnds
    BY <2>1 DEF ScanEnds, AutoscanType
  <2>2. CASE StoreTaskCount
    <3>1. taskCount' \in [Adirs -> Int]
      BY <2>2 DEF StoreTaskCount, AutoscanType, ThreadType
    <3>2. lmtPending' \in [Adirs -> BOOLEAN]
      BY <2>2 DEF StoreTaskCount, AutoscanType
    <3>. QED
      BY <2>2, <3>1, <3>2 DEF StoreTaskCount, AutoscanType
  <2>. QED
    BY <2>1, <2>2, FrameType DEF RescanDirectory, GetScanID, CheckScanID, NextChild,
       ScanStopped, ScanFails, LoadTaskCount
<1>3. StorageType'
  BY FrameType, RemovedType DEF StorageType, RescanDirectory, GetScanID, CheckScanID,
     NextChild, ScanStopped, ScanEnds, ScanFails, LoadTaskCount, StoreTaskCount, storage
<1>4. ThreadType'
  <2>1. CASE RescanDirectory \/ GetScanID
    <3>1. tpc = "start" => get(currentTask.scanID) \in Adirs \union {Nil}
      BY getType DEF Slotted, AutoscanType, Tasks, Rescanning
    <3>. QED
      BY <2>1, <3>1 DEF RescanDirectory, GetScanID, Starts, IsNull, ThreadType,
         AutoscanType, Rescanning
  <2>2. CASE CheckScanID
    <3>1. get(sid) \in Adirs \union {Nil}
      BY getType DEF Slotted, AutoscanType, ThreadType
    <3>. QED
      BY <2>2, <3>1, LeaveType DEF CheckScanID, IsNull, ThreadType, Rescanning
  <2>3. CASE NextChild
    BY <2>3, LeaveType DEF NextChild, ThreadType, Rescanning
  <2>4. CASE ScanStopped \/ ScanEnds \/ ScanFails \/ StoreTaskCount
    BY <2>4, LeaveType DEF ScanStopped, ScanEnds, ScanFails, StoreTaskCount, Rescanning
  <2>5. CASE LoadTaskCount
    BY <2>5 DEF LoadTaskCount, ThreadType, AutoscanType, Rescanning
  <2>. QED
    BY <2>1, <2>2, <2>3, <2>4, <2>5
<1>5. tpc' \in {"start"} \union Rescanning => currentTask' \in Tasks
  BY <1>1 DEF Rescanning, RescanDirectory, GetScanID, CheckScanID, NextChild,
     ScanStopped, ScanEnds, ScanFails, LoadTaskCount, StoreTaskCount, Starts
<1>6. shutdownFlag' \in BOOLEAN /\ thrown' \in BOOLEAN
  BY <1>1 DEF RescanDirectory, GetScanID, CheckScanID, NextChild, ScanStopped,
     ScanEnds, ScanFails, LoadTaskCount, StoreTaskCount
<1>. QED
  BY <1>1, <1>2, <1>3, <1>4, <1>5, <1>6

(* The directory cannot be read, or there is no container.                 *)
LEMMA WithdrawType ==
  ASSUME TypeOK, tpc = "open", Withdraw
  PROVE  AutoscanType' /\ ThreadType' /\ rows' \subseteq Adirs /\ tpc' \in {"loop", "dec"}
<1> DEFINE as == {get(sid)} \ {Nil}
<1>1. as \in SUBSET Adirs
  <2>1. Slotted /\ sid \in Int
    BY DEF TypeOK, AutoscanType, ThreadType, Slotted
  <2>2. get(sid) \in Adirs \union {Nil}
    BY <2>1, getType
  <2>. QED
    BY <2>2
<1>2. adir \in Adirs
  BY DEF TypeOK, ThreadType
<1>3. Slotted' /\ scanID' \in [Adirs -> Int]
  <2> HIDE DEF as
  <2>1. removeAll(as)
    BY DEF Withdraw, as
  <2>. QED
    BY <1>1, <2>1, removeAllType DEF TypeOK, AutoscanType, Slotted
<1>4. taskCount' \in [Adirs -> Int]
  BY <1>2 DEF Withdraw, TypeOK, AutoscanType
<1>5. AutoscanType'
  BY <1>3, <1>4 DEF Withdraw, TypeOK, AutoscanType, Slotted
<1>6. ThreadType' /\ tpc' \in {"loop", "dec"}
  <2>1. Leave(IF get(sid) = Nil THEN "loop" ELSE "dec")
    BY DEF Withdraw
  <2>2. (IF get(sid) = Nil THEN "loop" ELSE "dec") \in {"loop", "dec"}
    OBVIOUS
  <2>. QED
    BY <2>1, <2>2, LeaveType DEF TypeOK, Rescanning
<1>. QED
  BY <1>5, <1>6 DEF Withdraw, TypeOK, StorageType

LEMMA OpenDirType ==
  ASSUME TypeOK, tpc = "open", NEW l \in Locations, OpenDir(l)
  PROVE  ThreadType' /\ tpc' = "scan"
BY ContentAssumption DEF OpenDir, TypeOK, ThreadType, Rescanning

LEMMA TypeOpenStep ==
  ASSUME TypeOK, ScanContainer \/ ScanWithoutContainer
  PROVE  TypeOK'
<1>1. tpc = "open" /\ adir \in Adirs /\ currentTask \in Tasks
  BY DEF ScanContainer, ScanWithoutContainer, TypeOK, ThreadType, Rescanning
<1>2. TimerType' /\ UserType' /\ QueueType' /\ UNCHANGED <<currentTask, shutdownFlag, thrown>>
  BY FrameType DEF TypeOK, ScanContainer, ScanWithoutContainer, Onward
<1>3. Loc[adir] \in Locations
  BY <1>1, ContentAssumption
<1>4. CASE ScanContainer
  <2> DEFINE l == currentTask.obj[1]
  <2>1. l \in Locations
    BY <1>1, <1>4, ContentAssumption DEF ScanContainer, Exists, Tasks, ObjectIDs
  <2> HIDE DEF l
  <2>2. CASE UNCHANGED <<autoscan, storage>> /\ OpenDir(l)
    <3>1. AutoscanType' /\ StorageType'
      BY <2>2, FrameType DEF TypeOK
    <3>. QED
      BY <1>1, <1>2, <2>1, <2>2, <3>1, OpenDirType DEF TypeOK
  <2>3. CASE OpenFails(l)
    <3>1. CASE adir \in Persistent
      <4>1. StorageType'
        BY <2>3, <3>1, RemovedType DEF OpenFails, TypeOK, StorageType
      <4>2. AutoscanType'
        BY <1>1, <2>3, <3>1 DEF OpenFails, TypeOK, AutoscanType
      <4>3. ThreadType' /\ tpc' = "dec"
        BY <1>1, <2>3, <3>1, LeaveType DEF OpenFails, TypeOK, Rescanning
      <4>. QED
        BY <1>1, <1>2, <4>1, <4>2, <4>3 DEF TypeOK
    <3>2. CASE adir \notin Persistent
      <4>1. AutoscanType' /\ ThreadType' /\ rows' \subseteq Adirs
        BY <1>1, <2>3, <3>2, WithdrawType DEF OpenFails
      <4>2. StorageType'
        BY <2>3, <3>2, <4>1 DEF OpenFails, TypeOK, StorageType
      <4>. QED
        BY <1>1, <1>2, <4>1, <4>2 DEF TypeOK
    <3>. QED
      BY <3>1, <3>2
  <2>. QED
    BY <1>4, <2>2, <2>3 DEF ScanContainer, l
<1>5. CASE ScanWithoutContainer
  <2>1. CASE adir \notin Persistent
    <3>1. AutoscanType' /\ ThreadType' /\ rows' \subseteq Adirs
      BY <1>1, <1>5, <2>1, WithdrawType DEF ScanWithoutContainer
    <3>2. StorageType'
      BY <1>5, <2>1, <3>1 DEF ScanWithoutContainer, TypeOK, StorageType
    <3>. QED
      BY <1>1, <1>2, <3>1, <3>2 DEF TypeOK
  <2>2. CASE /\ objectID' = [objectID EXCEPT ![adir] = Nil]
             /\ Leave("dec")
             /\ UNCHANGED <<list, scanID, taskCount, unused, lmtPending, storage>>
    <3>1. AutoscanType' /\ StorageType'
      BY <1>1, <2>2, FrameType DEF TypeOK, AutoscanType
    <3>2. ThreadType' /\ tpc' = "dec"
      BY <1>1, <2>2, LeaveType DEF TypeOK, Rescanning
    <3>. QED
      BY <1>1, <1>2, <3>1, <3>2 DEF TypeOK
  <2>3. CASE /\ Added(Above(Loc[adir]))
             /\ objectID' = [objectID EXCEPT ![adir] = <<Loc[adir], gen'[Loc[adir]]>>]
             /\ OpenDir(Loc[adir])
             /\ UNCHANGED <<list, scanID, taskCount, unused, lmtPending>>
    <3>1. StorageType'
      BY <2>3, AddedType DEF TypeOK, StorageType
    <3>2. <<Loc[adir], gen'[Loc[adir]]>> \in ObjectIDs
      BY <1>3, <3>1 DEF StorageType, ObjectIDs
    <3>3. AutoscanType'
      BY <1>1, <2>3, <3>2 DEF TypeOK, AutoscanType
    <3>4. ThreadType' /\ tpc' = "scan"
      BY <1>1, <1>3, <2>3, OpenDirType
    <3>. QED
      BY <1>1, <1>2, <3>1, <3>3, <3>4 DEF TypeOK
  <2>. QED
    BY <1>5, <2>1, <2>2, <2>3 DEF ScanWithoutContainer
<1>. QED
  BY <1>4, <1>5

(* The directories a scan finds become tasks.                              *)
LEMMA TypeChildStep ==
  ASSUME TypeOK, RescanChild \/ AddChild
  PROVE  TypeOK'
<1>1. /\ tpc = "child" /\ adir \in Adirs /\ child \in Locations /\ sid \in Int
      /\ currentTask \in Tasks /\ ObjectID(child) \in ObjectIDs
  BY DEF RescanChild, AddChild, TypeOK, ThreadType, Rescanning, ObjectID, ObjectIDs,
     StorageType
<1>2. StorageType' /\ TimerType' /\ UserType'
      /\ UNCHANGED <<taskQueue1, currentTask, shutdownFlag, thrown>>
  BY FrameType DEF TypeOK, RescanChild, AddChild
<1>3. AutoscanType'
  <2>1. CASE RescanChild
    <3>1. get(sid) \in Adirs \union {Nil}
      BY <1>1, getType DEF TypeOK, AutoscanType, Slotted
    <3>. QED
      BY <2>1, <3>1 DEF RescanChild, inc, TypeOK, AutoscanType
  <2>2. CASE AddChild
    BY <2>2, FrameType DEF AddChild, TypeOK
  <2>. QED
    BY <2>1, <2>2
<1>4. taskQueue2' \in Seq(Tasks)
  <2>1. /\ CMRescanDirectoryTask(ObjectID(child), sid, adir) \in Tasks
        /\ CMAddFileTask(child, adir) \in Tasks
    BY <1>1, TaskTypes
  <2>2. \E t \in Tasks : taskQueue2' \in {taskQueue2, Append(taskQueue2, t)}
    BY <2>1 DEF RescanChild, AddChild
  <2>. QED
    BY <2>2 DEF TypeOK, QueueType
<1>5. ThreadType' /\ tpc' \in {"scan", "dec"}
  <2>1. CASE RescanChild
    BY <1>1, <2>1 DEF RescanChild, TypeOK, ThreadType, Rescanning
  <2>2. CASE AddChild
    BY <1>1, <2>2, LeaveType DEF AddChild, TypeOK, ThreadType, Rescanning
  <2>. QED
    BY <2>1, <2>2
<1>. QED
  BY <1>1, <1>2, <1>3, <1>4, <1>5 DEF TypeOK, QueueType

(***************************************************************************)
(* A step of a user, or of the timer, keeps the types.                     *)
(***************************************************************************)

(* Invalidating tasks of a queue leaves a queue.                           *)
LEMMA InvalidQueue ==
  ASSUME NEW q \in Seq(Tasks), NEW r, DOMAIN r = DOMAIN q,
         r = [i \in DOMAIN q |-> r[i]],
         \A i \in DOMAIN q : r[i] \in {q[i], [q[i] EXCEPT !.valid = FALSE]}
  PROVE  r \in Seq(Tasks)
<1>1. Len(q) \in Nat /\ DOMAIN q = 1..Len(q)
  OBVIOUS
<1>2. \A i \in 1..Len(q) : q[i] \in Tasks
  BY ElementOfSeq
<1>3. \A i \in 1..Len(q) : r[i] \in Tasks
  BY <1>1, <1>2, InvalidType
<1>4. r \in [1..Len(q) -> Tasks]
  BY <1>1, <1>3
<1>. QED
  BY <1>1, <1>4

LEMMA TypeUserStep ==
  ASSUME TypeOK, UserStep
  PROVE  TypeOK'
<1>1. ASSUME NEW l \in Locations, RemoveCall(l)
      PROVE  TypeOK'
  BY <1>1, FrameType DEF RemoveCall, TypeOK, thread, UserType, StorageType, ObjectID, ObjectIDs
<1>2. CASE RemoveAutoscans
  <2> DEFINE as == {a \in Listed \ Persistent : Loc[a] \in Under[usObj[1]]}
  <2>1. as \in SUBSET Adirs
    BY DEF Listed
  <2>2. removeAll(as)
    BY <1>2 DEF RemoveAutoscans
  <2> HIDE DEF as
  <2>3. AutoscanType'
    BY <1>2, <2>1, <2>2, removeAllType
       DEF RemoveAutoscans, TypeOK, AutoscanType, Slotted
  <2>4. UserType'
    BY <1>2 DEF RemoveAutoscans, TypeOK, UserType
  <2>. QED
    BY <1>2, <2>3, <2>4, FrameType DEF RemoveAutoscans, TypeOK, thread
<1>3. CASE RemoveInvalidates
  <2>1. taskQueue1' \in Seq(Tasks)
    BY <1>3, InvalidQueue
       DEF RemoveInvalidates, InvalidatesQueues, invalidateAddTask, TypeOK, QueueType
  <2>2. taskQueue2' \in Seq(Tasks)
    BY <1>3, InvalidQueue
       DEF RemoveInvalidates, InvalidatesQueues, invalidateAddTask, TypeOK, QueueType
  <2>3. currentTask' \in Tasks \union {Nil}
        /\ (currentTask \in Tasks /\ currentTask # Nil => currentTask' \in Tasks)
    BY <1>3, InvalidType DEF RemoveInvalidates, invalidateAddTask, TypeOK, QueueType
  <2>4. UserType'
    BY <1>3 DEF RemoveInvalidates, TypeOK, UserType
  <2>. QED
    BY <1>3, NoTaskIsNil, <2>1, <2>2, <2>3, <2>4, FrameType DEF RemoveInvalidates, TypeOK, thread, QueueType
<1>4. CASE RemoveQueues
  <2>1. CMRemoveObjectTask(usObj) \in Tasks
    BY <1>4 DEF RemoveQueues, TypeOK, UserType, CMRemoveObjectTask, Tasks, INVALID_SCAN_ID
  <2>2. taskQueue1' \in Seq(Tasks)
    BY <1>4, <2>1 DEF RemoveQueues, TypeOK, QueueType
  <2>3. ThreadType' /\ (tpc' \in {"start"} \union Rescanning => tpc' = tpc)
    BY <1>4 DEF RemoveQueues, Signalled, TypeOK, ThreadType, Rescanning, rescan
  <2>4. UserType'
    BY <1>4 DEF RemoveQueues, UserType
  <2>. QED
    BY <1>4, <2>2, <2>3, <2>4, FrameType DEF RemoveQueues, TypeOK, QueueType
<1>5. ASSUME NEW a \in Adirs, removeAutoscanDirectory(a)
      PROVE  TypeOK'
  <2>1. AutoscanType'
    <3>1. {a} \in SUBSET Adirs /\ removeAll({a})
      BY <1>5 DEF removeAutoscanDirectory
    <3>. QED
      BY <1>5, <3>1, removeAllType
         DEF removeAutoscanDirectory, TypeOK, AutoscanType, Slotted
  <2>2. StorageType'
    BY <1>5 DEF removeAutoscanDirectory, TypeOK, StorageType
  <2>. QED
    BY <1>5, <2>1, <2>2, FrameType DEF removeAutoscanDirectory, TypeOK, thread
<1>6. ASSUME NEW a \in Adirs, setAutoscanDirectory(a)
      PROVE  TypeOK'
  <2>1. PICK slot \in Slots : add(a, slot) /\ notified' = notified \union {slot}
    BY <1>6 DEF setAutoscanDirectory
  <2>2. slot \in Int
    BY SlotsAre DEF TypeOK, AutoscanType, Slotted
  <2>3. Slotted' /\ scanID' \in [Adirs -> Int]
    BY <2>1, addType DEF TypeOK, AutoscanType, Slotted
  <2>4. objectID' \in [Adirs -> ObjectIDs \union {Nil}]
    <3>1. ObjectID(Loc[a]) \in ObjectIDs
      BY ContentAssumption DEF TypeOK, StorageType, ObjectID, ObjectIDs
    <3>. QED
      BY <1>6, <3>1 DEF setAutoscanDirectory, TypeOK, AutoscanType
  <2>5. AutoscanType'
    BY <1>6, <2>3, <2>4 DEF setAutoscanDirectory, TypeOK, AutoscanType, Slotted
  <2>6. StorageType' /\ TimerType'
    BY <1>6, <2>1, <2>2 DEF setAutoscanDirectory, TypeOK, StorageType, TimerType
  <2>. QED
    BY <1>6, <2>5, <2>6, FrameType DEF setAutoscanDirectory, TypeOK, thread
<1>7. CASE invalidateTask
  <2>1. PICK t : /\ taskQueue2' = [i \in DOMAIN taskQueue2 |-> Cancel(t, taskQueue2[i])]
                 /\ currentTask' = IF currentTask = Nil THEN Nil ELSE Cancel(t, currentTask)
    BY <1>7 DEF invalidateTask
  <2>2. taskQueue2' \in Seq(Tasks)
    BY <2>1, InvalidQueue DEF Cancel, TypeOK, QueueType
  <2>3. currentTask' \in Tasks \union {Nil}
        /\ (currentTask \in Tasks /\ currentTask # Nil => currentTask' \in Tasks)
    BY <2>1, InvalidType DEF Cancel, TypeOK, QueueType
  <2>. QED
    BY <1>7, NoTaskIsNil, <2>2, <2>3, FrameType DEF invalidateTask, TypeOK, thread, QueueType
<1>8. CASE shutdown
  <2>1. ThreadType' /\ (tpc' \in {"start"} \union Rescanning => tpc' = tpc)
    BY <1>8 DEF shutdown, Signalled, TypeOK, ThreadType, Rescanning, rescan
  <2>. QED
    BY <1>8, <2>1, FrameType DEF shutdown, TypeOK
<1>. QED
  BY <1>1, <1>2, <1>3, <1>4, <1>5, <1>6, <1>7, <1>8 DEF UserStep

LEMMA TypeTimerStep ==
  ASSUME TypeOK, TimerStep
  PROVE  TypeOK'
<1>1. ASSUME NEW id \in timers \union notified, TimerNotify(id)
      PROVE  TypeOK'
  <2>1. get(id) \in Adirs
    BY <1>1, getType DEF TimerNotify, TypeOK, AutoscanType, TimerType, Slotted
  <2>2. CMRescanDirectoryTask(objectID[get(id)], scanID[get(id)], get(id)) \in Tasks
    <3>1. /\ objectID[get(id)] \in ObjectIDs \union {Nil}
          /\ scanID[get(id)] \in Int
      BY <2>1 DEF TypeOK, AutoscanType
    <3>. QED
      BY <2>1, <3>1
         DEF CMRescanDirectoryTask, Tasks
  <2>3. TimerType'
    BY <1>1, <2>2 DEF TimerNotify, Notified, TypeOK, TimerType
  <2>. QED
    BY <1>1, <2>3, FrameType DEF TimerNotify, TypeOK, thread
<1>2. CASE TimerLoad
  <2>1. get(tmTask.scanID) \in Adirs \union {Nil}
    <3>1. tmTask.scanID \in Int
      BY <1>2 DEF TimerLoad, TypeOK, TimerType, Tasks
    <3>. QED
      BY <3>1, getType DEF TypeOK, AutoscanType, Slotted
  <2>2. TimerType'
    BY <1>2, <2>1 DEF TimerLoad, TypeOK, TimerType, AutoscanType
  <2>. QED
    BY <1>2, <2>2, FrameType DEF TimerLoad, TypeOK, thread
<1>3. CASE TimerStore
  <2>1. tmTask \in Tasks /\ tmDir \in Adirs
    BY <1>3 DEF TimerStore, TypeOK, TimerType
  <2>2. AutoscanType'
    BY <1>3, <2>1 DEF TimerStore, TypeOK, AutoscanType, TimerType
  <2>3. QueueType'
    BY <1>3, <2>1 DEF TimerStore, TypeOK, QueueType
  <2>4. TimerType'
    BY <1>3 DEF TimerStore, TypeOK, TimerType
  <2>5. ThreadType' /\ (tpc' \in {"start"} \union Rescanning => tpc' = tpc)
    BY <1>3 DEF TimerStore, Signalled, TypeOK, ThreadType, Rescanning, rescan
  <2>. QED
    BY <1>3, <2>2, <2>3, <2>4, <2>5, FrameType DEF TimerStore, TypeOK
<1>. QED
  BY <1>1, <1>2, <1>3 DEF TimerStep

LEMMA TypeStep == TypeOK /\ [Next]_vars => TypeOK'
<1> SUFFICES ASSUME TypeOK, [Next]_vars PROVE TypeOK'
  OBVIOUS
<1>1. CASE UNCHANGED vars
  <2>1. /\ UNCHANGED autoscan /\ UNCHANGED storage /\ UNCHANGED timer
        /\ UNCHANGED user /\ UNCHANGED <<queues, currentTask>>
        /\ UNCHANGED thread /\ UNCHANGED <<tpc, currentTask, shutdownFlag, thrown>>
    BY <1>1 DEF vars, thread
  <2>. QED
    BY <2>1, FrameType DEF TypeOK
<1>2. CASE ThreadStep
  BY <1>2, TypeTaskStep, TypeRescanStep, TypeOpenStep, TypeChildStep DEF ThreadStep
<1>3. CASE SpuriousWakeup
  BY <1>3, TypeTaskStep
<1>. QED
  BY <1>1, <1>2, <1>3, TypeUserStep, TypeTimerStep DEF Next, Done

(* In every state the task thread has the task, the autoscan directory and *)
(* the name it is about to dereference.                                    *)
THEOREM ContentTypeCorrect == Spec => []TypeOK
BY TypeInit, TypeStep, PTL DEF Spec

(***************************************************************************)
(* Slots and scan IDs agree: removal empties the slots of those that lose  *)
(* their ID, and a new directory is in no slot when it gets an empty one.  *)
(***************************************************************************)
NewAreUnlisted == unused \intersect Listed = {}

SlotInv == SlotsAgree /\ NewAreUnlisted

LEMMA SlotInit == Init => SlotInv
<1> SUFFICES ASSUME Init PROVE SlotInv
  OBVIOUS
<1>1. NewAreUnlisted
  BY DEF Init, NewAreUnlisted, Listed
<1>2. ASSUME NEW a \in Listed, NEW i \in DOMAIN list
      PROVE  list[i] = a <=> scanID[a] = i - 1
  <2> DEFINE k == CHOOSE j \in DOMAIN InitialAdirs : InitialAdirs[j] = a
  <2>1. k \in DOMAIN InitialAdirs /\ InitialAdirs[k] = a
    BY <1>2 DEF Init, Listed
  <2>2. scanID[a] = k - 1
    BY <1>2 DEF Init, Listed
  <2>3. DOMAIN InitialAdirs \subseteq Nat
    BY ContentAssumption
  <2> HIDE DEF k
  <2>. QED
    BY <1>2, <2>1, <2>2, <2>3, ContentAssumption DEF Init
<1>3. \A a \in Adirs \ Listed : scanID[a] = INVALID_SCAN_ID
  BY DEF Init, Listed
<1>. QED
  BY <1>1, <1>2, <1>3 DEF SlotInv, SlotsAgree

LEMMA SeqDomain ==
  ASSUME NEW S, NEW s \in Seq(S)
  PROVE  DOMAIN s = 1..Len(s) /\ Len(s) \in Nat
OBVIOUS

LEMMA ShorterDomain ==
  ASSUME NEW n \in Nat, NEW m \in Nat, NEW P, m = n \/ (m = n - 1 /\ P)
  PROVE  \A i \in Nat : /\ i \in 1..m => i \in 1..n
                        /\ i \in 1..n => i \in 1..m \/ (i = n /\ P)
OBVIOUS

(* Removal of any directories, on the list or not.                         *)
LEMMA SlotRemove ==
  ASSUME TypeOK, SlotInv, NEW as \in SUBSET Adirs, removeAll(as), unused' = unused
  PROVE  SlotInv'
<1>1. Slotted
  BY DEF TypeOK, AutoscanType, Slotted
<1>2. /\ list' \in Seq(Adirs \union {Nil})
      /\ Len(list') = IF list # << >> /\ list[Len(list)] \in as
                     THEN Len(list) - 1 ELSE Len(list)
      /\ \A i \in DOMAIN list' : list'[i] = IF list[i] \in as THEN Nil ELSE list[i]
  <2>1. list' = Without(as)
    BY DEF removeAll
  <2>. QED
    BY <1>1, <2>1, WithoutIs
<1>3. /\ DOMAIN list' \subseteq DOMAIN list
      /\ \A i \in DOMAIN list : list[i] \notin as => i \in DOMAIN list'
  <2>1. DOMAIN list = 1..Len(list) /\ Len(list) \in Nat
    BY <1>1, SeqDomain DEF Slotted
  <2>2. DOMAIN list' = 1..Len(list') /\ Len(list') \in Nat
    BY <1>2, SeqDomain
  <2> DEFINE n == Len(list)
             m == Len(list')
             lost == list # << >> /\ list[n] \in as
  <2>3. m = IF lost THEN n - 1 ELSE n
    BY <1>2
  <2>4. lost => list[n] \in as
    OBVIOUS
  <2>5. n \in Nat /\ m \in Nat
    BY <2>1, <2>2
  <2>6. DOMAIN list = 1..n /\ DOMAIN list' = 1..m
    BY <2>1, <2>2
  <2> HIDE DEF n, m, lost
  <2>7. m = n \/ (m = n - 1 /\ list[n] \in as)
    BY <2>3, <2>4
  <2>8. \A i \in Nat : /\ i \in 1..m => i \in 1..n
                       /\ i \in 1..n => i \in 1..m \/ (i = n /\ list[n] \in as)
    BY <2>5, <2>7, ShorterDomain, Zenon
  <2>9. 1..m \subseteq Nat /\ 1..n \subseteq Nat
    BY <2>5
  <2>. QED
    BY <2>6, <2>8, <2>9, Zenon
<1>4. \A a \in Adirs : scanID'[a] = IF a \in as THEN INVALID_SCAN_ID ELSE scanID[a]
  BY Zenon DEF removeAll
<1>5. Listed' = Listed \ as
  <2>1. ASSUME NEW a \in Adirs
        PROVE  a \in Listed' <=> a \in Listed /\ a \notin as
    <3>1. a # Nil
      BY ContentAssumption
    <3>. QED
      BY <1>2, <1>3, <3>1 DEF Listed
  <2>. QED
    BY <2>1 DEF Listed
<1>6. NewAreUnlisted'
  BY <1>5 DEF SlotInv, NewAreUnlisted
<1>7. ASSUME NEW a \in Listed', NEW i \in DOMAIN list'
      PROVE  list'[i] = a <=> scanID'[a] = i - 1
  <2>1. a \in Listed /\ a \notin as /\ a # Nil
    BY <1>5, ContentAssumption DEF Listed
  <2>2. i \in DOMAIN list /\ a \in Adirs
    BY <1>3 DEF Listed
  <2>3. list[i] = a <=> scanID[a] = i - 1
    BY <2>1, <2>2 DEF SlotInv, SlotsAgree
  <2>4. scanID'[a] = scanID[a]
    BY <1>4, <2>1, <2>2
  <2>. QED
    BY <1>2, <2>1, <2>3, <2>4
<1>8. ASSUME NEW a \in Adirs \ Listed'
      PROVE  scanID'[a] = INVALID_SCAN_ID
  BY <1>4, <1>5 DEF SlotInv, SlotsAgree
<1>. QED
  BY <1>6, <1>7, <1>8 DEF SlotInv, SlotsAgree

(* Addition of a directory that is new, in an empty slot.                  *)
LEMMA SlotAdd ==
  ASSUME TypeOK, SlotInv, NEW a \in unused, NEW slot \in Slots, add(a, slot),
         unused' = unused \ {a}
  PROVE  SlotInv'
<1>1. list \in Seq(Adirs \union {Nil}) /\ unused \subseteq Adirs /\ Slotted
  BY DEF TypeOK, AutoscanType, Slotted
<1>2. DOMAIN list = 1..Len(list) /\ Len(list) \in Nat
  BY <1>1, SeqDomain
<1>3. a \in Adirs /\ a \notin Listed /\ a # Nil /\ slot \in Nat
  BY <1>1, SlotsAre, ContentAssumption DEF SlotInv, NewAreUnlisted
<1>4. /\ \A i \in DOMAIN list' : list'[i] = IF i = slot + 1 THEN a ELSE list[i]
      /\ DOMAIN list' = DOMAIN list \union {slot + 1}
      /\ slot + 1 \in DOMAIN list => list[slot + 1] = Nil
  <2>1. CASE slot = Len(list)
    BY <1>1, <1>2, <2>1 DEF add
  <2>2. CASE slot # Len(list)
    <3>1. slot + 1 \in DOMAIN list /\ list[slot + 1] = Nil
      BY <1>1, <2>2, SlotsAre
    <3>. QED
      BY <2>2, <3>1 DEF add
  <2>. QED
    BY <2>1, <2>2
<1>5. \A b \in Adirs : scanID'[b] = IF b = a THEN slot ELSE scanID[b]
  BY DEF add, TypeOK, AutoscanType
<1>6. Listed' = Listed \union {a}
  <2>1. ASSUME NEW b \in Adirs
        PROVE  b \in Listed' <=> b \in Listed \/ b = a
    <3>1. b # Nil
      BY ContentAssumption
    <3>2. ASSUME b \in Listed
          PROVE  b \in Listed'
      <4>1. PICK i \in DOMAIN list : list[i] = b
        BY <3>2 DEF Listed
      <4>2. i # slot + 1
        BY <1>4, <3>1, <4>1
      <4>. QED
        BY <1>4, <4>1, <4>2 DEF Listed
    <3>3. ASSUME b \in Listed', b # a
          PROVE  b \in Listed
      <4>1. PICK i \in DOMAIN list' : list'[i] = b
        BY <3>3 DEF Listed
      <4>2. i # slot + 1 /\ i \in DOMAIN list
        BY <1>4, <3>3, <4>1
      <4>. QED
        BY <1>4, <4>1, <4>2 DEF Listed
    <3>4. a \in Listed'
      BY <1>3, <1>4 DEF Listed
    <3>. QED
      BY <3>2, <3>3, <3>4
  <2>. QED
    BY <1>3, <2>1 DEF Listed
<1>7. NewAreUnlisted'
  BY <1>6 DEF SlotInv, NewAreUnlisted
<1>8. ASSUME NEW b \in Listed', NEW i \in DOMAIN list'
      PROVE  list'[i] = b <=> scanID'[b] = i - 1
  <2>1. b \in Adirs /\ b # Nil /\ i \in Nat
    BY <1>2, <1>3, <1>4, ContentAssumption DEF Listed
  <2>2. CASE b = a
    <3>1. i \in DOMAIN list => list[i] # a
      BY <1>3 DEF Listed
    <3>. QED
      BY <1>3, <1>4, <1>5, <2>1, <2>2, <3>1
  <2>3. CASE b # a /\ i = slot + 1
    <3>1. b \in Listed /\ scanID'[b] = scanID[b] /\ list'[i] = a
      BY <1>4, <1>5, <1>6, <2>1, <2>3
    <3>2. PICK j \in DOMAIN list : list[j] = b
      BY <3>1 DEF Listed
    <3>3. scanID[b] = j - 1 /\ j # slot + 1 /\ j \in Nat
      BY <1>2, <1>4, <2>1, <3>1, <3>2 DEF SlotInv, SlotsAgree
    <3>. QED
      BY <1>3, <2>3, <3>1, <3>3
  <2>4. CASE b # a /\ i # slot + 1
    <3>1. b \in Listed /\ i \in DOMAIN list
      BY <1>4, <1>6, <2>4
    <3>2. scanID'[b] = scanID[b] /\ list'[i] = list[i]
      BY <1>4, <1>5, <2>1, <2>4
    <3>. QED
      BY <2>1, <3>1, <3>2 DEF SlotInv, SlotsAgree
  <2>. QED
    BY <2>2, <2>3, <2>4
<1>9. ASSUME NEW b \in Adirs \ Listed'
      PROVE  scanID'[b] = INVALID_SCAN_ID
  BY <1>5, <1>6 DEF SlotInv, SlotsAgree
<1>. QED
  BY <1>7, <1>8, <1>9 DEF SlotInv, SlotsAgree

(* Every other step leaves the list, the scan IDs and the new ones alone.  *)
LEMMA SlotStep == TypeOK /\ SlotInv /\ [Next]_vars => SlotInv'
<1> SUFFICES ASSUME TypeOK, SlotInv, [Next]_vars PROVE SlotInv'
  OBVIOUS
<1>1. ASSUME UNCHANGED <<list, scanID, unused>>
      PROVE  SlotInv'
  BY <1>1 DEF SlotInv, SlotsAgree, NewAreUnlisted, Listed
<1>2. CASE UNCHANGED vars
  BY <1>1, <1>2 DEF vars, autoscan
<1>3. CASE ThreadStep
  <2>1. ASSUME Withdraw, tpc = "open"
        PROVE  SlotInv'
    <3>1. Slotted /\ sid \in Int
      BY DEF TypeOK, AutoscanType, ThreadType, Slotted
    <3>2. get(sid) \in Adirs \union {Nil}
      BY <3>1, getType
    <3>3. {get(sid)} \ {Nil} \in SUBSET Adirs
      BY <3>2
    <3>. QED
      BY <2>1, <3>3, SlotRemove DEF Withdraw
  <2>2. CASE ScanContainer \/ ScanWithoutContainer
    BY <1>1, <2>1, <2>2 DEF ScanContainer, ScanWithoutContainer, OpenFails, autoscan
  <2>3. CASE ~(ScanContainer \/ ScanWithoutContainer)
    <3>1. UNCHANGED <<list, scanID, unused>>
      BY <1>3, <2>3 DEF ThreadStep, ThreadExit, ThreadWait, Dequeue, SkipTask, AddFile,
         RemoveObject, RescanDirectory, GetScanID, CheckScanID, NextChild, RescanChild,
         AddChild, ScanStopped, ScanEnds, ScanFails, LoadTaskCount, StoreTaskCount,
         autoscan
    <3>. QED
      BY <1>1, <3>1
  <2>. QED
    BY <2>2, <2>3
<1>4. CASE SpuriousWakeup
  BY <1>1, <1>4 DEF SpuriousWakeup, autoscan
<1>5. CASE TimerStep
  BY <1>1, <1>5 DEF TimerStep, TimerNotify, TimerLoad, TimerStore, autoscan
<1>6. CASE UserStep
  <2>1. CASE RemoveAutoscans
    <3> DEFINE as == {a \in Listed \ Persistent : Loc[a] \in Under[usObj[1]]}
    <3>1. as \in SUBSET Adirs /\ removeAll(as) /\ unused' = unused
      BY <2>1 DEF RemoveAutoscans, Listed
    <3> HIDE DEF as
    <3>. QED
      BY <3>1, SlotRemove
  <2>2. ASSUME NEW a \in Adirs, removeAutoscanDirectory(a)
        PROVE  SlotInv'
    <3>1. {a} \in SUBSET Adirs /\ removeAll({a}) /\ unused' = unused
      BY <2>2 DEF removeAutoscanDirectory
    <3>. QED
      BY <3>1, SlotRemove
  <2>3. ASSUME NEW a \in Adirs, setAutoscanDirectory(a)
        PROVE  SlotInv'
    BY <2>3, SlotAdd DEF setAutoscanDirectory
  <2>. QED
    BY <1>1, <1>6, <2>1, <2>2, <2>3 DEF UserStep, RemoveCall, RemoveInvalidates,
       RemoveQueues, invalidateTask, shutdown, autoscan
<1>. QED
  BY <1>2, <1>3, <1>4, <1>5, <1>6 DEF Next, Done

(* A scan ID names the slot of its directory, always, and a directory that *)
(* was removed has none: whatever is added, removed or withdrawn meanwhile.*)
THEOREM SlotTheorem == Spec => []SlotsAgree
<1>1. SlotInv => SlotsAgree
  BY DEF SlotInv
<1>. QED
  BY <1>1, SlotInit, SlotStep, ContentTypeCorrect, PTL DEF Spec

(***************************************************************************)
(* Nothing is queued behind the removal of its container. The autoscan     *)
(* directories below a container that is to be removed lose their scan IDs *)
(* before what they ordered is cancelled, and a scan looks at the ID and   *)
(* queues its task under the same mutex: what it queues afterwards is for  *)
(* another directory. This needs that none is added meanwhile.             *)
(***************************************************************************)
Doomed == PendingRemovals \union (IF uspc = "tasks" THEN {usObj[1]} ELSE {})

DoomedAreUnlisted ==
  \A l \in Doomed : \A a \in Adirs \ Persistent :
    Loc[a] \in Under[l] => scanID[a] = INVALID_SCAN_ID

(* Only removals have the high priority, only rescans come from a timer.   *)
OnlyRemovals == /\ \A i \in DOMAIN taskQueue1 : taskQueue1[i].type = "RemoveObject"
                /\ tmpc # "idle" => tmTask.type = "RescanDirectory"

RemoveInv == DoomedAreUnlisted /\ OnlyRemovals /\ NoAddBehindRemove

(* Scan IDs are only taken away.                                           *)
LEMMA OnlyTaken ==
  ASSUME TypeOK, [Next]_vars, "addAutoscan" \notin Requests, NEW a \in Adirs,
         scanID[a] = INVALID_SCAN_ID
  PROVE  scanID'[a] = INVALID_SCAN_ID
<1>1. ASSUME NEW as, removeAll(as)
      PROVE  scanID'[a] = INVALID_SCAN_ID
  BY <1>1 DEF removeAll
<1>2. ASSUME UNCHANGED scanID
      PROVE  scanID'[a] = INVALID_SCAN_ID
  BY <1>2
<1>3. CASE ThreadStep
  BY <1>1, <1>2, <1>3 DEF ThreadStep, ThreadExit, ThreadWait, Dequeue, SkipTask,
     AddFile, RemoveObject, RescanDirectory, GetScanID, CheckScanID, NextChild,
     ScanContainer, ScanWithoutContainer, OpenFails, Withdraw, RescanChild,
     AddChild, ScanStopped, ScanEnds, ScanFails, LoadTaskCount, StoreTaskCount, autoscan
<1>4. CASE TimerStep
  BY <1>2, <1>4 DEF TimerStep, TimerNotify, TimerLoad, TimerStore, autoscan
<1>5. CASE UserStep
  BY <1>1, <1>2, <1>5 DEF UserStep, RemoveCall, RemoveAutoscans, RemoveInvalidates,
     RemoveQueues, removeAutoscanDirectory, setAutoscanDirectory, invalidateTask,
     shutdown, autoscan
<1>. QED
  BY <1>2, <1>3, <1>4, <1>5 DEF Next, Done, SpuriousWakeup, vars, autoscan

(* The queue of high priority: a step takes its first task, cancels some   *)
(* or appends the removal that was announced.                              *)
LEMMA Queue1Step ==
  ASSUME TypeOK, [Next]_vars, NEW i \in DOMAIN taskQueue1'
  PROVE  \/ \E j \in DOMAIN taskQueue1 :
              /\ taskQueue1'[i].type = taskQueue1[j].type
              /\ taskQueue1'[i].obj = taskQueue1[j].obj
         \/ /\ RemoveQueues
            /\ taskQueue1'[i].type = "RemoveObject" /\ taskQueue1'[i].obj = usObj
<1>1. taskQueue1 \in Seq(Tasks)
  BY DEF TypeOK, QueueType
<1>2. CASE UNCHANGED taskQueue1
  BY <1>2
<1>3. CASE Dequeue
  <2>1. CASE taskQueue1 # << >>
    <3>1. taskQueue1' = Tail(taskQueue1)
      BY <1>3, <2>1 DEF Dequeue
    <3>2. i + 1 \in DOMAIN taskQueue1 /\ taskQueue1'[i] = taskQueue1[i + 1]
      BY <1>1, <2>1, <3>1, HeadTailProperties
    <3>. QED
      BY <3>2
  <2>2. CASE taskQueue1 = << >>
    BY <1>2, <1>3, <2>2 DEF Dequeue
  <2>. QED
    BY <2>1, <2>2
<1>4. CASE RemoveInvalidates
  <2>1. \A j \in DOMAIN taskQueue1 : taskQueue1[j] \in Tasks
    BY <1>1, ElementOfSeq
  <2>. QED
    BY <1>4, <2>1 DEF RemoveInvalidates, InvalidatesQueues, invalidateAddTask, Tasks
<1>5. CASE RemoveQueues
  BY <1>1, <1>5 DEF RemoveQueues, CMRemoveObjectTask
<1>6. CASE ThreadStep /\ ~Dequeue
  BY <1>2, <1>6 DEF ThreadStep, ThreadExit, ThreadWait, SkipTask, AddFile,
     RemoveObject, RescanDirectory, GetScanID, CheckScanID, NextChild, ScanContainer,
     ScanWithoutContainer, RescanChild, AddChild, ScanStopped, ScanEnds, ScanFails,
     LoadTaskCount, StoreTaskCount, Onward, queues
<1>7. CASE TimerStep \/ SpuriousWakeup
  BY <1>2, <1>7 DEF TimerStep, TimerNotify, TimerLoad, TimerStore, SpuriousWakeup, queues
<1>8. CASE UserStep /\ ~RemoveInvalidates /\ ~RemoveQueues
  BY <1>2, <1>8 DEF UserStep, RemoveCall, RemoveAutoscans, removeAutoscanDirectory,
     setAutoscanDirectory, invalidateTask, shutdown, queues
<1>. QED
  BY <1>2, <1>3, <1>4, <1>5, <1>6, <1>7, <1>8 DEF Next, Done, vars, queues

(* Who else writes the state of removeObject()?                            *)
LEMMA UserFrame ==
  ASSUME [Next]_vars
  PROVE  \/ UNCHANGED user
         \/ (\E l \in Locations : RemoveCall(l))
         \/ RemoveAutoscans \/ RemoveInvalidates \/ RemoveQueues
BY DEF Next, Done, vars, ThreadStep, ThreadExit, ThreadWait, Dequeue, SkipTask, AddFile,
   RemoveObject, RescanDirectory, GetScanID, CheckScanID, NextChild, ScanContainer,
   ScanWithoutContainer, RescanChild, AddChild, ScanStopped, ScanEnds, ScanFails,
   LoadTaskCount, StoreTaskCount, Onward, TimerStep, TimerNotify, TimerLoad, TimerStore,
   SpuriousWakeup, UserStep, removeAutoscanDirectory, setAutoscanDirectory,
   invalidateTask, shutdown

(* Removals become pending by RemoveInvalidates, and doomed before that.   *)
LEMMA PendingStep ==
  ASSUME TypeOK, [Next]_vars
  PROVE  /\ PendingRemovals' \subseteq
              PendingRemovals \union (IF RemoveInvalidates THEN {usObj[1]} ELSE {})
         /\ Doomed' \subseteq Doomed \union (IF RemoveAutoscans THEN {usObj[1]} ELSE {})
<1>1. {taskQueue1'[i].obj[1] : i \in {j \in DOMAIN taskQueue1' :
                                       taskQueue1'[j].type = "RemoveObject"}}
        \subseteq PendingRemovals \union (IF RemoveQueues THEN {usObj[1]} ELSE {})
  BY Queue1Step DEF PendingRemovals
<1>2. CASE UNCHANGED user /\ ~RemoveQueues
  BY <1>1, <1>2 DEF PendingRemovals, Doomed, user
<1>3. CASE \E l \in Locations : RemoveCall(l)
  BY <1>1, <1>3 DEF PendingRemovals, Doomed, RemoveCall, RemoveQueues
<1>4. CASE RemoveAutoscans
  BY <1>1, <1>4 DEF PendingRemovals, Doomed, RemoveAutoscans, RemoveQueues
<1>5. CASE RemoveInvalidates
  BY <1>1, <1>5 DEF PendingRemovals, Doomed, RemoveInvalidates, RemoveQueues
<1>6. CASE RemoveQueues
  BY <1>1, <1>6 DEF PendingRemovals, Doomed, RemoveQueues
<1>. QED
  BY <1>2, <1>3, <1>4, <1>5, <1>6, UserFrame

(* A directory becomes doomed when its autoscan directories were taken off.*)
LEMMA DoomedStep ==
  ASSUME TypeOK, SlotInv, RemoveInv, [Next]_vars, "addAutoscan" \notin Requests
  PROVE  DoomedAreUnlisted'
<1>1. ASSUME NEW k \in Doomed, NEW a \in Adirs \ Persistent, Loc[a] \in Under[k]
      PROVE  scanID'[a] = INVALID_SCAN_ID
  BY <1>1, OnlyTaken DEF RemoveInv, DoomedAreUnlisted
<1>2. ASSUME RemoveAutoscans, NEW a \in Adirs \ Persistent, Loc[a] \in Under[usObj[1]]
      PROVE  scanID'[a] = INVALID_SCAN_ID
  <2>1. CASE a \in Listed
    BY <1>2, <2>1 DEF RemoveAutoscans, removeAll
  <2>2. CASE a \notin Listed
    BY <2>2, OnlyTaken DEF SlotInv, SlotsAgree
  <2>. QED
    BY <2>1, <2>2
<1>. QED
  BY <1>1, <1>2, PendingStep DEF DoomedAreUnlisted

(* A task that is not behind any removal.                                  *)
Harmless(t) == \A l \in PendingRemovals : ~AddsBehind(t, l)

LEMMA HarmlessIs ==
  NoAddBehindRemove <=> /\ \A i \in DOMAIN taskQueue2 : Harmless(taskQueue2[i])
                        /\ currentTask # Nil => Harmless(currentTask)
BY DEF NoAddBehindRemove, Harmless

(* To be harmless stays so while nothing new is to be removed, for tasks   *)
(* that were there and for those that add nothing.                         *)
LEMMA NoNewRemoval ==
  ASSUME RemoveInv, PendingRemovals' \subseteq PendingRemovals,
         \A i \in DOMAIN taskQueue2' :
           \/ \E j \in DOMAIN taskQueue2 : taskQueue2'[i] = taskQueue2[j]
           \/ Harmless(taskQueue2'[i])
           \/ taskQueue2'[i].valid = FALSE,
         \/ currentTask' \in {Nil, currentTask}
         \/ \E j \in DOMAIN taskQueue2 : currentTask' = taskQueue2[j]
         \/ currentTask'.type # "AddFile"
         \/ currentTask'.valid = FALSE
  PROVE  NoAddBehindRemove'
BY DEF RemoveInv, NoAddBehindRemove, Harmless, AddsBehind

LEMMA OnlyRemovalsStep ==
  ASSUME TypeOK, RemoveInv, [Next]_vars
  PROVE  OnlyRemovals'
<1>1. \A i \in DOMAIN taskQueue1' : taskQueue1'[i].type = "RemoveObject"
  BY Queue1Step DEF RemoveInv, OnlyRemovals
<1>2. tmpc' # "idle" => tmTask'.type = "RescanDirectory"
  <2>1. CASE UNCHANGED <<tmpc, tmTask>>
    BY <2>1 DEF RemoveInv, OnlyRemovals
  <2>2. CASE TimerStep
    BY <2>2 DEF TimerStep, TimerNotify, TimerLoad, TimerStore, CMRescanDirectoryTask,
       RemoveInv, OnlyRemovals
  <2>3. CASE ThreadStep \/ SpuriousWakeup
    BY <2>1, <2>3 DEF ThreadStep, ThreadExit, ThreadWait, Dequeue, SkipTask, AddFile,
       RemoveObject, RescanDirectory, GetScanID, CheckScanID, NextChild, ScanContainer,
       ScanWithoutContainer, RescanChild, AddChild, ScanStopped, ScanEnds, ScanFails,
       LoadTaskCount, StoreTaskCount, Onward, timer, SpuriousWakeup
  <2>4. CASE UserStep
    BY <2>1, <2>4 DEF UserStep, RemoveCall, RemoveAutoscans, RemoveInvalidates,
       RemoveQueues, removeAutoscanDirectory, setAutoscanDirectory, invalidateTask,
       shutdown, timer
  <2>. QED
    BY <2>1, <2>2, <2>3, <2>4 DEF Next, Done, vars, timer
<1>. QED
  BY <1>1, <1>2 DEF OnlyRemovals

(* A scan adds for an autoscan directory only while that has a scan ID.    *)
LEMMA AddStep ==
  ASSUME TypeOK, RemoveInv, [Next]_vars
  PROVE  NoAddBehindRemove'
<1>1. taskQueue1 \in Seq(Tasks) /\ taskQueue2 \in Seq(Tasks)
      /\ currentTask \in Tasks \union {Nil}
  BY DEF TypeOK, QueueType
<1>2. ~RemoveInvalidates => PendingRemovals' \subseteq PendingRemovals
  BY PendingStep
<1>3. ASSUME ~RemoveInvalidates, UNCHANGED <<taskQueue2, currentTask>>
      PROVE  NoAddBehindRemove'
  BY <1>2, <1>3, NoNewRemoval
<1>4. ASSUME ~RemoveInvalidates, UNCHANGED currentTask,
             NEW t \in Tasks, Harmless(t), taskQueue2' = Append(taskQueue2, t)
      PROVE  NoAddBehindRemove'
  <2>1. \A i \in DOMAIN taskQueue2' :
          \/ \E j \in DOMAIN taskQueue2 : taskQueue2'[i] = taskQueue2[j]
          \/ Harmless(taskQueue2'[i])
    BY <1>1, <1>4
  <2>. QED
    BY <1>2, <1>4, <2>1, NoNewRemoval
<1>5. CASE RemoveInvalidates
  <2>1. PendingRemovals' \subseteq PendingRemovals \union {usObj[1]}
    BY PendingStep
  <2>2. ASSUME NEW t \in Tasks, NEW l \in PendingRemovals', Harmless(t)
        PROVE  ~AddsBehind(invalidateAddTask(t, usObj[1]), l)
    BY <2>1, <2>2 DEF Harmless, AddsBehind, invalidateAddTask, Tasks
  <2>3. ASSUME NEW i \in DOMAIN taskQueue2', NEW l \in PendingRemovals'
        PROVE  ~AddsBehind(taskQueue2'[i], l)
    <3>1. /\ i \in DOMAIN taskQueue2
          /\ taskQueue2'[i] = invalidateAddTask(taskQueue2[i], usObj[1])
      BY <1>5 DEF RemoveInvalidates, InvalidatesQueues
    <3>2. taskQueue2[i] \in Tasks /\ Harmless(taskQueue2[i])
      BY <1>1, <3>1, ElementOfSeq DEF RemoveInv, NoAddBehindRemove, Harmless
    <3>. QED
      BY <2>2, <3>1, <3>2
  <2>4. ASSUME currentTask' # Nil, NEW l \in PendingRemovals'
        PROVE  ~AddsBehind(currentTask', l)
    <3>1. /\ currentTask \in Tasks /\ Harmless(currentTask)
          /\ currentTask' = invalidateAddTask(currentTask, usObj[1])
      BY <1>1, <1>5, <2>4 DEF RemoveInvalidates, RemoveInv, NoAddBehindRemove, Harmless
    <3>. QED
      BY <2>2, <3>1
  <2>. QED
    BY <2>3, <2>4 DEF NoAddBehindRemove, AddsBehind
<1>6. CASE Dequeue
  <2>1. ~RemoveInvalidates
    BY <1>6 DEF Dequeue, RemoveInvalidates, user
  <2>2. CASE taskQueue1 # << >>
    <3>1. currentTask' = taskQueue1[1] /\ 1 \in DOMAIN taskQueue1 /\ taskQueue2' = taskQueue2
      BY <1>1, <1>6, <2>2, HeadTailProperties DEF Dequeue
    <3>2. currentTask'.type # "AddFile"
      BY <3>1 DEF RemoveInv, OnlyRemovals
    <3>. QED
      BY <1>2, <2>1, <3>1, <3>2, NoNewRemoval
  <2>3. CASE taskQueue1 = << >>
    <3>1. taskQueue2 # << >> /\ currentTask' = Head(taskQueue2)
          /\ taskQueue2' = Tail(taskQueue2)
      BY <1>6, <2>3 DEF Dequeue
    <3>2. 1 \in DOMAIN taskQueue2 /\ currentTask' = taskQueue2[1]
      BY <1>1, <3>1
    <3>3. \A i \in DOMAIN taskQueue2' :
            i + 1 \in DOMAIN taskQueue2 /\ taskQueue2'[i] = taskQueue2[i + 1]
      BY <1>1, <3>1, HeadTailProperties
    <3>. QED
      BY <1>2, <2>1, <3>2, <3>3, NoNewRemoval
  <2>. QED
    BY <2>2, <2>3
<1>7. CASE AddChild
  <2>1. ~RemoveInvalidates /\ UNCHANGED currentTask /\ adir \in Adirs /\ child \in Locations
    BY <1>7 DEF AddChild, RemoveInvalidates, user, TypeOK, ThreadType
  <2>2. CASE Unlisted
    BY <1>3, <1>7, <2>1, <2>2 DEF AddChild
  <2>3. CASE ~Unlisted
    <3>1. CMAddFileTask(child, adir) \in Tasks
      BY <2>1, TaskTypes DEF TypeOK, StorageType
    <3>2. Harmless(CMAddFileTask(child, adir))
      BY <2>1, <2>3 DEF Harmless, AddsBehind, CMAddFileTask, Unlisted, RemoveInv,
         DoomedAreUnlisted, Doomed
    <3>. QED
      BY <1>4, <1>7, <2>1, <2>3, <3>1, <3>2 DEF AddChild
  <2>. QED
    BY <2>2, <2>3
<1>8. CASE RescanChild
  <2>1. ~RemoveInvalidates /\ UNCHANGED currentTask /\ adir \in Adirs /\ sid \in Int
        /\ ObjectID(child) \in ObjectIDs
    BY <1>8 DEF RescanChild, RemoveInvalidates, user, TypeOK, ThreadType, StorageType,
       ObjectID, ObjectIDs
  <2> DEFINE t == CMRescanDirectoryTask(ObjectID(child), sid, adir)
  <2>3. t.type # "AddFile" /\ t \in Tasks
    BY <2>1 DEF CMRescanDirectoryTask, Tasks
  <2>4. Harmless(t)
    BY <2>3 DEF Harmless, AddsBehind
  <2>5. taskQueue2' = taskQueue2 \/ taskQueue2' = Append(taskQueue2, t)
    BY <1>8 DEF RescanChild
  <2> HIDE DEF t
  <2>. QED
    BY <1>3, <1>4, <2>1, <2>3, <2>4, <2>5
<1>9. CASE TimerStore
  <2>1. ~RemoveInvalidates /\ UNCHANGED currentTask /\ tmTask \in Tasks
        /\ taskQueue2' = Append(taskQueue2, tmTask)
    BY <1>9 DEF TimerStore, RemoveInvalidates, user, TypeOK, TimerType
  <2>2. Harmless(tmTask)
    BY <1>9 DEF TimerStore, RemoveInv, OnlyRemovals, Harmless, AddsBehind
  <2>. QED
    BY <1>4, <2>1, <2>2
<1>10. CASE invalidateTask
  <2>1. ~RemoveInvalidates
    BY <1>10 DEF invalidateTask, RemoveInvalidates, user
  <2>2. PICK t : /\ taskQueue2' = [i \in DOMAIN taskQueue2 |-> Cancel(t, taskQueue2[i])]
                 /\ currentTask' = IF currentTask = Nil THEN Nil ELSE Cancel(t, currentTask)
    BY <1>10 DEF invalidateTask
  <2>3. \A u \in Tasks : Cancel(t, u) = u \/ Cancel(t, u).valid = FALSE
    BY DEF Cancel, Tasks
  <2>4. \A i \in DOMAIN taskQueue2 : taskQueue2[i] \in Tasks
    BY <1>1, ElementOfSeq
  <2>5. \A i \in DOMAIN taskQueue2' : \/ taskQueue2'[i] = taskQueue2[i]
                                      \/ taskQueue2'[i].valid = FALSE
    BY <2>2, <2>3, <2>4
  <2>6. currentTask' \in {Nil, currentTask} \/ currentTask'.valid = FALSE
    BY <1>1, <2>2, <2>3
  <2>. QED
    BY <1>2, <2>1, <2>2, <2>5, <2>6, NoNewRemoval
<1>11. CASE ThreadWait
  BY <1>2, <1>11, NoNewRemoval DEF ThreadWait, RemoveInvalidates, user, queues
<1>12. CASE \/ ThreadStep /\ ~Dequeue /\ ~AddChild /\ ~RescanChild /\ ~ThreadWait
            \/ SpuriousWakeup \/ UNCHANGED vars
  <2>1. UNCHANGED <<taskQueue2, currentTask, uspc>>
    BY <1>12 DEF ThreadStep, ThreadExit, SkipTask, AddFile, RemoveObject,
       RescanDirectory, GetScanID, CheckScanID, NextChild, ScanContainer,
       ScanWithoutContainer, ScanStopped, ScanEnds, ScanFails, LoadTaskCount,
       StoreTaskCount, Onward, SpuriousWakeup, vars, queues, user
  <2>. QED
    BY <1>3, <2>1 DEF RemoveInvalidates
<1>13. CASE TimerStep /\ ~TimerStore
  <2>1. UNCHANGED <<taskQueue2, currentTask, uspc>>
    BY <1>13 DEF TimerStep, TimerNotify, TimerLoad, queues, user
  <2>. QED
    BY <1>3, <2>1 DEF RemoveInvalidates
<1>14. CASE UserStep /\ ~RemoveInvalidates /\ ~invalidateTask
  <2>1. UNCHANGED <<taskQueue2, currentTask>>
    BY <1>14 DEF UserStep, RemoveCall, RemoveAutoscans, RemoveQueues,
       removeAutoscanDirectory, setAutoscanDirectory, shutdown, queues
  <2>. QED
    BY <1>3, <1>14, <2>1
<1>. QED
  BY <1>5, <1>6, <1>7, <1>8, <1>9, <1>10, <1>11, <1>12, <1>13, <1>14 DEF Next, Done

(* If no autoscan directory is added meanwhile, nothing that a scan would  *)
(* add waits behind the removal of the container it is for.                *)
THEOREM RemoveTheorem ==
  ASSUME "addAutoscan" \notin Requests
  PROVE  Spec => []NoAddBehindRemove
<1>1. Init => RemoveInv
  BY DEF Init, RemoveInv, DoomedAreUnlisted, OnlyRemovals, NoAddBehindRemove, Doomed,
     PendingRemovals
<1>2. TypeOK /\ SlotInv /\ RemoveInv /\ [Next]_vars => RemoveInv'
  BY DoomedStep, OnlyRemovalsStep, AddStep DEF RemoveInv
<1>3. RemoveInv => NoAddBehindRemove
  BY DEF RemoveInv
<1>4. Spec => []SlotInv
  BY SlotInit, SlotStep, ContentTypeCorrect, PTL DEF Spec
<1>. QED
  BY <1>1, <1>2, <1>3, <1>4, ContentTypeCorrect, PTL DEF Spec

(***************************************************************************)
(* The task counts are exact                                               *)
(*                                                                         *)
(* The timer does not order a scan while another of the directory is not   *)
(* over, no scan throws, no task is cancelled and no autoscan directory is *)
(* added: the slots of the list are emptied and never filled again.        *)
(***************************************************************************)
Undisturbed == ~Overlap /\ ~Failures /\ Requests \subseteq {"remove", "removeAutoscan"}

Rescans(t) == t.type = "RescanDirectory"

(* The rescans for a in a queue.                                           *)
Ordered(q, a) == {i \in DOMAIN q : Rescans(q[i]) /\ q[i].owner = a}

One(t, a) == IF Rescans(t) /\ t.owner = a THEN 1 ELSE 0

LEMMA OrderedFinite ==
  ASSUME NEW q \in Seq(Tasks), NEW a
  PROVE  IsFiniteSet(Ordered(q, a)) /\ Cardinality(Ordered(q, a)) \in Nat
<1>1. DOMAIN q = 1..Len(q) /\ Len(q) \in Nat
  BY SeqDomain
<1>2. IsFiniteSet(1..Len(q))
  BY <1>1, FS_Interval
<1>3. Ordered(q, a) \in SUBSET (1..Len(q))
  BY <1>1 DEF Ordered
<1>. QED
  BY <1>2, <1>3, FS_Subset, FS_CardinalityType

(* A task that is queued counts for its directory.                         *)
LEMMA OrderedAppend ==
  ASSUME NEW q \in Seq(Tasks), NEW t \in Tasks, NEW a
  PROVE  Cardinality(Ordered(Append(q, t), a)) = Cardinality(Ordered(q, a)) + One(t, a)
<1>1. PICK n, r : n = Len(q) + 1 /\ r = Append(q, t)
  OBVIOUS
<1>2. /\ n \in Nat /\ n \notin DOMAIN q /\ DOMAIN r = DOMAIN q \union {n}
      /\ r[n] = t /\ \A i \in DOMAIN q : r[i] = q[i]
  BY <1>1
<1>3. IsFiniteSet(Ordered(q, a)) /\ Cardinality(Ordered(q, a)) \in Nat
  BY OrderedFinite
<1>4. CASE Rescans(t) /\ t.owner = a
  <2>1. Ordered(r, a) = Ordered(q, a) \union {n} /\ n \notin Ordered(q, a)
    BY <1>2, <1>4 DEF Ordered
  <2>2. Cardinality(Ordered(r, a)) = Cardinality(Ordered(q, a)) + 1
    BY <1>3, <2>1, FS_AddElement
  <2>. QED
    BY <1>1, <1>4, <2>2 DEF One
<1>5. CASE ~(Rescans(t) /\ t.owner = a)
  <2>1. Ordered(r, a) = Ordered(q, a)
    BY <1>2, <1>5 DEF Ordered
  <2>. QED
    BY <1>1, <1>3, <1>5, <2>1 DEF One
<1>. QED
  BY <1>4, <1>5

(* A task that is taken from the queue counts no longer.                   *)
LEMMA OrderedTail ==
  ASSUME NEW q \in Seq(Tasks), q # << >>, NEW a
  PROVE  Cardinality(Ordered(q, a)) = Cardinality(Ordered(Tail(q), a)) + One(Head(q), a)
<1>1. PICK r, t : r = Tail(q) /\ t = Head(q)
  OBVIOUS
<1>2. /\ r \in Seq(Tasks) /\ DOMAIN r \subseteq Nat /\ DOMAIN q \subseteq Nat
      /\ \A i \in Nat : i \in DOMAIN r => i + 1 \in DOMAIN q \ {1} /\ r[i] = q[i + 1]
      /\ \A i \in DOMAIN q \ {1} : i - 1 \in DOMAIN r /\ r[i - 1] = q[i]
      /\ 1 \in DOMAIN q /\ q[1] = t
  <2>1. Len(r) = Len(q) - 1 /\ r \in Seq(Tasks) /\ \A i \in 1..Len(r) : r[i] = q[i + 1]
    BY <1>1, HeadTailProperties
  <2>2. DOMAIN r = 1..Len(r) /\ DOMAIN q = 1..Len(q) /\ Len(q) \in Nat /\ Len(r) \in Nat
    BY <2>1, SeqDomain
  <2>3. t = q[1] /\ Len(q) # 0
    BY <1>1
  <2>. QED
    BY <2>1, <2>2, <2>3
<1>3. IsFiniteSet(Ordered(q, a)) /\ IsFiniteSet(Ordered(r, a)) /\ Cardinality(Ordered(r, a)) \in Nat
  BY <1>2, OrderedFinite
<1>4. PICK S : S = Ordered(q, a) \ {1}
  OBVIOUS
<1>5. PICK f : f = [i \in Ordered(r, a) |-> i + 1]
  OBVIOUS
<1>6. f \in Bijection(Ordered(r, a), S)
  <2>1. f \in [Ordered(r, a) -> S]
    BY <1>2, <1>4, <1>5 DEF Ordered
  <2>2. \A i, j \in Ordered(r, a) : f[i] = f[j] => i = j
    BY <1>2, <1>5 DEF Ordered
  <2>3. ASSUME NEW k \in S PROVE \E i \in Ordered(r, a) : f[i] = k
    <3>1. k - 1 \in Ordered(r, a)
      BY <1>2, <1>4 DEF Ordered
    <3>2. f[k - 1] = k
      BY <1>2, <1>4, <1>5, <3>1 DEF Ordered
    <3>. QED
      BY <3>1, <3>2
  <2>. QED
    BY <2>1, <2>2, <2>3, Fun_IsBij
<1>7. IsFiniteSet(S) /\ Cardinality(S) = Cardinality(Ordered(r, a))
  BY <1>3, <1>6, FS_Bijection DEF ExistsBijection
<1>8. CASE Rescans(t) /\ t.owner = a
  <2>1. Ordered(q, a) = S \union {1} /\ 1 \notin S
    BY <1>2, <1>4, <1>8 DEF Ordered
  <2>2. Cardinality(Ordered(q, a)) = Cardinality(S) + 1
    BY <1>7, <2>1, FS_AddElement
  <2>. QED
    BY <1>1, <1>7, <1>8, <2>2 DEF One
<1>9. CASE ~(Rescans(t) /\ t.owner = a)
  <2>1. Ordered(q, a) = S
    BY <1>2, <1>4, <1>9 DEF Ordered
  <2>. QED
    BY <1>1, <1>3, <1>7, <1>9, <2>1 DEF One
<1>. QED
  BY <1>8, <1>9

LEMMA OutstandingIs ==
  ASSUME NEW a
  PROVE  Outstanding(a) = Cardinality(Ordered(taskQueue2, a))
BY DEF Outstanding, Ordered, Rescans

(* The slot a rescan names holds the directory it was ordered for, until   *)
(* that is taken off the list; then it holds none.                         *)
Addressed(t) == /\ t.owner \in Adirs /\ t.valid
                /\ get(t.scanID) = IF t.owner \in Listed THEN t.owner ELSE Nil

InTask == tpc \in {"start"} \union Rescanning

(* The task thread works for a.                                            *)
Active(a) == InTask /\ Rescans(currentTask) /\ currentTask.owner = a

(* The tasks that wait, the one that runs and the one the timer makes.     *)
AllTasks == {taskQueue2[i] : i \in DOMAIN taskQueue2}
              \union (IF InTask THEN {currentTask} ELSE {})
              \union (IF tmpc = "idle" THEN {} ELSE {tmTask})

TasksAddressed == \A t \in AllTasks : Rescans(t) => Addressed(t)

(* _rescanDirectory() works for the directory of its task.                 *)
ScanInv ==
  /\ tpc \in Rescanning => Rescans(currentTask) /\ dir = currentTask.owner
  /\ tpc \in {"check", "open", "scan", "child"} => sid = currentTask.scanID
  /\ tpc \in {"open", "scan", "child"} => adir = dir

(* The timer thread and the task thread are never at the same count, and   *)
(* what they have loaded is what is still there.                           *)
LoadedInv ==
  /\ tpc = "store" /\ dir \in Listed => count = taskCount[dir]
  /\ tmpc # "idle" => Outstanding(tmTask.owner) = 0 /\ ~Active(tmTask.owner)
  /\ tmpc = "store" => /\ tmDir = tmTask.owner
                       /\ tmDir \in Listed => tmCount = taskCount[tmDir]

Counted(a) == taskCount[a] = Outstanding(a) + IF Active(a) THEN 1 ELSE 0

CountInv == TasksAddressed /\ ScanInv /\ LoadedInv /\ \A a \in Listed : Counted(a)

(* What holds of every state of an undisturbed program.                    *)
Known == TypeOK /\ SlotInv /\ OnlyRemovals /\ CountInv

(* The directories in as are taken off the list.                           *)
Emptied(as) ==
  /\ Listed' = Listed \ as
  /\ \A id \in Int : get(id)' = IF get(id) \in as THEN Nil ELSE get(id)

LEMMA NothingEmptied ==
  ASSUME UNCHANGED list
  PROVE  Emptied({})
BY DEF Emptied, Listed, get

LEMMA RemovalEmpties ==
  ASSUME TypeOK, NEW as \in SUBSET Adirs, removeAll(as)
  PROVE  Emptied(as)
<1>1. Slotted /\ Nil \notin Adirs
  BY ContentAssumption DEF TypeOK, AutoscanType, Slotted
<1>2. /\ list' \in Seq(Adirs \union {Nil})
      /\ Len(list') = IF list # << >> /\ list[Len(list)] \in as
                     THEN Len(list) - 1 ELSE Len(list)
      /\ \A i \in DOMAIN list' : list'[i] = IF list[i] \in as THEN Nil ELSE list[i]
  <2>1. list' = Without(as)
    BY DEF removeAll
  <2>. QED
    BY <1>1, <2>1, WithoutIs
<1>3. /\ DOMAIN list' \subseteq DOMAIN list
      /\ \A i \in DOMAIN list : list[i] \notin as => i \in DOMAIN list'
  <2>1. PICK n, m : n = Len(list) /\ m = Len(list')
    OBVIOUS
  <2>2. n \in Nat /\ m \in Nat /\ DOMAIN list = 1..n /\ DOMAIN list' = 1..m
    BY <1>1, <1>2, <2>1, SeqDomain DEF Slotted
  <2>3. m = n \/ (m = n - 1 /\ list[n] \in as)
    BY <1>2, <2>1
  <2>4. \A i \in Nat : /\ i \in 1..m => i \in 1..n
                       /\ i \in 1..n => i \in 1..m \/ (i = n /\ list[n] \in as)
    BY <2>2, <2>3, ShorterDomain, Zenon
  <2>5. 1..m \subseteq Nat /\ 1..n \subseteq Nat
    BY <2>2
  <2>. QED
    BY <2>2, <2>4, <2>5, Zenon
<1>4. ASSUME NEW id \in Int
      PROVE  get(id)' = IF get(id) \in as THEN Nil ELSE get(id)
  <2>1. CASE id + 1 \in DOMAIN list'
    BY <1>2, <1>3, <2>1 DEF get
  <2>2. CASE id + 1 \notin DOMAIN list'
    BY <1>1, <1>3, <2>2 DEF get
  <2>. QED
    BY <2>1, <2>2
<1>5. Listed' = Listed \ as
  <2>1. ASSUME NEW a \in Adirs
        PROVE  a \in Listed' <=> a \in Listed /\ a \notin as
    BY <1>1, <1>2, <1>3 DEF Listed
  <2>. QED
    BY <2>1 DEF Listed
<1>. QED
  BY <1>4, <1>5 DEF Emptied

(* A slot that a directory has left stays empty.                           *)
LEMMA StaysAddressed ==
  ASSUME NEW as \in SUBSET Adirs, Emptied(as), NEW t \in Tasks, Addressed(t)
  PROVE  Addressed(t)'
<1>1. t.scanID \in Int /\ Nil \notin Adirs
  BY ContentAssumption DEF Tasks
<1>2. get(t.scanID)' = IF get(t.scanID) \in as THEN Nil ELSE get(t.scanID)
  BY <1>1 DEF Emptied
<1>3. Listed' = Listed \ as
  BY DEF Emptied
<1>. QED
  BY <1>1, <1>2, <1>3 DEF Addressed

LEMMA TasksAre ==
  ASSUME TypeOK
  PROVE  AllTasks \subseteq Tasks
<1>1. taskQueue2 \in Seq(Tasks) /\ (InTask => currentTask \in Tasks)
  BY DEF TypeOK, QueueType, InTask
<1>2. tmpc # "idle" => tmTask \in Tasks
  BY DEF TypeOK, TimerType
<1>. QED
  BY <1>1, <1>2, ElementOfSeq DEF AllTasks

LEMMA AllAddressed ==
  ASSUME TypeOK, TypeOK', TasksAddressed, NEW as \in SUBSET Adirs, Emptied(as),
         \A t \in AllTasks' : Rescans(t) => t \in AllTasks \/ Addressed(t)
  PROVE  TasksAddressed'
<1>1. SUFFICES ASSUME NEW t \in AllTasks', Rescans(t) PROVE Addressed(t)'
  BY DEF TasksAddressed
<1>2. t \in Tasks
  <2>1. AllTasks' \subseteq Tasks
    <3>1. taskQueue2' \in Seq(Tasks) /\ (InTask' => currentTask' \in Tasks)
      BY DEF TypeOK, QueueType, InTask
    <3>2. tmpc' # "idle" => tmTask' \in Tasks
      BY DEF TypeOK, TimerType
    <3>. QED
      BY <3>1, <3>2, ElementOfSeq DEF AllTasks
  <2>. QED
    BY <1>1, <2>1
<1>3. Addressed(t)
  BY <1>1 DEF TasksAddressed
<1>. QED
  BY <1>2, <1>3, StaysAddressed

(* A step that neither orders a rescan nor ends one of a directory that    *)
(* stays on the list.                                                      *)
LEMMA CountsStay ==
  ASSUME Known, TypeOK', NEW as \in SUBSET Adirs, Emptied(as), ScanInv',
         \A t \in AllTasks' : Rescans(t) => t \in AllTasks,
         \A a \in Listed' : taskCount'[a] = taskCount[a],
         \A a \in Adirs : Outstanding(a)' = Outstanding(a) /\ (Active(a)' => Active(a)),
         \A a \in Listed' : Active(a) => Active(a)',
         UNCHANGED <<tmpc, tmTask, tmDir, tmCount>>,
         tpc' = "store" => tpc = "store" /\ dir' = dir /\ count' = count
  PROVE  CountInv'
<1>1. Listed' \subseteq Listed /\ Listed \subseteq Adirs
  BY DEF Emptied, Listed
<1>2. TasksAddressed'
  BY AllAddressed DEF Known, CountInv
<1>3. \A a \in Listed' : Counted(a)'
  <2>1. ASSUME NEW a \in Listed' PROVE Counted(a)'
    BY <1>1 DEF Known, CountInv, Counted
  <2>. QED
    BY <2>1
<1>4. LoadedInv'
  <2>1. tpc' = "store" /\ dir' \in Listed' => count' = taskCount'[dir']
    BY <1>1 DEF Known, CountInv, LoadedInv
  <2>2. tmpc # "idle" => tmTask.owner \in Adirs
    BY DEF Known, TypeOK, TimerType, OnlyRemovals, CountInv, TasksAddressed, AllTasks,
       Addressed, Rescans
  <2>3. tmpc' # "idle" => Outstanding(tmTask.owner)' = 0 /\ ~Active(tmTask.owner)'
    <3>1. SUFFICES ASSUME tmpc # "idle"
                   PROVE  Outstanding(tmTask.owner)' = 0 /\ ~Active(tmTask.owner)'
      OBVIOUS
    <3>2. PICK a : a = tmTask.owner
      OBVIOUS
    <3>3. Outstanding(a) = 0 /\ ~Active(a) /\ a \in Adirs
      BY <2>2, <3>1, <3>2 DEF Known, CountInv, LoadedInv
    <3>4. Outstanding(a)' = 0 /\ ~Active(a)'
      BY <3>3
    <3>. QED
      BY <3>2, <3>4 DEF Outstanding, Active
  <2>4. tmpc' = "store" => /\ tmDir' = tmTask'.owner
                           /\ tmDir' \in Listed' => tmCount' = taskCount'[tmDir']
    BY <1>1 DEF Known, CountInv, LoadedInv
  <2>. QED
    BY <2>1, <2>3, <2>4 DEF LoadedInv
<1>. QED
  BY <1>2, <1>3, <1>4 DEF CountInv

(* A step that leaves the list, the queue of rescans and the counts alone. *)
LEMMA CalmStep ==
  ASSUME Known, TypeOK', ScanInv',
         UNCHANGED <<list, taskCount, taskQueue2, tmpc, tmTask, tmDir, tmCount>>,
         InTask' /\ Rescans(currentTask') => InTask /\ currentTask' = currentTask,
         InTask /\ Rescans(currentTask) => \/ InTask' /\ currentTask' = currentTask
                                           \/ currentTask.owner \notin Listed,
         tpc' = "store" => tpc = "store" /\ dir' = dir /\ count' = count
  PROVE  CountInv'
<1>1. Emptied({}) /\ Listed' = Listed
  BY NothingEmptied DEF Emptied
<1>2. PICK none \in SUBSET Adirs : none = {}
  OBVIOUS
<1>3. \A t \in AllTasks' : Rescans(t) => t \in AllTasks
  BY DEF AllTasks
<1>4. \A a \in Adirs : Outstanding(a)' = Outstanding(a) /\ (Active(a)' => Active(a))
  BY DEF Outstanding, Active
<1>5. \A a \in Listed' : Active(a) => Active(a)'
  BY <1>1 DEF Active
<1>6. Emptied(none)
  BY <1>1, <1>2
<1>. QED
  BY <1>3, <1>4, <1>5, <1>6, CountsStay

(* Between two tasks, or during one that is no rescan.                     *)
LEMMA CountTaskStep ==
  ASSUME Known, TypeOK',
         ThreadExit \/ ThreadWait \/ SpuriousWakeup \/ SkipTask \/ AddFile \/ RemoveObject
  PROVE  CountInv'
<1>1. tpc' \in {"done", "wait", "loop"} /\ ~InTask' /\ tpc \notin Rescanning
  BY DEF ThreadExit, ThreadWait, SpuriousWakeup, SkipTask, AddFile, RemoveObject, Starts,
     InTask, Rescanning
<1>2. ~(InTask /\ Rescans(currentTask))
  <2>1. CASE SkipTask
    <3>1. InTask /\ Rescans(currentTask) => currentTask.valid
      BY DEF Known, CountInv, TasksAddressed, AllTasks, Addressed
    <3>. QED
      BY <2>1, <3>1 DEF SkipTask
  <2>2. CASE AddFile \/ RemoveObject
    BY <2>2 DEF AddFile, RemoveObject, Starts, Rescans
  <2>3. CASE ThreadExit \/ ThreadWait \/ SpuriousWakeup
    BY <2>3 DEF ThreadExit, ThreadWait, SpuriousWakeup, InTask, Rescanning
  <2>. QED
    BY <2>1, <2>2, <2>3
<1>3. ScanInv'
  BY <1>1 DEF ScanInv, Rescanning
<1>4. UNCHANGED <<list, taskCount, taskQueue2, tmpc, tmTask, tmDir, tmCount>>
  BY DEF ThreadExit, ThreadWait, SpuriousWakeup, SkipTask, AddFile, RemoveObject, Onward,
     autoscan, timer, queues
<1>. QED
  BY <1>1, <1>2, <1>3, <1>4, CalmStep

(* While a rescan runs, it is the current task.                            *)
LEMMA TheRescan ==
  ASSUME Known, tpc \in Rescanning
  PROVE  /\ InTask /\ Rescans(currentTask) /\ currentTask \in Tasks
         /\ dir = currentTask.owner /\ dir \in Adirs /\ Active(dir)
         /\ get(currentTask.scanID) = IF dir \in Listed THEN dir ELSE Nil
BY DEF Known, TypeOK, CountInv, TasksAddressed, AllTasks, Addressed, ScanInv, InTask, Active

(* A slot is named by the scan ID of the directory in it.                  *)
LEMMA SlotOf ==
  ASSUME TypeOK, SlotInv, NEW id \in Int, get(id) # Nil
  PROVE  get(id) \in Listed /\ scanID[get(id)] = id
<1>1. id + 1 \in DOMAIN list /\ get(id) = list[id + 1]
  BY DEF get
<1>2. get(id) \in Adirs
  BY <1>1, getType DEF TypeOK, AutoscanType, Slotted
<1>3. get(id) \in Listed
  BY <1>1, <1>2 DEF Listed
<1>4. scanID[get(id)] = (id + 1) - 1
  BY <1>1, <1>2, <1>3 DEF SlotInv, SlotsAgree
<1>. QED
  BY <1>3, <1>4

(* A rescan begins, or goes on.                                            *)
LEMMA CountRescanStep ==
  ASSUME Known, TypeOK',
         RescanDirectory \/ GetScanID \/ CheckScanID \/ NextChild \/ ScanStopped \/ ScanEnds
  PROVE  CountInv'
<1>1. UNCHANGED <<list, taskCount, taskQueue2, tmpc, tmTask, tmDir, tmCount, currentTask>>
  BY DEF RescanDirectory, GetScanID, CheckScanID, NextChild, ScanStopped, ScanEnds, Onward,
     autoscan, timer, queues
<1>2. InTask /\ tpc' # "store" /\ Rescans(currentTask)
  <2>1. CASE RescanDirectory
    BY <2>1 DEF RescanDirectory, Starts, InTask, Rescans
  <2>2. CASE GetScanID \/ CheckScanID \/ NextChild \/ ScanStopped \/ ScanEnds
    <3>1. tpc \in Rescanning
      BY <2>2 DEF GetScanID, CheckScanID, NextChild, ScanStopped, ScanEnds, Rescanning
    <3>2. tpc' # "store"
      BY <2>2 DEF GetScanID, CheckScanID, NextChild, ScanStopped, ScanEnds, Leave
    <3>. QED
      BY <3>1, <3>2, TheRescan
  <2>. QED
    BY <2>1, <2>2
<1>3. Addressed(currentTask) /\ currentTask \in Tasks
  BY <1>2 DEF Known, CountInv, TasksAddressed, AllTasks, TypeOK, InTask
<1>4. ScanInv' /\ (InTask' \/ currentTask.owner \notin Listed)
  <2>1. CASE RescanDirectory
    <3>1. currentTask.scanID \in Int /\ Nil \notin Adirs
      BY <1>3, ContentAssumption DEF Tasks
    <3>2. CASE get(currentTask.scanID) = Nil
      <4>1. tpc' = "loop" /\ currentTask.owner \notin Listed
        BY <1>3, <2>1, <3>1, <3>2 DEF RescanDirectory, Addressed, IsNull
      <4>. QED
        BY <4>1 DEF ScanInv, Rescanning
    <3>3. CASE get(currentTask.scanID) # Nil
      <4>1. tpc' = "dir" /\ dir' = currentTask.owner
        BY <1>3, <2>1, <3>3 DEF RescanDirectory, Addressed, IsNull
      <4>. QED
        BY <1>1, <1>2, <4>1 DEF ScanInv, Rescanning, InTask
    <3>. QED
      BY <3>2, <3>3
  <2>2. CASE GetScanID
    <3>1. tpc \in Rescanning
      BY <2>2 DEF GetScanID, Rescanning
    <3>2. /\ dir = currentTask.owner /\ dir \in Adirs /\ dir # Nil /\ currentTask.scanID \in Int
          /\ get(currentTask.scanID) = IF dir \in Listed THEN dir ELSE Nil
      BY <3>1, TheRescan, ContentAssumption DEF Tasks
    <3>3. dir' = dir /\ sid' = scanID[dir]
          /\ tpc' = IF scanID[dir] = INVALID_SCAN_ID THEN "dec" ELSE "check"
      BY <2>2 DEF GetScanID
    <3>4. dir \in Listed => scanID[dir] = currentTask.scanID
      BY <3>2, SlotOf DEF Known
    <3>5. dir \notin Listed => scanID[dir] = INVALID_SCAN_ID
      BY <3>2 DEF Known, SlotInv, SlotsAgree
    <3>. QED
      BY <1>1, <1>2, <3>2, <3>3, <3>4, <3>5 DEF ScanInv, Rescanning, InTask
  <2>3. CASE CheckScanID
    <3>1. tpc = "check" /\ tpc \in Rescanning
      BY <2>3 DEF CheckScanID, Rescanning
    <3>2. /\ dir = currentTask.owner /\ dir \in Adirs /\ dir # Nil
          /\ get(sid) = IF dir \in Listed THEN dir ELSE Nil
          /\ sid = currentTask.scanID
      BY <3>1, TheRescan, ContentAssumption DEF Known, CountInv, ScanInv
    <3>3. CASE get(sid) = Nil
      <4>1. tpc' = "loop"
        BY <2>3, <3>3 DEF CheckScanID, Leave, IsNull
      <4>. QED
        BY <3>2, <3>3, <4>1 DEF ScanInv, Rescanning
    <3>4. CASE get(sid) # Nil
      <4>1. tpc' = "open" /\ adir' = dir /\ dir' = dir /\ sid' = sid
        BY <2>3, <3>2, <3>4 DEF CheckScanID, IsNull
      <4>. QED
        BY <1>1, <1>2, <3>2, <4>1 DEF ScanInv, Rescanning, InTask
    <3>. QED
      BY <3>3, <3>4
  <2>4. CASE NextChild \/ ScanStopped \/ ScanEnds
    <3>1. tpc = "scan" /\ tpc \in Rescanning
      BY <2>4 DEF NextChild, ScanStopped, ScanEnds, Rescanning
    <3>2. /\ dir' = dir /\ (tpc' = "dec" \/ (tpc' = "child" /\ sid' = sid /\ adir' = adir))
      BY <2>4 DEF NextChild, ScanStopped, ScanEnds, Leave
    <3>3. dir = currentTask.owner /\ sid = currentTask.scanID /\ adir = dir
      BY <3>1, TheRescan DEF Known, CountInv, ScanInv
    <3>. QED
      BY <1>1, <1>2, <3>2, <3>3 DEF ScanInv, Rescanning, InTask
  <2>. QED
    BY <2>1, <2>2, <2>3, <2>4
<1>. QED
  BY <1>1, <1>2, <1>4, CalmStep

(* The directory cannot be read any more: it leaves the list, with its     *)
(* count at -1.                                                            *)
LEMMA CountWithdraw ==
  ASSUME Known, TypeOK', tpc = "open", Withdraw, Onward
  PROVE  CountInv'
<1>1. tpc \in Rescanning
  BY DEF Rescanning
<1>2. /\ InTask /\ Rescans(currentTask) /\ dir = currentTask.owner /\ dir \in Adirs
      /\ get(sid) = IF dir \in Listed THEN dir ELSE Nil
      /\ sid = currentTask.scanID /\ adir = dir /\ dir # Nil
  BY <1>1, TheRescan, ContentAssumption DEF Known, CountInv, ScanInv
<1>3. PICK as : as = {get(sid)} \ {Nil}
  OBVIOUS
<1>4. as \in SUBSET Adirs /\ removeAll(as) /\ dir \notin Listed \ as
  BY <1>2, <1>3, ContentAssumption DEF Withdraw, Listed
<1>5. Emptied(as)
  BY <1>4, RemovalEmpties DEF Known
<1>6. Listed' = Listed \ as /\ dir \notin Listed' /\ Listed' \subseteq Adirs
  BY <1>4, <1>5 DEF Emptied, Listed
<1>7. /\ UNCHANGED <<taskQueue2, tmpc, tmTask, tmDir, tmCount, currentTask>>
      /\ tpc' = (IF get(sid) = Nil THEN "loop" ELSE "dec")
      /\ dir' = IF tpc' = "dec" THEN dir ELSE Nil
  BY DEF Onward, timer, queues, Withdraw, Leave
<1>8. ScanInv'
  BY <1>2, <1>7 DEF ScanInv, Rescanning
<1>9. \A t \in AllTasks' : Rescans(t) => t \in AllTasks
  BY <1>2, <1>7 DEF AllTasks
<1>10. \A a \in Listed' : taskCount'[a] = taskCount[a]
  <2>1. taskCount' = [taskCount EXCEPT ![adir] = -1] /\ taskCount \in [Adirs -> Int]
    BY DEF Withdraw, Known, TypeOK, AutoscanType
  <2>. QED
    BY <1>2, <1>6, <2>1
<1>11. \A a \in Adirs : Outstanding(a)' = Outstanding(a) /\ (Active(a)' => Active(a))
  BY <1>2, <1>7 DEF Outstanding, Active
<1>12. \A a \in Listed' : Active(a) => Active(a)'
  BY <1>2, <1>6 DEF Active
<1>13. tpc' # "store"
  BY <1>7
<1>. QED
  BY <1>4, <1>5, <1>7, <1>8, <1>9, <1>10, <1>11, <1>12, <1>13, CountsStay

(* The directory is opened, or not.                                        *)
LEMMA CountOpenStep ==
  ASSUME Known, TypeOK', ScanContainer \/ ScanWithoutContainer
  PROVE  CountInv'
<1>1. tpc = "open" /\ tpc \in Rescanning /\ Onward
  BY DEF ScanContainer, ScanWithoutContainer, Rescanning
<1>2. CASE Withdraw
  BY <1>1, <1>2, CountWithdraw
<1>3. CASE ~Withdraw
  <2>1. UNCHANGED <<list, taskCount>>
    BY <1>3 DEF ScanContainer, ScanWithoutContainer, OpenFails, autoscan
  <2>2. \/ tpc' = "dec" /\ dir' = dir
        \/ tpc' = "scan" /\ dir' = dir /\ adir' = adir /\ sid' = sid
    BY <1>3 DEF ScanContainer, ScanWithoutContainer, OpenFails, OpenDir, Leave
  <2>3. UNCHANGED <<taskQueue2, tmpc, tmTask, tmDir, tmCount, currentTask>>
    BY <1>1 DEF Onward, timer, queues
  <2>4. /\ InTask /\ Rescans(currentTask) /\ dir = currentTask.owner
        /\ sid = currentTask.scanID /\ adir = dir
    BY <1>1, TheRescan DEF Known, CountInv, ScanInv
  <2>5. ScanInv' /\ InTask' /\ tpc' # "store"
    BY <2>2, <2>3, <2>4 DEF ScanInv, Rescanning, InTask
  <2>. QED
    BY <2>1, <2>3, <2>4, <2>5, CalmStep
<1>. QED
  BY <1>2, <1>3

(* A new subdirectory is to be added: that is no rescan.                   *)
LEMMA CountAddChild ==
  ASSUME Known, TypeOK', AddChild
  PROVE  CountInv'
<1>1. /\ tpc = "child" /\ tpc \in Rescanning /\ child \in Locations /\ adir \in Adirs
      /\ UNCHANGED <<list, taskCount, tmpc, tmTask, tmDir, tmCount, currentTask>>
  BY DEF AddChild, Rescanning, autoscan, timer, Known, TypeOK, ThreadType
<1>2. /\ InTask /\ Rescans(currentTask) /\ dir = currentTask.owner
      /\ sid = currentTask.scanID /\ adir = dir
  BY <1>1, TheRescan DEF Known, CountInv, ScanInv
<1>3. \/ tpc' = "dec" /\ dir' = dir
      \/ tpc' = "scan" /\ dir' = dir /\ adir' = adir /\ sid' = sid
  BY DEF AddChild, Leave
<1>4. ScanInv' /\ InTask' /\ tpc' # "store"
  BY <1>1, <1>2, <1>3 DEF ScanInv, Rescanning, InTask
<1>5. CASE taskQueue2' = taskQueue2
  BY <1>1, <1>2, <1>4, <1>5, CalmStep
<1>6. CASE taskQueue2' # taskQueue2
  <2>1. PICK t : t = CMAddFileTask(child, adir)
    OBVIOUS
  <2>2. t \in Tasks /\ ~Rescans(t) /\ taskQueue2 \in Seq(Tasks)
    BY <1>1, <2>1, TaskTypes, ContentAssumption
       DEF Rescans, CMAddFileTask, ObjectIDs, INVALID_SCAN_ID, Known, TypeOK, QueueType
  <2>3. taskQueue2' = Append(taskQueue2, t)
    BY <1>6, <2>1 DEF AddChild
  <2>4. \A a \in Adirs : Outstanding(a)' = Outstanding(a)
    <3>1. ASSUME NEW a \in Adirs PROVE Outstanding(a)' = Outstanding(a)
      <4>1. Cardinality(Ordered(taskQueue2, a)) \in Nat
        BY <2>2, OrderedFinite
      <4>2. Cardinality(Ordered(Append(taskQueue2, t), a)) = Cardinality(Ordered(taskQueue2, a))
        BY <2>2, <4>1, OrderedAppend DEF One
      <4>. QED
        BY <2>3, <4>2 DEF Outstanding, Ordered, Rescans
    <3>. QED
      BY <3>1
  <2>5. \A u \in AllTasks' : Rescans(u) => u \in AllTasks
    <3>1. \A i \in DOMAIN taskQueue2' :
             taskQueue2'[i] = t \/ \E j \in DOMAIN taskQueue2 : taskQueue2'[i] = taskQueue2[j]
      BY <2>2, <2>3
    <3>. QED
      BY <1>1, <1>2, <2>2, <3>1 DEF AllTasks
  <2>6. Emptied({}) /\ Listed' = Listed
    BY <1>1, NothingEmptied DEF Emptied
  <2>7. PICK none \in SUBSET Adirs : none = {} /\ Emptied(none)
    BY <2>6
  <2>8. \A a \in Adirs : Active(a)' <=> Active(a)
    BY <1>1, <1>2, <1>4 DEF Active
  <2>9. \A a \in Listed' : Active(a) => Active(a)'
    BY <2>8 DEF Listed
  <2>. QED
    BY <1>1, <1>4, <2>4, <2>5, <2>7, <2>8, <2>9, CountsStay
<1>. QED
  BY <1>5, <1>6

(* A subdirectory in the storage: its rescan is counted when it is queued. *)
LEMMA CountRescanChild ==
  ASSUME Known, TypeOK', RescanChild
  PROVE  CountInv'
<1>1. /\ tpc = "child" /\ tpc \in Rescanning /\ child \in Locations
      /\ UNCHANGED <<list, tmpc, tmTask, tmDir, tmCount, currentTask>>
      /\ tpc' = "scan" /\ dir' = dir /\ adir' = adir /\ sid' = sid
  BY DEF RescanChild, Rescanning, timer, Known, TypeOK, ThreadType
<1>2. /\ InTask /\ Rescans(currentTask) /\ dir = currentTask.owner /\ dir \in Adirs
      /\ currentTask \in Tasks /\ sid = currentTask.scanID /\ adir = dir /\ dir # Nil
      /\ get(sid) = IF dir \in Listed THEN dir ELSE Nil
  BY <1>1, TheRescan, ContentAssumption DEF Known, CountInv, ScanInv
<1>3. ScanInv' /\ InTask' /\ tpc' # "store" /\ \A a \in Adirs : Active(a)' <=> Active(a)
  BY <1>1, <1>2 DEF ScanInv, Rescanning, InTask, Active
<1>4. CASE get(sid) = Nil
  <2>1. UNCHANGED <<taskCount, taskQueue2>>
    BY <1>4 DEF RescanChild
  <2>. QED
    BY <1>1, <1>2, <1>3, <2>1, CalmStep
<1>5. CASE get(sid) # Nil
  <2>1. PICK t : t = CMRescanDirectoryTask(ObjectID(child), sid, adir)
    OBVIOUS
  <2>2. taskQueue2' = Append(taskQueue2, t) /\ get(sid) = dir /\ dir \in Listed
        /\ taskCount' = [taskCount EXCEPT ![dir] = @ + 1]
    BY <1>2, <1>5, <2>1 DEF RescanChild, inc
  <2>3. /\ t \in Tasks /\ Rescans(t) /\ t.owner = dir /\ Addressed(t)
        /\ taskQueue2 \in Seq(Tasks) /\ taskCount \in [Adirs -> Int]
    <3>1. ObjectID(child) \in ObjectIDs \union {Nil} /\ sid \in Int
      BY <1>1 DEF Known, TypeOK, StorageType, ThreadType, ObjectID, ObjectIDs
    <3>2. t \in Tasks
      BY <1>2, <2>1, <3>1, TaskTypes, ContentAssumption DEF CMRescanDirectoryTask, Tasks
    <3>3. Rescans(t) /\ t.owner = dir /\ t.scanID = sid /\ t.valid
      BY <1>2, <2>1 DEF CMRescanDirectoryTask, Rescans
    <3>. QED
      BY <1>2, <2>2, <3>2, <3>3 DEF Addressed, Known, TypeOK, QueueType, AutoscanType
  <2>4. PICK none \in SUBSET Adirs : none = {} /\ Emptied(none)
    BY <1>1, NothingEmptied
  <2>5. Listed' = Listed /\ Listed \subseteq Adirs
    BY <2>4 DEF Emptied, Listed
  <2>6. \A a \in Adirs : Outstanding(a)' = Outstanding(a) + (IF a = dir THEN 1 ELSE 0)
    <3>1. ASSUME NEW a \in Adirs
          PROVE  Outstanding(a)' = Outstanding(a) + (IF a = dir THEN 1 ELSE 0)
      <4>1. Cardinality(Ordered(Append(taskQueue2, t), a)) =
              Cardinality(Ordered(taskQueue2, a)) + One(t, a)
        BY <2>3, OrderedAppend
      <4>2. One(t, a) = IF a = dir THEN 1 ELSE 0
        BY <2>3 DEF One
      <4>. QED
        BY <2>2, <4>1, <4>2 DEF Outstanding, Ordered, Rescans
    <3>. QED
      BY <3>1
  <2>7. TasksAddressed'
    <3>1. \A i \in DOMAIN taskQueue2' :
             taskQueue2'[i] = t \/ \E j \in DOMAIN taskQueue2 : taskQueue2'[i] = taskQueue2[j]
      BY <2>2, <2>3
    <3>2. \A u \in AllTasks' : Rescans(u) => u \in AllTasks \/ Addressed(u)
      BY <1>1, <1>2, <2>3, <3>1 DEF AllTasks
    <3>. QED
      BY <2>4, <3>2, AllAddressed DEF Known, CountInv
  <2>8. LoadedInv'
    <3>1. tmpc # "idle" => tmTask.owner # dir /\ tmTask.owner \in Adirs
      BY <1>1, TheRescan DEF Known, CountInv, LoadedInv, TypeOK, TimerType, OnlyRemovals,
         TasksAddressed, AllTasks, Addressed, Rescans
    <3>2. tmpc # "idle" => Outstanding(tmTask.owner)' = 0 /\ ~Active(tmTask.owner)'
      <4>1. SUFFICES ASSUME tmpc # "idle"
                     PROVE  Outstanding(tmTask.owner)' = 0 /\ ~Active(tmTask.owner)'
        OBVIOUS
      <4>2. PICK a : a = tmTask.owner
        OBVIOUS
      <4>3. Outstanding(a) = 0 /\ ~Active(a) /\ a \in Adirs /\ a # dir
        BY <3>1, <4>1, <4>2 DEF Known, CountInv, LoadedInv
      <4>4. Outstanding(a)' = 0 /\ ~Active(a)'
        BY <1>3, <2>6, <4>3
      <4>. QED
        BY <1>1, <4>2, <4>4 DEF Outstanding, Active
    <3>3. tmpc = "store" => /\ tmDir = tmTask.owner
                            /\ tmDir \in Listed => tmCount = taskCount'[tmDir]
      BY <2>2, <2>3, <3>1 DEF Known, CountInv, LoadedInv
    <3>. QED
      BY <1>1, <1>3, <2>5, <3>2, <3>3 DEF LoadedInv
  <2>9. \A a \in Listed' : Counted(a)'
    <3>1. ASSUME NEW a \in Listed' PROVE Counted(a)'
      <4>1. Counted(a) /\ a \in Adirs /\ taskCount[a] \in Int
        BY <2>3, <2>5 DEF Known, CountInv
      <4>2. taskCount'[a] = taskCount[a] + (IF a = dir THEN 1 ELSE 0)
        BY <2>2, <2>3, <4>1
      <4>3. Outstanding(a) \in Nat
        BY <2>3, OrderedFinite, OutstandingIs
      <4>. QED
        BY <1>3, <2>6, <4>1, <4>2, <4>3 DEF Counted
    <3>. QED
      BY <3>1
  <2>. QED
    BY <1>3, <2>7, <2>8, <2>9 DEF CountInv
<1>. QED
  BY <1>4, <1>5

(* decTaskCount() loads the count, ...                                     *)
LEMMA CountLoad ==
  ASSUME Known, TypeOK', LoadTaskCount
  PROVE  CountInv'
<1>1. /\ tpc = "dec" /\ tpc \in Rescanning /\ tpc' = "store" /\ count' = taskCount[dir] /\ dir' = dir
      /\ UNCHANGED <<list, taskCount, taskQueue2, tmpc, tmTask, tmDir, tmCount, currentTask>>
  BY DEF LoadTaskCount, Rescanning, Onward, autoscan, timer, queues
<1>2. ScanInv'
  BY <1>1, TheRescan DEF ScanInv, Rescanning
<1>3. InTask /\ InTask' /\ Listed' = Listed /\ Listed \subseteq Adirs
  BY <1>1, TheRescan DEF InTask, Rescanning, Listed
<1>4. \A a \in Adirs : Outstanding(a)' = Outstanding(a) /\ (Active(a)' <=> Active(a))
  BY <1>1, <1>3 DEF Outstanding, Active
<1>5. TasksAddressed'
  <2>1. PICK none \in SUBSET Adirs : none = {} /\ Emptied(none)
    BY <1>1, NothingEmptied
  <2>2. \A u \in AllTasks' : Rescans(u) => u \in AllTasks
    BY <1>1, <1>3 DEF AllTasks
  <2>. QED
    BY <2>1, <2>2, AllAddressed DEF Known, CountInv
<1>6. LoadedInv'
  <2>1. tmpc # "idle" => Outstanding(tmTask.owner)' = 0 /\ ~Active(tmTask.owner)'
    BY <1>1, <1>3 DEF Known, CountInv, LoadedInv, Outstanding, Active
  <2>. QED
    BY <1>1, <1>3, <2>1 DEF Known, CountInv, LoadedInv
<1>7. \A a \in Listed' : Counted(a)'
  <2>1. ASSUME NEW a \in Listed' PROVE Counted(a)'
    BY <1>1, <1>3, <1>4 DEF Known, CountInv, Counted
  <2>. QED
    BY <2>1
<1>. QED
  BY <1>2, <1>5, <1>6, <1>7 DEF CountInv

(* ... and stores it: the rescan is over.                                  *)
LEMMA CountStore ==
  ASSUME Known, TypeOK', StoreTaskCount
  PROVE  CountInv'
<1>1. /\ tpc = "store" /\ tpc \in Rescanning /\ tpc' = "loop"
      /\ taskCount' = [taskCount EXCEPT ![dir] = count - 1] /\ taskCount \in [Adirs -> Int]
      /\ UNCHANGED <<list, taskQueue2, tmpc, tmTask, tmDir, tmCount, currentTask>>
  BY DEF StoreTaskCount, Rescanning, Onward, timer, queues, Leave, Known, TypeOK, AutoscanType
<1>2. /\ dir = currentTask.owner /\ dir \in Adirs /\ Active(dir)
      /\ dir \in Listed => count = taskCount[dir]
  BY <1>1, TheRescan DEF Known, CountInv, LoadedInv
<1>3. ScanInv' /\ ~InTask'
  BY <1>1 DEF ScanInv, Rescanning, InTask
<1>4. Listed' = Listed /\ Listed \subseteq Adirs
  BY <1>1 DEF Listed
<1>5. \A a \in Adirs : /\ Outstanding(a)' = Outstanding(a) /\ ~Active(a)'
                       /\ Active(a) <=> a = dir
  BY <1>1, <1>2, <1>3 DEF Outstanding, Active
<1>6. TasksAddressed'
  <2>1. PICK none \in SUBSET Adirs : none = {} /\ Emptied(none)
    BY <1>1, NothingEmptied
  <2>2. \A u \in AllTasks' : Rescans(u) => u \in AllTasks
    BY <1>1, <1>3 DEF AllTasks
  <2>. QED
    BY <2>1, <2>2, AllAddressed DEF Known, CountInv
<1>7. LoadedInv'
  <2>1. tmpc # "idle" => Outstanding(tmTask.owner)' = 0 /\ ~Active(tmTask.owner)'
    BY <1>1, <1>3 DEF Known, CountInv, LoadedInv, Outstanding, Active
  <2>2. tmpc = "store" => /\ tmDir = tmTask.owner
                          /\ tmDir \in Listed => tmCount = taskCount'[tmDir]
    <3>1. tmpc = "store" => tmDir = tmTask.owner /\ tmDir # dir /\ tmDir \in Adirs
      BY <1>2 DEF Known, CountInv, LoadedInv, TypeOK, TimerType
    <3>. QED
      BY <1>1, <3>1 DEF Known, CountInv, LoadedInv
  <2>. QED
    BY <1>1, <1>4, <2>1, <2>2 DEF LoadedInv
<1>8. \A a \in Listed' : Counted(a)'
  <2>1. ASSUME NEW a \in Listed' PROVE Counted(a)'
    <3>1. Counted(a) /\ a \in Adirs /\ taskCount[a] \in Int
      BY <1>1, <1>4 DEF Known, CountInv
    <3>2. Outstanding(a) \in Nat
      BY OrderedFinite, OutstandingIs DEF Known, TypeOK, QueueType
    <3>3. taskCount'[a] = IF a = dir THEN taskCount[a] - 1 ELSE taskCount[a]
      BY <1>1, <1>2, <1>4, <3>1
    <3>. QED
      BY <1>5, <3>1, <3>2, <3>3 DEF Counted
  <2>. QED
    BY <2>1
<1>. QED
  BY <1>3, <1>6, <1>7, <1>8 DEF CountInv

(* A task is taken from a queue.                                           *)
LEMMA CountDequeue ==
  ASSUME Known, TypeOK', Dequeue
  PROVE  CountInv'
<1>1. /\ tpc = "loop" /\ ~InTask /\ tpc' = "start" /\ InTask'
      /\ UNCHANGED <<list, taskCount, tmpc, tmTask, tmDir, tmCount>>
  BY DEF Dequeue, InTask, Rescanning, autoscan, timer
<1>2. taskQueue1 \in Seq(Tasks) /\ taskQueue2 \in Seq(Tasks)
  BY DEF Known, TypeOK, QueueType
<1>3. CASE taskQueue1 # << >>
  <2>1. taskQueue2' = taskQueue2 /\ currentTask' = Head(taskQueue1)
    BY <1>3 DEF Dequeue
  <2>2. currentTask' = taskQueue1[1] /\ 1 \in DOMAIN taskQueue1
    BY <1>2, <1>3, <2>1
  <2>3. ~Rescans(currentTask')
    BY <2>2 DEF Known, OnlyRemovals, Rescans
  <2>4. ScanInv' /\ tpc' # "store"
    BY <1>1 DEF ScanInv, Rescanning
  <2>. QED
    BY <1>1, <2>1, <2>3, <2>4, CalmStep
<1>4. CASE taskQueue1 = << >>
  <2>1. PICK t : t = Head(taskQueue2)
    OBVIOUS
  <2>2. taskQueue2 # << >> /\ currentTask' = t /\ taskQueue2' = Tail(taskQueue2)
    BY <1>4, <2>1 DEF Dequeue
  <2>3. t \in Tasks /\ \E i \in DOMAIN taskQueue2 : t = taskQueue2[i]
    BY <1>2, <2>1, <2>2, HeadTailProperties
  <2>4. \A a \in Adirs : /\ Outstanding(a) = Outstanding(a)' + One(t, a)
                         /\ Outstanding(a)' \in Nat
                         /\ ~Active(a) /\ (Active(a)' <=> One(t, a) = 1)
    <3>1. ASSUME NEW a \in Adirs
          PROVE  Outstanding(a) = Outstanding(a)' + One(t, a) /\ Outstanding(a)' \in Nat
      <4>1. Tail(taskQueue2) \in Seq(Tasks)
        BY <1>2, <2>2, HeadTailProperties
      <4>2. Cardinality(Ordered(Tail(taskQueue2), a)) \in Nat
        BY <4>1, OrderedFinite
      <4>3. Cardinality(Ordered(taskQueue2, a)) =
              Cardinality(Ordered(Tail(taskQueue2), a)) + One(t, a)
        BY <1>2, <2>1, <2>2, OrderedTail
      <4>. QED
        BY <2>2, <4>2, <4>3 DEF Outstanding, Ordered, Rescans
    <3>. QED
      BY <1>1, <2>2, <3>1 DEF Active, One
  <2>5. ScanInv'
    BY <1>1 DEF ScanInv, Rescanning
  <2>6. TasksAddressed'
    <3>1. PICK none \in SUBSET Adirs : none = {} /\ Emptied(none)
      BY <1>1, NothingEmptied
    <3>2. \A i \in DOMAIN taskQueue2' :
             \E j \in DOMAIN taskQueue2 : taskQueue2'[i] = taskQueue2[j]
      BY <1>2, <2>2, HeadTailProperties
    <3>3. \A u \in AllTasks' : Rescans(u) => u \in AllTasks
      BY <1>1, <2>2, <2>3, <3>2 DEF AllTasks
    <3>. QED
      BY <3>1, <3>3, AllAddressed DEF Known, CountInv
  <2>7. LoadedInv'
    <3>1. tmpc # "idle" => tmTask.owner \in Adirs
      BY DEF Known, TypeOK, TimerType, OnlyRemovals, CountInv, TasksAddressed, AllTasks,
         Addressed, Rescans
    <3>2. tmpc # "idle" => Outstanding(tmTask.owner)' = 0 /\ ~Active(tmTask.owner)'
      <4>1. SUFFICES ASSUME tmpc # "idle"
                     PROVE  Outstanding(tmTask.owner)' = 0 /\ ~Active(tmTask.owner)'
        OBVIOUS
      <4>2. PICK a : a = tmTask.owner
        OBVIOUS
      <4>3. Outstanding(a) = 0 /\ a \in Adirs /\ One(t, a) \in {0, 1}
        BY <3>1, <4>1, <4>2 DEF Known, CountInv, LoadedInv, One
      <4>4. Outstanding(a)' = 0 /\ ~Active(a)'
        BY <2>4, <4>3
      <4>. QED
        BY <1>1, <4>2, <4>4 DEF Outstanding, Active
    <3>. QED
      BY <1>1, <3>2 DEF Known, CountInv, LoadedInv, Listed
  <2>8. \A a \in Listed' : Counted(a)'
    <3>1. ASSUME NEW a \in Listed' PROVE Counted(a)'
      <4>1. a \in Listed /\ a \in Adirs
        BY <1>1 DEF Listed
      <4>2. Counted(a) /\ One(t, a) \in {0, 1}
        BY <4>1 DEF Known, CountInv, One
      <4>. QED
        BY <1>1, <2>4, <4>1, <4>2 DEF Counted
    <3>. QED
      BY <3>1
  <2>. QED
    BY <2>5, <2>6, <2>7, <2>8 DEF CountInv
<1>. QED
  BY <1>3, <1>4

(* The timer orders a scan: the one before it is over.                     *)
LEMMA CountTimerNotify ==
  ASSUME Known, TypeOK', ~Overlap, NEW id \in timers \union notified, TimerNotify(id)
  PROVE  CountInv'
<1>1. PICK a : a = get(id)
  OBVIOUS
<1>2. id \in Int /\ a # Nil
  BY <1>1 DEF TimerNotify, Known, TypeOK, TimerType
<1>3. a \in Listed /\ a \in Adirs /\ scanID[a] = id
  BY <1>1, <1>2, SlotOf DEF Known, Listed
<1>4. /\ tmpc = "idle" /\ tmpc' = "load" /\ tmTask' = CMRescanDirectoryTask(objectID[a], id, a)
      /\ Outstanding(a) = 0 /\ ~Running(a)
      /\ UNCHANGED <<list, taskCount, taskQueue2, tpc, dir, adir, sid, count, currentTask>>
  BY <1>1, <1>3 DEF TimerNotify, autoscan, queues, thread, rescan
<1>5. Rescans(tmTask') /\ tmTask'.owner = a /\ tmTask'.valid /\ tmTask'.scanID = id
  BY <1>4 DEF CMRescanDirectoryTask, Rescans
<1>6. ~Active(a)
  BY <1>3, <1>4, ContentAssumption, NoTaskIsNil
     DEF Known, TypeOK, QueueType, Active, InTask, Running
<1>7. ScanInv'
  BY <1>4 DEF Known, CountInv, ScanInv
<1>8. TasksAddressed'
  <2>1. PICK none \in SUBSET Adirs : none = {} /\ Emptied(none)
    BY <1>4, NothingEmptied
  <2>2. \A u \in AllTasks' : Rescans(u) => u \in AllTasks \/ Addressed(u)
    BY <1>1, <1>3, <1>4, <1>5 DEF AllTasks, InTask, Addressed
  <2>. QED
    BY <2>1, <2>2, AllAddressed DEF Known, CountInv
<1>9. LoadedInv'
  <2>1. Outstanding(tmTask.owner)' = 0 /\ ~Active(tmTask.owner)'
    BY <1>4, <1>5, <1>6 DEF Outstanding, Active, InTask
  <2>. QED
    BY <1>4, <2>1 DEF Known, CountInv, LoadedInv, Listed
<1>10. \A b \in Listed' : Counted(b)'
  BY <1>4 DEF Known, CountInv, Counted, Listed, Outstanding, Active, InTask
<1>. QED
  BY <1>7, <1>8, <1>9, <1>10 DEF CountInv

(* What the timer works on.                                                *)
LEMMA TheOrder ==
  ASSUME Known, tmpc # "idle"
  PROVE  /\ tmTask \in Tasks /\ Rescans(tmTask) /\ Addressed(tmTask) /\ tmTask \in AllTasks
         /\ tmTask.owner \in Adirs
         /\ Outstanding(tmTask.owner) = 0 /\ ~Active(tmTask.owner)
BY DEF Known, TypeOK, TimerType, OnlyRemovals, CountInv, TasksAddressed, AllTasks, Addressed,
   Rescans, LoadedInv

(* It looks its directory up again and loads the count, ...                *)
LEMMA CountTimerLoad ==
  ASSUME Known, TypeOK', TimerLoad
  PROVE  CountInv'
<1>1. /\ tmpc = "load"
      /\ UNCHANGED <<list, taskCount, taskQueue2, tpc, dir, adir, sid, count, currentTask>>
  BY DEF TimerLoad, autoscan, queues, thread, rescan
<1>2. PICK a : a = tmTask.owner
  OBVIOUS
<1>3. /\ a \in Adirs /\ a # Nil /\ Outstanding(a) = 0 /\ ~Active(a)
      /\ get(tmTask.scanID) = IF a \in Listed THEN a ELSE Nil
  BY <1>1, <1>2, TheOrder, ContentAssumption DEF Addressed
<1>4. \/ tmpc' = "idle"
      \/ /\ tmpc' = "store" /\ tmDir' = a /\ tmCount' = taskCount[a] /\ tmTask' = tmTask
  BY <1>3 DEF TimerLoad
<1>5. ScanInv'
  BY <1>1 DEF Known, CountInv, ScanInv
<1>6. TasksAddressed'
  <2>1. PICK none \in SUBSET Adirs : none = {} /\ Emptied(none)
    BY <1>1, NothingEmptied
  <2>2. \A u \in AllTasks' : Rescans(u) => u \in AllTasks
    BY <1>1, <1>4 DEF AllTasks, InTask
  <2>. QED
    BY <2>1, <2>2, AllAddressed DEF Known, CountInv
<1>7. LoadedInv'
  <2>1. tmpc' # "idle" => Outstanding(tmTask.owner)' = 0 /\ ~Active(tmTask.owner)'
    BY <1>1, <1>2, <1>3, <1>4 DEF Outstanding, Active, InTask
  <2>2. tpc' = "store" /\ dir' \in Listed' => count' = taskCount'[dir']
    BY <1>1 DEF Known, CountInv, LoadedInv, Listed
  <2>3. tmpc' = "store" => /\ tmDir' = tmTask'.owner
                           /\ tmDir' \in Listed' => tmCount' = taskCount'[tmDir']
    BY <1>1, <1>2, <1>4
  <2>. QED
    BY <2>1, <2>2, <2>3 DEF LoadedInv
<1>8. \A b \in Listed' : Counted(b)'
  BY <1>1 DEF Known, CountInv, Counted, Listed, Outstanding, Active, InTask
<1>. QED
  BY <1>5, <1>6, <1>7, <1>8 DEF CountInv

(* ... then stores it and queues the rescan.                               *)
LEMMA CountTimerStore ==
  ASSUME Known, TypeOK', TimerStore
  PROVE  CountInv'
<1>1. /\ tmpc = "store" /\ tmpc' = "idle" /\ tpc' = Signalled
      /\ taskCount' = [taskCount EXCEPT ![tmDir] = tmCount + 1] /\ taskCount \in [Adirs -> Int]
      /\ taskQueue2' = Append(taskQueue2, tmTask) /\ taskQueue2 \in Seq(Tasks)
      /\ UNCHANGED <<list, dir, adir, sid, count, currentTask>>
  BY DEF TimerStore, rescan, Known, TypeOK, AutoscanType, QueueType
<1>2. PICK a, t : a = tmTask.owner /\ t = tmTask
  OBVIOUS
<1>3. /\ a \in Adirs /\ t \in Tasks /\ Rescans(t) /\ t.owner = a /\ t \in AllTasks
      /\ Outstanding(a) = 0 /\ ~Active(a)
      /\ tmDir = a /\ (a \in Listed => tmCount = taskCount[a])
  BY <1>1, <1>2, TheOrder DEF Known, CountInv, LoadedInv
<1>4. /\ InTask' <=> InTask
      /\ InTask => tpc' = tpc
      /\ tpc' \in {"dir", "check", "open", "scan", "child", "dec", "store"} => tpc' = tpc
  BY <1>1 DEF Signalled, InTask, Rescanning
<1>5. ScanInv'
  BY <1>1, <1>4 DEF Known, CountInv, ScanInv, Rescanning
<1>6. Listed' = Listed /\ Listed \subseteq Adirs
  BY <1>1 DEF Listed
<1>7. \A b \in Adirs : /\ Outstanding(b)' = Outstanding(b) + (IF b = a THEN 1 ELSE 0)
                       /\ Outstanding(b) \in Nat /\ (Active(b)' <=> Active(b))
  <2>1. ASSUME NEW b \in Adirs
        PROVE  /\ Outstanding(b)' = Outstanding(b) + (IF b = a THEN 1 ELSE 0)
               /\ Outstanding(b) \in Nat
    <3>1. Cardinality(Ordered(Append(taskQueue2, t), b)) =
            Cardinality(Ordered(taskQueue2, b)) + One(t, b)
      BY <1>1, <1>3, OrderedAppend
    <3>2. One(t, b) = IF b = a THEN 1 ELSE 0
      BY <1>3 DEF One
    <3>3. Cardinality(Ordered(taskQueue2, b)) \in Nat
      BY <1>1, OrderedFinite
    <3>. QED
      BY <1>1, <1>2, <3>1, <3>2, <3>3 DEF Outstanding, Ordered, Rescans
  <2>. QED
    BY <1>1, <1>4, <2>1 DEF Active
<1>8. TasksAddressed'
  <2>1. PICK none \in SUBSET Adirs : none = {} /\ Emptied(none)
    BY <1>1, NothingEmptied
  <2>2. \A i \in DOMAIN taskQueue2' :
           taskQueue2'[i] = t \/ \E j \in DOMAIN taskQueue2 : taskQueue2'[i] = taskQueue2[j]
    BY <1>1, <1>2, <1>3
  <2>3. \A u \in AllTasks' : Rescans(u) => u \in AllTasks
    BY <1>1, <1>3, <1>4, <2>2 DEF AllTasks
  <2>. QED
    BY <2>1, <2>3, AllAddressed DEF Known, CountInv
<1>9. LoadedInv'
  <2>1. tpc' = "store" /\ dir' \in Listed' => count' = taskCount'[dir']
    <3>1. SUFFICES ASSUME tpc' = "store", dir' \in Listed' PROVE count' = taskCount'[dir']
      OBVIOUS
    <3>2. tpc = "store" /\ tpc \in Rescanning
      BY <1>4, <3>1 DEF Rescanning
    <3>3. dir # a /\ dir \in Adirs
      BY <1>3, <3>2, TheRescan
    <3>. QED
      BY <1>1, <1>3, <1>6, <3>1, <3>2, <3>3 DEF Known, CountInv, LoadedInv
  <2>. QED
    BY <1>1, <2>1 DEF LoadedInv
<1>10. \A b \in Listed' : Counted(b)'
  <2>1. ASSUME NEW b \in Listed' PROVE Counted(b)'
    <3>1. Counted(b) /\ b \in Adirs /\ b \in Listed /\ taskCount[b] \in Int
      BY <1>1, <1>6 DEF Known, CountInv
    <3>2. taskCount'[b] = taskCount[b] + (IF b = a THEN 1 ELSE 0)
      BY <1>1, <1>3, <3>1
    <3>. QED
      BY <1>7, <3>1, <3>2 DEF Counted
  <2>. QED
    BY <2>1
<1>. QED
  BY <1>5, <1>8, <1>9, <1>10 DEF CountInv

(* Autoscan directories are taken off the list: the task thread and the    *)
(* timer go on with what they have.                                        *)
LEMMA CountRemoval ==
  ASSUME Known, TypeOK', NEW as \in SUBSET Adirs, removeAll(as),
         UNCHANGED <<taskCount, taskQueue2, tmpc, tmTask, tmDir, tmCount, tpc, dir, adir, sid,
                     count, currentTask>>
  PROVE  CountInv'
<1>1. Emptied(as)
  BY RemovalEmpties DEF Known
<1>2. ScanInv'
  BY DEF Known, CountInv, ScanInv
<1>3. \A t \in AllTasks' : Rescans(t) => t \in AllTasks
  BY DEF AllTasks, InTask
<1>4. \A a \in Adirs : Outstanding(a)' = Outstanding(a) /\ (Active(a)' <=> Active(a))
  BY DEF Outstanding, Active, InTask
<1>5. \A a \in Listed' : Active(a) => Active(a)'
  BY <1>4 DEF Listed
<1>. QED
  BY <1>1, <1>2, <1>3, <1>4, <1>5, CountsStay

(* What was to be added is cancelled, what was to be rescanned is not.     *)
LEMMA CountInvalidates ==
  ASSUME Known, TypeOK', RemoveInvalidates
  PROVE  CountInv'
<1>1. UNCHANGED <<list, taskCount, tmpc, tmTask, tmDir, tmCount, tpc, dir, adir, sid, count>>
  BY DEF RemoveInvalidates, autoscan, timer, thread, rescan
<1>2. PICK l : l = usObj[1]
  OBVIOUS
<1>3. \A t \in Tasks : LET u == invalidateAddTask(t, l)
                      IN  /\ Rescans(t) => u = t
                          /\ Rescans(u) => u = t
  BY DEF invalidateAddTask, Rescans, Tasks
<1>4. /\ DOMAIN taskQueue2' = DOMAIN taskQueue2
      /\ \A i \in DOMAIN taskQueue2 : /\ taskQueue2[i] \in Tasks
                                      /\ taskQueue2'[i] = invalidateAddTask(taskQueue2[i], l)
  BY <1>2, ElementOfSeq DEF RemoveInvalidates, InvalidatesQueues, Known, TypeOK, QueueType
<1>5. \A i \in DOMAIN taskQueue2 : /\ Rescans(taskQueue2[i]) => taskQueue2'[i] = taskQueue2[i]
                                   /\ Rescans(taskQueue2'[i]) => taskQueue2'[i] = taskQueue2[i]
  BY <1>3, <1>4
<1>6. InTask => /\ Rescans(currentTask) => currentTask' = currentTask
                /\ Rescans(currentTask') => currentTask' = currentTask
  <2>1. InTask => currentTask \in Tasks /\ currentTask' = invalidateAddTask(currentTask, l)
    BY <1>2, NoTaskIsNil DEF RemoveInvalidates, Known, TypeOK, InTask
  <2>. QED
    BY <1>3, <2>1
<1>7. InTask' <=> InTask
  BY <1>1 DEF InTask
<1>8. ScanInv'
  BY <1>1, <1>6 DEF Known, CountInv, ScanInv, InTask, Rescanning
<1>9. \A t \in AllTasks' : Rescans(t) => t \in AllTasks
  BY <1>1, <1>4, <1>5, <1>6, <1>7 DEF AllTasks
<1>10. \A a \in Adirs : Outstanding(a)' = Outstanding(a) /\ (Active(a)' <=> Active(a))
  <2>1. ASSUME NEW a \in Adirs PROVE Outstanding(a)' = Outstanding(a)
    <3>1. Ordered(taskQueue2', a) = Ordered(taskQueue2, a)
      BY <1>4, <1>5 DEF Ordered
    <3>. QED
      BY <3>1 DEF Outstanding, Ordered, Rescans
  <2>. QED
    BY <1>6, <1>7, <2>1 DEF Active
<1>11. PICK none \in SUBSET Adirs : none = {} /\ Emptied(none)
  BY <1>1, NothingEmptied
<1>12. \A a \in Listed' : Active(a) => Active(a)'
  BY <1>10 DEF Listed
<1>. QED
  BY <1>1, <1>8, <1>9, <1>10, <1>11, <1>12, CountsStay

LEMMA CountUserStep ==
  ASSUME Known, TypeOK', Undisturbed, UserStep
  PROVE  CountInv'
<1>1. ASSUME UNCHANGED <<list, taskCount, taskQueue2, tmpc, tmTask, tmDir, tmCount, currentTask,
                         dir, adir, sid, count>>,
             tpc' \in {tpc, Signalled}
      PROVE  CountInv'
  <2>1. /\ InTask' <=> InTask
        /\ tpc' \in {"dir", "check", "open", "scan", "child", "dec", "store"} => tpc' = tpc
    BY <1>1 DEF Signalled, InTask, Rescanning
  <2>2. ScanInv'
    BY <1>1, <2>1 DEF Known, CountInv, ScanInv, Rescanning
  <2>. QED
    BY <1>1, <2>1, <2>2, CalmStep
<1>2. CASE RemoveAutoscans
  <2>1. PICK as : as = {a \in Listed \ Persistent : Loc[a] \in Under[usObj[1]]}
    OBVIOUS
  <2>2. as \in SUBSET Adirs /\ removeAll(as)
    BY <1>2, <2>1 DEF RemoveAutoscans, Listed
  <2>3. UNCHANGED <<taskCount, taskQueue2, tmpc, tmTask, tmDir, tmCount, tpc, dir, adir, sid,
                    count, currentTask>>
    BY <1>2 DEF RemoveAutoscans, timer, queues, thread, rescan
  <2>. QED
    BY <2>2, <2>3, CountRemoval
<1>3. ASSUME NEW a \in Adirs, removeAutoscanDirectory(a) PROVE CountInv'
  <2>1. PICK as : as = {a}
    OBVIOUS
  <2>2. as \in SUBSET Adirs /\ removeAll(as)
    BY <1>3, <2>1 DEF removeAutoscanDirectory
  <2>3. UNCHANGED <<taskCount, taskQueue2, tmpc, tmTask, tmDir, tmCount, tpc, dir, adir, sid,
                    count, currentTask>>
    BY <1>3 DEF removeAutoscanDirectory, timer, queues, thread, rescan
  <2>. QED
    BY <2>2, <2>3, CountRemoval
<1>4. ~invalidateTask /\ \A a \in Adirs : ~setAutoscanDirectory(a)
  BY DEF Undisturbed, invalidateTask, setAutoscanDirectory
<1>5. CASE RemoveInvalidates
  BY <1>5, CountInvalidates
<1>6. ASSUME NEW l \in Locations, RemoveCall(l) PROVE CountInv'
  BY <1>1, <1>6 DEF RemoveCall, autoscan, timer, queues, thread, rescan
<1>7. CASE RemoveQueues \/ shutdown
  BY <1>1, <1>7 DEF RemoveQueues, shutdown, autoscan, timer, queues, rescan
<1>. QED
  BY <1>2, <1>3, <1>4, <1>5, <1>6, <1>7 DEF UserStep

LEMMA CountStep ==
  ASSUME Known, TypeOK', Undisturbed, [Next]_vars
  PROVE  CountInv'
<1>1. ASSUME UNCHANGED vars PROVE CountInv'
  <2>1. UNCHANGED <<list, taskCount, taskQueue2, tmpc, tmTask, tmDir, tmCount, currentTask,
                    tpc, dir, adir, sid, count>>
    BY <1>1 DEF vars, autoscan, timer, queues, thread, rescan
  <2>2. ScanInv' /\ (InTask' <=> InTask)
    BY <2>1 DEF Known, CountInv, ScanInv, InTask
  <2>. QED
    BY <2>1, <2>2, CalmStep
<1>2. CASE ThreadStep
  <2>1. ~ScanFails
    BY DEF Undisturbed, ScanFails
  <2>. QED
    BY <1>2, <2>1, CountTaskStep, CountDequeue, CountRescanStep, CountOpenStep,
       CountRescanChild, CountAddChild, CountLoad, CountStore DEF ThreadStep
<1>3. CASE TimerStep
  BY <1>3, CountTimerNotify, CountTimerLoad, CountTimerStore DEF TimerStep, Undisturbed
<1>. QED
  BY <1>1, <1>2, <1>3, CountUserStep, CountTaskStep DEF Next, Done

(* The task count of an autoscan directory is the number of its rescans    *)
(* that wait, whenever no task runs, for any directories, slots and queues *)
(* and however removals fall between the increments of the timer thread    *)
(* and the decrements of the task thread: the last rescan of a scan finds  *)
(* the count at one, and updateLMT() runs once for it.                     *)
THEOREM CountTheorem ==
  Undisturbed => (Spec => []TaskCountExact)
<1> SUFFICES ASSUME Undisturbed PROVE Spec => []TaskCountExact
  OBVIOUS
<1>1. Init => CountInv
  <2>1. ASSUME Init PROVE CountInv
    <3>1. ~InTask /\ tpc = "loop" /\ tmpc = "idle" /\ taskQueue2 = << >>
      BY <2>1 DEF Init, InTask, Rescanning
    <3>2. \A a \in Adirs : Outstanding(a) = 0
      <4>1. ASSUME NEW a \in Adirs PROVE Outstanding(a) = 0
        <5>1. Ordered(taskQueue2, a) = {}
          BY <3>1 DEF Ordered
        <5>. QED
          BY <5>1, FS_EmptySet, OutstandingIs
      <4>. QED
        BY <4>1
    <3>3. TasksAddressed
      BY <3>1 DEF TasksAddressed, AllTasks
    <3>4. \A a \in Listed : Counted(a)
      BY <2>1, <3>1, <3>2 DEF Init, Counted, Active, Listed
    <3>. QED
      BY <3>1, <3>3, <3>4 DEF CountInv, ScanInv, LoadedInv, Rescanning
  <2>. QED
    BY <2>1
<1>2. Spec => []RemoveInv
  <2>1. "addAutoscan" \notin Requests
    BY DEF Undisturbed
  <2>2. Init => RemoveInv
    BY DEF Init, RemoveInv, DoomedAreUnlisted, OnlyRemovals, NoAddBehindRemove, Doomed,
       PendingRemovals
  <2>3. TypeOK /\ SlotInv /\ RemoveInv /\ [Next]_vars => RemoveInv'
    BY <2>1, DoomedStep, OnlyRemovalsStep, AddStep DEF RemoveInv
  <2>4. Spec => []SlotInv
    BY SlotInit, SlotStep, ContentTypeCorrect, PTL DEF Spec
  <2>. QED
    BY <2>2, <2>3, <2>4, ContentTypeCorrect, PTL DEF Spec
<1>3. TypeOK /\ TypeOK' /\ SlotInv /\ RemoveInv /\ CountInv /\ [Next]_vars => CountInv'
  BY CountStep DEF Known, RemoveInv
<1>4. TypeOK /\ CountInv => TaskCountExact
  <2>1. ASSUME TypeOK, CountInv, tpc \in {"loop", "wait"}, NEW a \in Listed
        PROVE  taskCount[a] = Outstanding(a)
    <3>1. ~Active(a)
      BY <2>1 DEF Active, InTask, Rescanning
    <3>2. Counted(a)
      BY <2>1 DEF CountInv
    <3>3. Outstanding(a) \in Nat
      BY <2>1, OrderedFinite, OutstandingIs DEF TypeOK, QueueType
    <3>. QED
      BY <3>1, <3>2, <3>3 DEF Counted
  <2>. QED
    BY <2>1 DEF TaskCountExact
<1>5. Spec => []SlotInv
  BY SlotInit, SlotStep, ContentTypeCorrect, PTL DEF Spec
<1>. QED
  BY <1>1, <1>2, <1>3, <1>4, <1>5, ContentTypeCorrect, PTL DEF Spec
=============================================================================
