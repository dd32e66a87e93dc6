----------------------- MODULE BufferedIOHandler_proof -----------------------
(***************************************************************************)
(* Theorems about BufferedIOHandler, for every size of the ring, of the    *)
(* chunks, of the initial fill and of the resource, and every read length. *)
(***************************************************************************)
EXTENDS BufferedIOHandler, TLAPS

USE HelperAssumption, BufferedAssumption

(* The typing facts of the ring, which most steps need.                    *)
LEMMA TypeInit == Init => TypeOK
BY DEF Init, HelperInit, TypeOK, Slots, Junk, Free, Caller, Thread, NoBytes

(* What a step of the caller that leaves the ring alone does not disturb.  *)
LEMMA TypeStep == TypeOK /\ RingInv /\ [Next]_vars => TypeOK'
<1> SUFFICES ASSUME TypeOK, RingInv, [Next]_vars PROVE TypeOK'
  OBVIOUS
<1> USE DEF TypeOK, ring, status, seekv, caller, thread, Slots, Junk, Free,
            Caller, Thread, NoBytes
<1>1. CASE Open
  BY <1>1 DEF Open
<1>2. CASE \E len \in ReadLengths : CallRead(len)
  BY <1>2 DEF CallRead
<1>3. CASE ReadCheckSocket
  BY <1>3 DEF ReadCheckSocket, ReadReturns, CallerLocks
<1>4. CASE ReadMustWait
  BY <1>4 DEF ReadMustWait, CallerLocks
<1>5. CASE ReadWait
  BY <1>5 DEF ReadWait
<1>6. CASE ReadFails
  BY <1>6 DEF ReadFails, ReadReturns, CallerLocks
<1>7. CASE ReadEof
  BY <1>7 DEF ReadEof, ReadReturns, CallerLocks
<1>8. CASE ReadCopy
  BY <1>8 DEF ReadCopy, CallerLocks, FillSize, ReadBlocked
<1>9. CASE ReadDone
  <2>1. didRead \in 1..Fill /\ Fill \in 0..BufSize /\ posRead + Fill = srcPos
    BY <1>9 DEF ReadDone, CallerLocks, RingInv, RingHoldsNextBytes, Fill, FillSize
  <2>2. waiting' \subseteq waiting
    BY <1>9 DEF ReadDone, NotifyOne
  <2>3. result'.kind = "data"
    BY <1>9 DEF ReadDone
  <2>4. a' \in Slots /\ empty' \in BOOLEAN /\ posRead' \in 0..StreamLen
    BY <1>9, <2>1 DEF ReadDone, Wrap
  <2>5. /\ expect' = posRead' /\ cpc' = "idle"
        /\ UNCHANGED <<b, buffer, status, threadShutdown, seekv, mutex,
                       length, didRead, thread>>
    BY <1>9 DEF ReadDone
  <2>. QED
    BY <2>2, <2>3, <2>4, <2>5
<1>10. CASE \E s \in Seeks : CallSeek(s[1], s[2])
  BY <1>10 DEF CallSeek
<1>11. CASE SeekStep
  BY <1>11 DEF SeekStep, SeekWait, SeekWakes, CallerLocks
<1>12. CASE CallClose
  <2>1. waiting' \subseteq waiting
    BY <1>12 DEF CallClose, NotifyOne
  <2>. QED
    BY <1>12, <2>1 DEF CallClose
<1>13. CASE Join
  BY <1>13 DEF Join
<1>14. CASE Closed \/ UNCHANGED vars
  <2>1. UNCHANGED <<ring, status, threadShutdown, seekv, mutex, waiting,
                    caller, thread>>
    BY <1>14, Zenon DEF Closed, vars
  <2>. QED
    BY <2>1
<1>15. CASE ThreadStart \/ ThreadLoop \/ ThreadWakes
  <2>1. LoopTop
    BY <1>15 DEF ThreadStart, ThreadLoop, ThreadWakes
  <2>2. a' \in Slots /\ b' \in Slots
    BY <2>1 DEF LoopTop
  <2>3. chunk' \in 0..BufSize
    BY <2>1 DEF LoopTop, MaxWrite
  <2>4. waiting' \subseteq {Caller, Thread} /\ tpc' \in {"wait", "fill"}
    BY <2>1 DEF LoopTop
  <2>. QED
    BY <2>1, <2>2, <2>3, <2>4 DEF LoopTop
<1>16. CASE ThreadWakesToStop
  <2>1. waiting' \subseteq waiting /\ tpc' = "done" /\ mutex' = Free
    BY <1>16 DEF ThreadWakesToStop, LeaveLoop, NotifyOne
  <2>2. UNCHANGED <<ring, status, threadShutdown, seekv, caller, chunk, srcPos>>
    BY <1>16 DEF ThreadWakesToStop
  <2>. QED
    BY <2>1, <2>2
<1>17. ASSUME NEW n \in 1..BufSize, FillData(n) PROVE TypeOK'
  <2>1. b + n =< BufSize
    BY <1>17 DEF FillData, ThreadLocks, RingInv
  <2>2. waiting' \subseteq waiting
    BY <1>17 DEF FillData, LeaveLoop, NotifyOne
  <2>3. buffer' \in [Slots -> Junk..StreamLen]
    BY <1>17 DEF FillData
  <2>4. b' \in Slots /\ srcPos' \in 0..StreamLen
    BY <1>17, <2>1 DEF FillData
  <2>5. /\ waitForInitialFillSize' \in BOOLEAN
        /\ tpc' \in {"loop", "done"} /\ mutex' \in {Free, Thread}
    BY <1>17 DEF FillData, LeaveLoop
  <2>6. /\ empty' = FALSE
        /\ UNCHANGED <<a, posRead, eof, readError, checkSocket, threadShutdown,
                       seekv, caller, chunk>>
    BY <1>17 DEF FillData
  <2>7. /\ a' \in Slots /\ empty' \in BOOLEAN /\ posRead' \in 0..StreamLen
        /\ eof' \in BOOLEAN /\ readError' \in BOOLEAN /\ checkSocket' \in BOOLEAN
        /\ threadShutdown' \in BOOLEAN
        /\ doSeek' = FALSE /\ seekOffset' = 0 /\ seekWhence' = "SET"
    BY <2>6
  <2>8. /\ cpc' \in {"new", "idle", "read", "readblock", "copy", "join", "closed"}
        /\ length' \in ReadLengths \union {0} /\ didRead' \in Nat
        /\ result'.kind \in {"none", "data", "eof", "error", "checkSocket"}
        /\ expect' = posRead' /\ chunk' \in 0..BufSize
    BY <2>6
  <2>9. waiting' \subseteq {Caller, Thread}
    BY <2>2
  <2>. QED
    BY <2>3, <2>4, <2>5, <2>7, <2>8, <2>9
<1>18. CASE FillCheckSocket
  <2>1. /\ waiting' \subseteq waiting
        /\ tpc' \in {"loop", "done"} /\ mutex' \in {Free, Thread}
    BY <1>18 DEF FillCheckSocket, StayInLoop, LeaveLoop, NotifyOne
  <2>2. /\ checkSocket' = TRUE
        /\ UNCHANGED <<ring, eof, readError, waitForInitialFillSize,
                       threadShutdown, seekv, caller, chunk, srcPos>>
    BY <1>18 DEF FillCheckSocket
  <2>. QED
    BY <2>1, <2>2
<1>19. CASE FillEof \/ FillError
  <2>1. waiting' \subseteq waiting /\ tpc' = "done" /\ mutex' = Free
    BY <1>19 DEF FillEof, FillError, LeaveLoop, NotifyOne
  <2>2. eof' \in BOOLEAN /\ readError' \in BOOLEAN
    BY <1>19 DEF FillEof, FillError
  <2>3. UNCHANGED <<ring, checkSocket, waitForInitialFillSize, threadShutdown,
                    seekv, caller, chunk, srcPos>>
    BY <1>19 DEF FillEof, FillError
  <2>. QED
    BY <2>1, <2>2, <2>3
<1>20. CASE SpuriousWakeup
  BY <1>20 DEF SpuriousWakeup
<1>. QED
  BY <1>1, <1>2, <1>3, <1>4, <1>5, <1>6, <1>7, <1>8, <1>9, <1>10, <1>11,
     <1>12, <1>13, <1>14, <1>15, <1>16, <1>17, <1>18, <1>19, <1>20
     DEF Next, CallerNext, ReadStep, ThreadStep

(***************************************************************************)
(* The ring.                                                               *)
(***************************************************************************)

LEMMA FillType == TypeOK => Fill \in 0..BufSize
BY DEF TypeOK, Fill, FillSize, Slots

LEMMA RingInit == Init => RingInv
BY DEF Init, HelperInit, RingInv, RingHoldsNextBytes, Fill, Wrap

(* Steps that move no index and start no copy.                             *)
LEMMA RingKept ==
  ASSUME TypeOK, RingInv, UNCHANGED <<ring, srcPos>>,
         cpc' \in {"read", "readblock"} => length' \in ReadLengths,
         cpc' = "copy" => cpc = "copy" /\ didRead' = didRead,
         tpc' = "fill" => tpc = "fill" /\ chunk' = chunk
  PROVE  RingInv'
BY DEF RingInv, RingHoldsNextBytes, Fill, FillSize, Wrap, ring

(* The caller takes at most what is in the ring.                           *)
LEMMA RingReadDone == TypeOK /\ RingInv /\ ReadDone => RingInv' /\ Fill' \in 0..(Fill - 1)
<1> SUFFICES ASSUME TypeOK, RingInv, ReadDone
             PROVE  RingInv' /\ Fill' \in 0..(Fill - 1)
  OBVIOUS
<1>1. /\ ~empty /\ didRead \in 1..Fill /\ Fill = FillSize(a, b)
      /\ a \in Slots /\ b \in Slots /\ posRead \in Nat /\ srcPos \in Nat
      /\ srcPos = posRead + Fill
  BY DEF RingInv, RingHoldsNextBytes, ReadDone, CallerLocks, Fill, TypeOK
<1>2. /\ a' = Wrap(a + didRead) /\ (empty' <=> a' = b) /\ b' = b /\ buffer' = buffer
      /\ posRead' = posRead + didRead /\ srcPos' = srcPos
      /\ cpc' = "idle" /\ tpc' = tpc /\ chunk' = chunk
  BY <1>1 DEF ReadDone, thread
<1>3. Fill' = Fill - didRead /\ Fill \in 0..BufSize
  <2>1. a' = (IF a + didRead >= BufSize THEN a + didRead - BufSize ELSE a + didRead)
    BY <1>1, <1>2 DEF Wrap, Slots
  <2>2. Fill' = IF a' = b THEN 0 ELSE FillSize(a', b)
    BY <1>2 DEF Fill, FillSize
  <2>3. Fill = IF b > a THEN b - a ELSE b - a + BufSize
    BY <1>1 DEF FillSize
  <2>. QED
    BY <1>1, <2>1, <2>2, <2>3 DEF FillSize, Slots
<1>4. \A i \in 0..(BufSize - 1) : i < Fill' => buffer[Wrap(a' + i)] = posRead' + i
  <2> SUFFICES ASSUME NEW i \in 0..(BufSize - 1), i < Fill'
               PROVE  buffer[Wrap(a' + i)] = posRead' + i
    OBVIOUS
  <2>1. didRead + i \in 0..(BufSize - 1) /\ didRead + i < Fill
    BY <1>1, <1>3
  <2>2. Wrap(a' + i) = Wrap(a + (didRead + i))
    BY <1>1, <1>2, <1>3, <2>1 DEF Wrap, Slots
  <2>3. buffer[Wrap(a + (didRead + i))] = posRead + (didRead + i)
    BY <2>1 DEF RingInv, RingHoldsNextBytes
  <2>. QED
    BY <1>1, <1>2, <2>2, <2>3
<1>5. srcPos' = posRead' + Fill'
  BY <1>1, <1>2, <1>3
<1>6. RingHoldsNextBytes'
  BY <1>2, <1>4, <1>5 DEF RingHoldsNextBytes, Wrap
<1>7. tpc' = "fill" => chunk' >= 1 /\ b' + chunk' =< BufSize /\ Fill' + chunk' =< BufSize
  BY <1>1, <1>2, <1>3 DEF RingInv, TypeOK
<1>. QED
  BY <1>1, <1>2, <1>3, <1>6, <1>7 DEF RingInv

(* The thread writes behind the bytes of the ring, in its free slots.      *)
LEMMA RingFillData ==
  ASSUME TypeOK, RingInv, NEW n \in 1..BufSize, FillData(n)
  PROVE  RingInv' /\ Fill' = Fill + n
<1>1. /\ n =< chunk /\ b + chunk =< BufSize /\ Fill + chunk =< BufSize
      /\ (empty => a = b) /\ chunk \in 0..BufSize
      /\ a \in Slots /\ b \in Slots /\ posRead \in Nat /\ srcPos \in Nat
      /\ srcPos = posRead + Fill /\ Fill \in 0..BufSize
  BY FillType DEF RingInv, RingHoldsNextBytes, FillData, ThreadLocks, TypeOK
<1>2. /\ a' = a /\ b' = (IF b + n = BufSize THEN 0 ELSE b + n) /\ empty' = FALSE
      /\ buffer' = [i \in Slots |-> IF b =< i /\ i < b + n THEN srcPos + (i - b)
                                                       ELSE buffer[i]]
      /\ posRead' = posRead /\ srcPos' = srcPos + n
      /\ tpc' \in {"loop", "done"}
      /\ cpc' = cpc /\ didRead' = didRead /\ length' = length
  BY DEF FillData, LeaveLoop, caller
<1>3. Fill' = Fill + n
  BY <1>1, <1>2 DEF Fill, FillSize, Slots
<1>4. ASSUME NEW i \in 0..(BufSize - 1), i < Fill'
      PROVE  buffer'[Wrap(a' + i)] = posRead' + i
  <2>1. Wrap(a + i) \in Slots
    BY <1>1 DEF Wrap, Slots
  <2>2. CASE i < Fill
    <3>1. ~(b =< Wrap(a + i) /\ Wrap(a + i) < b + n)
      BY <1>1, <2>2 DEF Wrap, Fill, FillSize, Slots
    <3>2. buffer[Wrap(a + i)] = posRead + i
      BY <2>2 DEF RingInv, RingHoldsNextBytes
    <3>. QED
      BY <1>2, <2>1, <3>1, <3>2
  <2>3. CASE i >= Fill
    <3>1. Wrap(a + i) = b + (i - Fill) /\ i - Fill < n
      BY <1>1, <1>3, <1>4, <2>3 DEF Wrap, Fill, FillSize, Slots
    <3>2. \A s \in Slots : b =< s /\ s < b + n => buffer'[s] = srcPos + (s - b)
      BY <1>2
    <3>3. buffer'[Wrap(a + i)] = srcPos + (Wrap(a + i) - b)
      BY <1>1, <2>1, <2>3, <3>1, <3>2 DEF Slots
    <3>4. srcPos + (Wrap(a + i) - b) = posRead + i
      BY <1>1, <2>3, <3>1 DEF Slots
    <3>. QED
      BY <1>2, <3>3, <3>4
  <2>. QED
    BY <1>1, <2>2, <2>3
<1>5. RingHoldsNextBytes'
  BY <1>1, <1>2, <1>3, <1>4 DEF RingHoldsNextBytes, Wrap
<1>6. cpc' = "copy" => ~empty' /\ didRead' \in 1..Fill'
  BY <1>1, <1>2, <1>3 DEF RingInv
<1>. QED
  BY <1>2, <1>3, <1>5, <1>6 DEF RingInv

(* An empty ring restarts at slot 0; the thread asks for what fits.        *)
LEMMA RingLoopTop == TypeOK /\ RingInv /\ LoopTop => RingInv'
<1> SUFFICES ASSUME TypeOK, RingInv, LoopTop PROVE RingInv'
  OBVIOUS
<1>1. /\ a \in Slots /\ b \in Slots /\ empty' = empty /\ buffer' = buffer
      /\ a' = (IF empty THEN 0 ELSE a) /\ b' = (IF empty THEN 0 ELSE b)
      /\ UNCHANGED <<posRead, srcPos, cpc, didRead, length>>
  BY DEF LoopTop, TypeOK, caller
<1>2. Fill' = Fill /\ Fill \in 0..BufSize
  BY <1>1, FillType DEF Fill
<1>3. RingHoldsNextBytes'
  BY <1>1, <1>2 DEF RingInv, RingHoldsNextBytes, Fill, Wrap
<1>4. tpc' = "fill" => chunk' >= 1 /\ b' + chunk' =< BufSize /\ Fill + chunk' =< BufSize
  BY <1>1 DEF LoopTop, MaxWrite, Fill, FillSize, Slots
<1>. QED
  BY <1>1, <1>2, <1>3, <1>4 DEF RingInv

LEMMA RingStep == TypeOK /\ RingInv /\ [Next]_vars => RingInv'
<1> SUFFICES ASSUME TypeOK, RingInv, [Next]_vars PROVE RingInv'
  OBVIOUS
<1>1. CASE ReadDone
  BY <1>1, RingReadDone
<1>2. ASSUME NEW n \in 1..BufSize, FillData(n) PROVE RingInv'
  BY <1>2, RingFillData
<1>3. CASE ThreadStart \/ ThreadLoop \/ ThreadWakes
  BY <1>3, RingLoopTop DEF ThreadStart, ThreadLoop, ThreadWakes
<1>4. CASE ReadCopy
  <2>1. ~empty /\ length \in ReadLengths
    BY <1>4 DEF ReadCopy, ReadBlocked, CallerLocks, RingInv
  <2>2. FillSize(a, b) = Fill /\ Fill \in 1..BufSize
    BY <2>1 DEF Fill, FillSize, TypeOK, Slots
  <2>3. didRead' \in 1..Fill
    BY <1>4, <2>1, <2>2 DEF ReadCopy
  <2>4. /\ UNCHANGED <<ring, srcPos, tpc, chunk>> /\ cpc' = "copy"
    BY <1>4 DEF ReadCopy, thread
  <2>. QED
    BY <2>1, <2>3, <2>4
       DEF RingInv, RingHoldsNextBytes, Fill, FillSize, Wrap, ring
<1>5. CASE \/ Open \/ (\E len \in ReadLengths : CallRead(len))
           \/ ReadCheckSocket \/ ReadMustWait \/ ReadWait \/ ReadFails \/ ReadEof
           \/ CallClose \/ Join \/ SpuriousWakeup
  <2>1. /\ UNCHANGED <<ring, srcPos>>
        /\ cpc' \in {"read", "readblock"} => length' \in ReadLengths
        /\ cpc' = "copy" => cpc = "copy" /\ didRead' = didRead
        /\ tpc' = "fill" => tpc = "fill" /\ chunk' = chunk
    BY <1>5 DEF Open, CallRead, ReadCheckSocket, ReadMustWait, ReadWait,
                ReadFails, ReadEof, ReadReturns, CallerLocks, CallClose, Join,
                SpuriousWakeup, RingInv, thread, caller
  <2>. QED
    BY <2>1, RingKept
<1>6. CASE ThreadWakesToStop \/ FillCheckSocket \/ FillEof \/ FillError
  <2>1. /\ UNCHANGED <<ring, caller, srcPos>>
        /\ tpc' # "fill"
    BY <1>6 DEF ThreadWakesToStop, FillCheckSocket, FillEof, FillError,
                StayInLoop, LeaveLoop
  <2>. QED
    BY <2>1, RingKept DEF RingInv, caller
<1>7. CASE Closed \/ UNCHANGED vars
  <2>1. UNCHANGED <<ring, caller, thread>>
    BY <1>7, Zenon DEF Closed, vars
  <2>. QED
    BY <2>1, RingKept DEF RingInv, caller, thread
<1>8. ~(\E s \in Seeks : CallSeek(s[1], s[2])) /\ ~SeekStep
  BY DEF CallSeek, SeekStep, SeekWait, SeekWakes, CallerLocks, TypeOK
<1>. QED
  BY <1>1, <1>2, <1>3, <1>4, <1>5, <1>6, <1>7, <1>8
     DEF Next, CallerNext, ReadStep, ThreadStep

(* The bytes in the ring are always those the caller is to get next, for   *)
(* every size: nothing is lost, repeated or reordered between the threads. *)
THEOREM TypeAndRing == Spec => [](TypeOK /\ RingInv)
<1>1. Init => TypeOK /\ RingInv
  BY TypeInit, RingInit
<1>2. TypeOK /\ RingInv /\ [Next]_vars => TypeOK' /\ RingInv'
  BY TypeStep, RingStep
<1>. QED
  BY <1>1, <1>2, PTL DEF Spec

(* What the threads copy concurrently (lines 119-121 of read(), line 169   *)
(* of the thread) never overlaps.                                          *)
LEMMA RingMeansNoTornCopy == TypeOK /\ RingInv => NoTornCopy
<1> SUFFICES ASSUME TypeOK, RingInv, cpc = "copy", tpc = "fill",
                    NEW i \in 0..(didRead - 1), NEW j \in 0..(chunk - 1)
             PROVE  Wrap(a + i) # b + j
  BY DEF NoTornCopy, ReaderSlots, WriterSlots
<1>. QED
  BY DEF RingInv, TypeOK, Wrap, Fill, FillSize, Slots

(***************************************************************************)
(* The condition variable.                                                 *)
(***************************************************************************)

(* A thread that notifies is not waiting, so nobody waits afterwards.      *)
LEMMA NotifyEmpties ==
  ASSUME waiting \subseteq {Caller, Thread},
         Caller \notin waiting \/ Thread \notin waiting, NotifyOne
  PROVE  waiting' = {}
BY DEF NotifyOne, Caller, Thread

LEMMA WaitInit == Init => WaitInv /\ ResultInv
<1> SUFFICES ASSUME Init PROVE WaitInv /\ ResultInv
  OBVIOUS
<1>1. Fill = 0 /\ (waitForInitialFillSize <=> InitialFillSize > 0)
  BY DEF Init, HelperInit, Fill
<1>. QED
  BY <1>1 DEF Init, HelperInit, WaitInv, ResultInv, Free, Caller, Thread, NoBytes

(* Steps that take nothing from a waiting thread's reason to wait.         *)
LEMMA WaitStep ==
  TypeOK /\ RingInv /\ WaitInv /\ ResultInv /\ [Next]_vars => WaitInv'
<1> SUFFICES ASSUME TypeOK, RingInv, WaitInv, ResultInv, [Next]_vars
             PROVE  WaitInv'
  OBVIOUS
<1>0. waiting \subseteq {Caller, Thread}
  BY DEF TypeOK
<1> USE DEF Caller, Thread, Free
<1>1. CASE ReadDone
  <2>1. Fill' < Fill /\ Fill \in Nat /\ Fill' \in Nat
    BY <1>1, FillType, RingReadDone
  <2>2. Thread \notin waiting'
    <3>1. CASE a = b
      BY <1>0, <1>1, <3>1, NotifyEmpties DEF ReadDone, CallerLocks
    <3>2. CASE a # b
      <4>1. Thread \notin waiting
        BY <3>2 DEF WaitInv
      <4>. QED
        BY <1>1, <4>1 DEF ReadDone, NotifyOne
    <3>. QED
      BY <3>1, <3>2
  <2>3. Caller \notin waiting'
    BY <1>1 DEF ReadDone, NotifyOne, CallerLocks
  <2>4. /\ cpc' = "idle" /\ tpc' = tpc
        /\ UNCHANGED <<mutex, status, threadShutdown>>
        /\ tpc \notin {"none", "start", "loop"}
        /\ posRead' > 0
    BY <1>1 DEF ReadDone, CallerLocks, thread, RingInv, WaitInv, TypeOK
  <2>. QED
    BY <1>1, <2>1, <2>2, <2>3, <2>4
       DEF WaitInv, status, ReadDone, CallerLocks, TypeOK
<1>2. ASSUME NEW n \in 1..BufSize, FillData(n) PROVE WaitInv'
  <2>1. /\ Thread \notin waiting /\ mutex = Free /\ tpc = "fill"
        /\ a' = a /\ empty' = FALSE
        /\ UNCHANGED <<eof, readError, checkSocket, threadShutdown, cpc>>
    BY <1>2 DEF FillData, ThreadLocks, caller
  <2>2. Fill' = FillSize(a, b')
    BY <2>1 DEF Fill, FillSize
  <2>3. Fill' \in Nat
    <3>1. Fill' = Fill + n
      BY <1>2, RingFillData, Zenon
    <3>. QED
      BY <3>1, FillType
  <2>4. /\ waitForInitialFillSize' = (waitForInitialFillSize /\ ~(Fill' >= InitialFillSize))
        /\ \/ threadShutdown /\ LeaveLoop
           \/ /\ ~threadShutdown
              /\ tpc' = "loop" /\ mutex' = Thread
              /\ IF empty \/ (waitForInitialFillSize /\ Fill' >= InitialFillSize)
                 THEN NotifyOne ELSE UNCHANGED waiting
    BY <1>2, <2>2 DEF FillData
  <2>5. Thread \notin waiting'
    BY <2>1, <2>4 DEF LeaveLoop, NotifyOne
  <2>6. Caller \in waiting' => cpc = "read" /\ ReadBlocked' /\ ~checkSocket'
    <3>1. CASE threadShutdown \/ empty
                 \/ (waitForInitialFillSize /\ Fill' >= InitialFillSize)
      BY <1>0, <2>1, <2>4, <3>1, NotifyEmpties DEF LeaveLoop
    <3>2. CASE ~(threadShutdown \/ empty
                 \/ (waitForInitialFillSize /\ Fill' >= InitialFillSize))
      BY <2>1, <2>4, <3>2 DEF WaitInv, ReadBlocked
    <3>. QED
      BY <3>1, <3>2
  <2>7. /\ waitForInitialFillSize' => Fill' < InitialFillSize
        /\ ~waitForInitialFillSize' => posRead' > 0 \/ Fill' >= InitialFillSize
    <3>1. Fill' = Fill + n
      BY <1>2, RingFillData, Zenon
    <3>5. Fill \in Nat
      BY FillType
    <3>2. posRead' = posRead
      BY <1>2 DEF FillData
    <3>3. waitForInitialFillSize' <=>
            (waitForInitialFillSize /\ ~(Fill' >= InitialFillSize))
      BY <2>4
    <3>4. ~waitForInitialFillSize => posRead > 0 \/ Fill >= InitialFillSize
      BY DEF WaitInv
    <3>. QED
      BY <1>2, <2>3, <3>1, <3>2, <3>3, <3>4, <3>5
  <2>. QED
    BY <2>1, <2>4, <2>5, <2>6, <2>7 DEF WaitInv, LeaveLoop
<1>3. CASE ThreadStart \/ ThreadLoop \/ ThreadWakes
  <2>1. /\ LoopTop /\ Thread \notin waiting /\ mutex # Caller
        /\ ~threadShutdown \/ empty
    BY <1>3 DEF ThreadStart, ThreadLoop, ThreadWakes, ThreadLocks, WaitInv
  <2>2. /\ UNCHANGED <<empty, posRead, status, threadShutdown, cpc>>
        /\ mutex' = Free /\ tpc' \in {"wait", "fill"} /\ Fill' = Fill
        /\ waiting' \in {waiting, waiting \union {Thread}}
    BY <2>1 DEF LoopTop, caller, Fill
  <2>3. Thread \in waiting' => tpc' = "wait" /\ ~empty /\ a' = b' /\ ~threadShutdown
    BY <2>1 DEF LoopTop, MaxWrite, TypeOK, Slots
  <2>. QED
    BY <2>1, <2>2, <2>3 DEF WaitInv, ReadBlocked, status
<1>4. CASE ThreadWakesToStop \/ FillCheckSocket \/ FillEof \/ FillError
  <2>1. /\ Thread \notin waiting /\ mutex = Free
        /\ UNCHANGED <<ring, threadShutdown, cpc, waitForInitialFillSize>>
        /\ NotifyOne
        /\ \/ tpc' = "done" /\ mutex' = Free
           \/ tpc' = "loop" /\ mutex' = Thread /\ ~threadShutdown
    BY <1>4 DEF ThreadWakesToStop, FillCheckSocket, FillEof, FillError,
                StayInLoop, LeaveLoop, ThreadLocks, caller, status
  <2>2. waiting' = {}
    BY <1>0, <2>1, NotifyEmpties
  <2>. QED
    BY <2>1, <2>2 DEF WaitInv, Fill, FillSize, ring
<1>5. CASE CallClose
  <2>1. waiting' = {}
    BY <1>0, <1>5, NotifyEmpties DEF CallClose, CallerLocks
  <2>. QED
    BY <1>5, <2>1 DEF CallClose, CallerLocks, WaitInv, thread, ring, status,
                      Fill, FillSize
<1>6. CASE \/ Open \/ (\E len \in ReadLengths : CallRead(len))
           \/ ReadCheckSocket \/ ReadMustWait \/ ReadWait
           \/ Join \/ SpuriousWakeup
  <2>1. UNCHANGED <<ring, eof, readError, waitForInitialFillSize, threadShutdown>>
    BY <1>6 DEF Open, CallRead, ReadCheckSocket, ReadMustWait, ReadWait,
                ReadReturns, Join, SpuriousWakeup, status
  <2>2. Fill' = Fill /\ ReadBlocked' = ReadBlocked
    BY <2>1 DEF Fill, FillSize, ReadBlocked, ring
  <2>. QED
    BY <1>6, <2>1, <2>2
       DEF Open, CallRead, ReadCheckSocket, ReadMustWait, ReadWait, CallerLocks,
           ReadReturns, Join, SpuriousWakeup, WaitInv, ResultInv, thread, caller,
           status, ring, Init, HelperInit
<1>7. CASE ReadFails \/ ReadEof \/ ReadCopy
  <2>1. UNCHANGED <<ring, eof, readError, checkSocket, waitForInitialFillSize,
                    threadShutdown, mutex, waiting, tpc>>
    BY <1>7 DEF ReadFails, ReadEof, ReadCopy, ReadReturns, status, thread
  <2>2. cpc = "read" /\ cpc' \in {"idle", "copy"} /\ Caller \notin waiting /\ mutex = Free
    BY <1>7 DEF ReadFails, ReadEof, ReadCopy, ReadReturns, CallerLocks
  <2>. QED
    BY <2>1, <2>2 DEF WaitInv, Fill, FillSize, ring
<1>8. CASE Closed \/ UNCHANGED vars
  <2>1. UNCHANGED <<ring, status, threadShutdown, mutex, waiting, caller, thread>>
    BY <1>8, Zenon DEF Closed, vars
  <2>. QED
    BY <2>1 DEF WaitInv, ReadBlocked, Fill, FillSize, ring, status, caller, thread
<1>9. ~(\E s \in Seeks : CallSeek(s[1], s[2])) /\ ~SeekStep
  BY DEF CallSeek, SeekStep, SeekWait, SeekWakes, CallerLocks, TypeOK
<1>. QED
  BY <1>1, <1>2, <1>3, <1>4, <1>5, <1>6, <1>7, <1>8, <1>9
     DEF Next, CallerNext, ReadStep, ThreadStep

(***************************************************************************)
(* What the caller has been told.                                          *)
(***************************************************************************)

LEMMA ResultStep ==
  TypeOK /\ RingInv /\ WaitInv /\ ResultInv /\ [Next]_vars => ResultInv'
<1> SUFFICES ASSUME TypeOK, RingInv, WaitInv, ResultInv, [Next]_vars
             PROVE  ResultInv'
  OBVIOUS
<1>1. CASE ReadDone
  <2>1. /\ result'.kind = "data" /\ cpc = "copy" /\ cpc' = "idle"
        /\ UNCHANGED <<eof, readError, threadShutdown, tpc, srcPos>>
    BY <1>1 DEF ReadDone, CallerLocks, status, thread
  <2>. QED
    BY <2>1 DEF ResultInv
<1>2. CASE ReadCheckSocket \/ ReadFails \/ ReadEof
  <2>1. /\ cpc = "read" /\ cpc' = "idle"
        /\ UNCHANGED <<empty, eof, readError, threadShutdown, tpc, srcPos>>
        /\ \/ result'.kind = "checkSocket"
           \/ result'.kind = "error" /\ (readError \/ threadShutdown)
           \/ result'.kind = "eof" /\ eof /\ empty
    BY <1>2 DEF ReadCheckSocket, ReadFails, ReadEof, ReadReturns, CallerLocks,
                NoBytes, ring, thread
  <2>. QED
    BY <2>1 DEF ResultInv
<1>3. CASE ReadCopy
  <2>1. /\ cpc = "read" /\ cpc' = "copy" /\ ~readError /\ ~(empty /\ eof)
        /\ UNCHANGED <<empty, eof, readError, threadShutdown, tpc, srcPos, result>>
    BY <1>3 DEF ReadCopy, CallerLocks, ring, status, thread
  <2>. QED
    BY <2>1 DEF ResultInv
<1>4. CASE \/ Open \/ (\E len \in ReadLengths : CallRead(len))
           \/ ReadMustWait \/ ReadWait \/ CallClose \/ Join
  <2>1. /\ UNCHANGED <<empty, eof, readError, srcPos, result>>
        /\ threadShutdown' => threadShutdown \/ cpc' = "join"
        /\ threadShutdown => cpc = "join" /\ cpc' = "closed"
        /\ cpc' # "copy" /\ cpc' # "new"
        /\ \/ cpc = "new" /\ tpc' = "start"
           \/ cpc # "new" /\ tpc' = tpc
    BY <1>4 DEF Open, CallRead, ReadMustWait, ReadWait, CallClose, Join,
                CallerLocks, ring, status, thread, ResultInv
  <2>. QED
    BY <2>1 DEF ResultInv
<1>5. ASSUME NEW n \in 1..BufSize, FillData(n) PROVE ResultInv'
  <2>1. /\ tpc = "fill" /\ tpc' \in {"loop", "done"}
        /\ UNCHANGED <<eof, readError, threadShutdown, caller>>
    BY <1>5 DEF FillData, LeaveLoop, ThreadLocks
  <2>. QED
    BY <2>1 DEF ResultInv, caller
<1>6. CASE ThreadStart \/ ThreadLoop \/ ThreadWakes
  <2>1. /\ LoopTop /\ tpc \in {"start", "loop", "wait"}
    BY <1>6 DEF ThreadStart, ThreadLoop, ThreadWakes, ThreadLocks
  <2>2. /\ UNCHANGED <<empty, eof, readError, threadShutdown, caller, srcPos>>
        /\ tpc' \in {"wait", "fill"}
    BY <2>1 DEF LoopTop, status
  <2>. QED
    BY <2>1, <2>2 DEF ResultInv, caller
<1>7. CASE ThreadWakesToStop \/ FillCheckSocket \/ FillEof \/ FillError
  <2>1. /\ UNCHANGED <<empty, threadShutdown, caller, srcPos>>
        /\ tpc \in {"wait", "fill"} /\ tpc' \in {"loop", "done"}
        /\ ~eof /\ ~readError
        /\ eof' \/ readError' => tpc' = "done"
        /\ eof' => srcPos = StreamLen
    BY <1>7 DEF ThreadWakesToStop, FillCheckSocket, FillEof, FillError,
                StayInLoop, LeaveLoop, ThreadLocks, ring, status, ResultInv
  <2>. QED
    BY <2>1 DEF ResultInv, caller
<1>8. CASE SpuriousWakeup \/ Closed \/ UNCHANGED vars
  <2>1. UNCHANGED <<ring, status, threadShutdown, caller, thread>>
    BY <1>8, Zenon DEF SpuriousWakeup, Closed, vars
  <2>. QED
    BY <2>1 DEF ResultInv, ring, status, caller, thread
<1>9. ~(\E s \in Seeks : CallSeek(s[1], s[2])) /\ ~SeekStep
  BY DEF CallSeek, SeekStep, SeekWait, SeekWakes, CallerLocks, TypeOK
<1>. QED
  BY <1>1, <1>2, <1>3, <1>4, <1>5, <1>6, <1>7, <1>8, <1>9
     DEF Next, CallerNext, ReadStep, ThreadStep

THEOREM Invariant == Spec => []IInv
<1>1. Init => IInv
  BY TypeInit, RingInit, WaitInit DEF IInv
<1>2. IInv /\ [Next]_vars => IInv'
  BY TypeStep, RingStep, WaitStep, ResultStep DEF IInv
<1>. QED
  BY <1>1, <1>2, PTL DEF Spec

(* The indices stay in the buffer, the counters in the resource.           *)
THEOREM TypeCorrect == Spec => []TypeOK
<1>1. IInv => TypeOK
  BY DEF IInv
<1>. QED
  BY <1>1, Invariant, PTL

(* The ring holds exactly the bytes between what read() has handed out and *)
(* what the thread has fetched.                                            *)
THEOREM RingCorrect == Spec => []RingHoldsNextBytes
<1>1. IInv => RingHoldsNextBytes
  BY DEF IInv, RingInv
<1>. QED
  BY <1>1, Invariant, PTL

(* The copies that read() and the thread make without the mutex never      *)
(* touch the same slot.                                                    *)
THEOREM CopiesAreDisjoint == Spec => []NoTornCopy
<1>1. IInv => NoTornCopy
  BY RingMeansNoTornCopy DEF IInv
<1>. QED
  BY <1>1, Invariant, PTL

(* read() and the thread are never both inside cond.wait(): a ring cannot  *)
(* be full for the thread and too empty for read(), because the initial    *)
(* fill is at most the size of the ring.                                   *)
THEOREM NoMutualWait == Spec => []SomebodyRuns
<1>1. IInv => SomebodyRuns
  <2> SUFFICES ASSUME IInv, {Caller, Thread} \subseteq waiting PROVE FALSE
    BY DEF SomebodyRuns
  <2>1. ~empty /\ a = b /\ ReadBlocked
    BY DEF IInv, WaitInv
  <2>2. waitForInitialFillSize
    BY <2>1 DEF ReadBlocked
  <2>3. Fill = BufSize
    BY <2>1 DEF Fill, FillSize, IInv, TypeOK, Slots
  <2>. QED
    BY <2>2, <2>3 DEF IInv, WaitInv
<1>. QED
  BY <1>1, Invariant, PTL

(* The first bytes wait for the initial fill or the end of the source.     *)
THEOREM PrefillTheorem == Spec => PrefillHonoured
<1>1. IInv /\ [Next]_vars =>
        [(cpc = "read" /\ cpc' = "copy" /\ posRead = 0)
           => (Fill >= InitialFillSize \/ eof)]_vars
  <2> SUFFICES ASSUME IInv, [Next]_vars, cpc = "read", cpc' = "copy", posRead = 0
               PROVE  Fill >= InitialFillSize \/ eof
    OBVIOUS
  <2>1. ReadCopy
    BY DEF Next, CallerNext, ReadStep, ThreadStep, Open, CallRead,
           ReadCheckSocket, ReadMustWait, ReadWait, ReadFails, ReadEof,
           ReadReturns, ReadDone, CallSeek, SeekStep, SeekWait, SeekWakes,
           CallerLocks, CallClose, Join, Closed, SpuriousWakeup, ThreadStart,
           ThreadLoop, ThreadWakes, LoopTop, ThreadWakesToStop, FillData,
           FillCheckSocket, FillEof, FillError, vars, caller
  <2>. QED
    BY <2>1 DEF ReadCopy, ReadBlocked, IInv, WaitInv, TypeOK
<1>. QED
  BY <1>1, Invariant, PTL DEF Spec, PrefillHonoured

(***************************************************************************)
(* The refinement: every step is a read of ByteStream, or a stutter.       *)
(***************************************************************************)
THEOREM Refinement == Spec => DeliversStream
<1>1. Init => Pipe!Init
  BY DEF Init, HelperInit, Pipe!Init, NoBytes, Pipe!NoBytes
<1>2. ASSUME IInv, [Next]_vars PROVE [Pipe!Next]_(Pipe!svars)
  <2> USE <1>2 DEF IInv
  <2>1. CASE ReadDone
    <3>1. /\ didRead \in 1..Fill /\ ~empty /\ expect = posRead
          /\ srcPos = posRead + Fill /\ Fill \in 0..BufSize
          /\ posRead \in Nat /\ srcPos \in 0..StreamLen
          /\ result.kind \notin {"error", "eof"}
      BY <2>1, FillType
         DEF ReadDone, CallerLocks, RingInv, RingHoldsNextBytes, ResultInv, TypeOK
    <3>2. \A i \in 1..didRead : ByteAt(Wrap(a + i - 1)) = expect + i - 1
      <4> SUFFICES ASSUME NEW i \in 1..didRead
                   PROVE  ByteAt(Wrap(a + i - 1)) = expect + i - 1
        OBVIOUS
      <4>1. i - 1 \in 0..(BufSize - 1) /\ i - 1 < Fill
        BY <3>1
      <4>2. buffer[Wrap(a + (i - 1))] = posRead + (i - 1)
        BY <4>1 DEF RingInv, RingHoldsNextBytes
      <4>3. a + (i - 1) = a + i - 1 /\ Wrap(a + (i - 1)) \in Slots
        BY <4>1 DEF TypeOK, Slots, Wrap
      <4>. QED
        BY <3>1, <4>2, <4>3 DEF ByteAt
    <3>3. result' = Pipe!DataResult(expect, didRead)
      BY <2>1, <3>2 DEF ReadDone, Pipe!DataResult
    <3>4. expect' = expect + didRead
      BY <2>1 DEF ReadDone
    <3>5. didRead \in 1..StreamLen /\ expect + didRead =< StreamLen
      BY <3>1
    <3>. QED
      BY <3>1, <3>3, <3>4, <3>5 DEF Pipe!Next, Pipe!ReadData
  <2>2. CASE ReadCheckSocket
    BY <2>2 DEF ReadCheckSocket, ReadReturns, ReadBlocked, ResultInv, NoBytes,
                CallerLocks, Pipe!Next, Pipe!ReadAgain, Pipe!NoBytes
  <2>3. CASE ReadFails
    BY <2>3 DEF ReadFails, ReadReturns, NoBytes,
                Pipe!Next, Pipe!ReadError, Pipe!NoBytes
  <2>4. CASE ReadEof
    <3>1. expect = StreamLen
      BY <2>4 DEF ReadEof, ResultInv, RingInv, RingHoldsNextBytes, Fill, TypeOK
    <3>. QED
      BY <2>4, <3>1 DEF ReadEof, ReadReturns, NoBytes,
                        Pipe!Next, Pipe!ReadEnd, Pipe!NoBytes
  <2>5. CASE \/ Open \/ (\E len \in ReadLengths : CallRead(len))
             \/ ReadMustWait \/ ReadWait \/ ReadCopy \/ CallClose \/ Join
             \/ SpuriousWakeup
    BY <2>5 DEF Open, CallRead, ReadMustWait, ReadWait, ReadCopy, CallClose,
                Join, SpuriousWakeup, caller, Pipe!svars
  <2>6. CASE ThreadStep
    BY <2>6 DEF ThreadStep, ThreadStart, ThreadLoop, ThreadWakes, LoopTop,
                ThreadWakesToStop, FillData, FillCheckSocket, FillEof,
                FillError, caller, Pipe!svars
  <2>7. CASE Closed \/ UNCHANGED vars
    <3>1. UNCHANGED caller
      BY <2>7, Zenon DEF Closed, vars
    <3>. QED
      BY <3>1 DEF caller, Pipe!svars
  <2>8. ~(\E s \in Seeks : CallSeek(s[1], s[2])) /\ ~SeekStep
    BY DEF CallSeek, SeekStep, SeekWait, SeekWakes, CallerLocks, TypeOK
  <2>. QED
    BY <2>1, <2>2, <2>3, <2>4, <2>5, <2>6, <2>7, <2>8
       DEF Next, CallerNext, ReadStep
<1>. QED
  BY <1>1, <1>2, Invariant, PTL DEF Spec, DeliversStream, Pipe!Spec
=============================================================================
