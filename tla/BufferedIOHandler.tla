-------------------------- MODULE BufferedIOHandler --------------------------
(***************************************************************************)
(* buffered_io_handler.cc: the buffer thread reads chunks from an          *)
(* underlying IOHandler straight into the ring of IOHandlerBufferHelper.   *)
(*                                                                         *)
(* The thread holds the mutex except in cond.wait() ("wait") and around    *)
(* underlyingHandler->read() ("fill"), which writes chunk bytes from b on. *)
(* The underlying handler is external: a call returns between 1 and chunk  *)
(* of the next bytes, 0 at the end of the resource, -1, or CHECK_SOCKET.   *)
(*                                                                         *)
(* The constructor leaves seekEnabled false ("test it first!"), so seek()  *)
(* throws and the seek code of the thread (lines 102-158) never runs.      *)
(***************************************************************************)
EXTENDS IOHandlerBufferHelper

CONSTANT MaxChunkSize       \* maxChunkSize

ASSUME BufferedAssumption ==
  /\ MaxChunkSize \in Nat \ {0}
  /\ SignalAfterEveryRead = FALSE
  /\ SeekEnabled = FALSE

(* Mutant of MaxWrite: a full ring is taken for one with room.             *)
MaxWriteOverFull(from, to) ==
  IF empty THEN BufSize ELSE IF from =< to THEN BufSize - to ELSE from - to

(* Room for one write without wrapping around; 0 when the ring is full.    *)
MaxWrite(from, to) ==
  IF empty THEN BufSize ELSE IF from < to THEN BufSize - to ELSE from - to

ThreadLocks(pc) == tpc = pc /\ Thread \notin waiting /\ mutex = Free

(* Top of the loop: an empty ring restarts at slot 0; a full one makes the *)
(* thread wait, else it goes and reads a chunk.                            *)
LoopTop ==
  LET from == IF empty THEN 0 ELSE a
      to   == IF empty THEN 0 ELSE b
      room == MaxWrite(from, to)
  IN  /\ a' = from
      /\ b' = to
      /\ mutex' = Free
      /\ IF room = 0
         THEN /\ tpc' = "wait"
              /\ waiting' = waiting \union {Thread}
              /\ UNCHANGED chunk
         ELSE /\ tpc' = "fill"
              /\ chunk' = IF MaxChunkSize > room THEN room ELSE MaxChunkSize
              /\ UNCHANGED waiting
      /\ UNCHANGED <<empty, buffer, posRead, status, threadShutdown, seekv,
                     caller, srcPos>>

ThreadStart == ThreadLocks("start") /\ LoopTop

ThreadLoop == tpc = "loop" /\ LoopTop

(* Woken up: the loop goes on unless the handler is being closed.          *)
ThreadWakes == ThreadLocks("wait") /\ ~threadShutdown /\ LoopTop

(* Out of the loop: the last notification, and the thread ends.            *)
LeaveLoop ==
  /\ NotifyOne
  /\ tpc' = "done"
  /\ mutex' = Free

ThreadWakesToStop ==
  /\ ThreadLocks("wait")
  /\ threadShutdown
  /\ LeaveLoop
  /\ UNCHANGED <<ring, status, threadShutdown, seekv, caller, chunk, srcPos>>

(* After a successful read or CHECK_SOCKET the loop is left only on close. *)
StayInLoop ==
  IF threadShutdown THEN LeaveLoop
  ELSE tpc' = "loop" /\ mutex' = Thread /\ NotifyOne

(* n bytes arrived: advance b, report an empty ring filled and the initial *)
(* fill reached.                                                           *)
FillData(n) ==
  /\ ThreadLocks("fill")
  /\ n =< chunk
  /\ srcPos + n =< StreamLen
  /\ buffer' = [i \in Slots |->
                  IF b =< i /\ i < b + n THEN srcPos + (i - b) ELSE buffer[i]]
  /\ srcPos' = srcPos + n
  /\ b' = IF b + n = BufSize THEN 0 ELSE b + n
  /\ empty' = FALSE
  /\ LET filled == FillSize(a, b') >= InitialFillSize IN
       /\ waitForInitialFillSize' = (waitForInitialFillSize /\ ~filled)
       /\ IF threadShutdown THEN LeaveLoop
          ELSE /\ tpc' = "loop"
               /\ mutex' = Thread
               /\ IF empty \/ (waitForInitialFillSize /\ filled)
                  THEN NotifyOne
                  ELSE UNCHANGED waiting
  /\ UNCHANGED <<a, posRead, eof, readError, checkSocket, threadShutdown,
                 seekv, caller, chunk>>

FillCheckSocket ==
  /\ ThreadLocks("fill")
  /\ checkSocket' = TRUE
  /\ StayInLoop
  /\ UNCHANGED <<ring, eof, readError, waitForInitialFillSize, threadShutdown,
                 seekv, caller, chunk, srcPos>>

(* The source ended or failed: say so unless the handler is being closed.  *)
FillEof ==
  /\ ThreadLocks("fill")
  /\ srcPos = StreamLen
  /\ eof' = ~threadShutdown
  /\ LeaveLoop
  /\ UNCHANGED <<ring, readError, checkSocket, waitForInitialFillSize,
                 threadShutdown, seekv, caller, chunk, srcPos>>

FillError ==
  /\ ThreadLocks("fill")
  /\ readError' = ~threadShutdown
  /\ LeaveLoop
  /\ UNCHANGED <<ring, eof, checkSocket, waitForInitialFillSize,
                 threadShutdown, seekv, caller, chunk, srcPos>>

ThreadStep == \/ ThreadStart \/ ThreadLoop \/ ThreadWakes \/ ThreadWakesToStop
              \/ \E n \in 1..BufSize : FillData(n)
              \/ FillCheckSocket \/ FillEof \/ FillError

Init == HelperInit

Next == CallerNext \/ ThreadStep \/ SpuriousWakeup

Spec == Init /\ [][Next]_vars

(* Both threads are scheduled.  A thread that wants the mutex gets it even *)
(* if the other one takes it again and again.  The underlying read() comes *)
(* back, though it may say CHECK_SOCKET every time.                        *)
Fairness == /\ SF_vars(ReadStep)
            /\ WF_vars(Join)
            /\ SF_vars(ThreadStep)

FairSpec == Spec /\ Fairness

(***************************************************************************)
(* Properties.                                                             *)
(***************************************************************************)

TypeOK ==
  /\ a \in Slots /\ b \in Slots /\ empty \in BOOLEAN
  /\ buffer \in [Slots -> Junk..StreamLen]
  /\ posRead \in 0..StreamLen
  /\ eof \in BOOLEAN /\ readError \in BOOLEAN /\ checkSocket \in BOOLEAN
  /\ waitForInitialFillSize \in BOOLEAN
  /\ threadShutdown \in BOOLEAN
  /\ doSeek = FALSE /\ seekOffset = 0 /\ seekWhence = "SET"
  /\ mutex \in {Free, Caller, Thread}
  /\ waiting \subseteq {Caller, Thread}
  /\ cpc \in {"new", "idle", "read", "readblock", "copy", "join", "closed"}
  /\ length \in ReadLengths \union {0} /\ didRead \in Nat
  /\ result.kind \in {"none", "data", "eof", "error", "checkSocket"}
  /\ expect = posRead
  /\ tpc \in {"none", "start", "loop", "wait", "fill", "done"}
  /\ chunk \in 0..BufSize
  /\ srcPos \in 0..StreamLen

(* The slots underlyingHandler->read() may write with the mutex released.  *)
WriterSlots == IF tpc = "fill" THEN {b + i : i \in 0..(chunk - 1)} ELSE {}

(* The two memory copies that run without the mutex (lines 119-121 of the  *)
(* helper, line 169 of the thread) never touch the same slot.              *)
NoTornCopy == ReaderSlots \intersect WriterSlots = {}

(* The first bytes are handed out only when the initial fill is there or   *)
(* the source ended (io_handler_buffer_helper.h lines 53-55).              *)
PrefillHonoured ==
  [][(cpc = "read" /\ cpc' = "copy" /\ posRead = 0)
        => (Fill >= InitialFillSize \/ eof)]_vars

(***************************************************************************)
(* The inductive invariant behind these properties: for each thread, what  *)
(* it relies on while the other one runs.                                  *)
(***************************************************************************)

(* A drained ring has a = b; what the caller copies stays in the ring; what*)
(* the thread was told to fetch still fits, whatever the caller removed.   *)
RingInv ==
  /\ RingHoldsNextBytes
  /\ empty => a = b
  /\ cpc \in {"read", "readblock"} => length \in ReadLengths
  /\ cpc = "copy" => ~empty /\ didRead \in 1..Fill
  /\ tpc = "fill" => chunk >= 1 /\ b + chunk =< BufSize /\ Fill + chunk =< BufSize

(* A thread inside cond.wait() still has a reason to be there: whoever     *)
(* takes the reason away notifies.                                         *)
WaitInv ==
  /\ (mutex = Thread) <=> (tpc = "loop")
  /\ (mutex = Caller) <=> (cpc = "readblock")
  /\ cpc = "readblock" => ReadBlocked /\ ~checkSocket
  /\ Caller \in waiting => cpc = "read" /\ ReadBlocked /\ ~checkSocket
  /\ Thread \in waiting => tpc = "wait" /\ ~empty /\ a = b /\ ~threadShutdown
  /\ tpc = "loop" => ~threadShutdown
  /\ tpc \in {"none", "start"} => empty
  /\ waitForInitialFillSize => Fill < InitialFillSize
  /\ ~waitForInitialFillSize => posRead > 0 \/ Fill >= InitialFillSize

(* What the caller has been told stays true.                               *)
ResultInv ==
  /\ eof \/ readError => tpc = "done"
  /\ eof => srcPos = StreamLen
  /\ cpc = "new" <=> tpc = "none"
  /\ threadShutdown => cpc \in {"join", "closed"}
  /\ result.kind = "eof" => eof /\ empty
  /\ result.kind = "error" => readError
  /\ cpc = "copy" => result.kind \notin {"error", "eof"}

IInv == TypeOK /\ RingInv /\ WaitInv /\ ResultInv
=============================================================================
