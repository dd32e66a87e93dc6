------------------------ MODULE IOHandlerBufferHelper ------------------------
(***************************************************************************)
(* The part of io_handler_buffer_helper.cc/.h that BufferedIOHandler and   *)
(* CurlIOHandler share: a ring buffer that a buffer thread fills and the   *)
(* caller of read(), seek() and close() drains.                            *)
(*                                                                         *)
(* The two threads share one mutex and one condition variable.  A section  *)
(* of code that runs under the mutex is one action; it needs the mutex to  *)
(* be free, and a section that ends still holding it says so in `mutex'.   *)
(* `waiting' holds the threads inside cond.wait().  memcpy() runs with the *)
(* mutex released: the caller is then at "copy".                           *)
(*                                                                         *)
(* A byte is its offset in the resource; Junk is a byte never written.     *)
(* The subclass declares what the buffer thread does.                      *)
(***************************************************************************)
EXTENDS Integers, Sequences, FiniteSets

CONSTANTS
  BufSize,              \* bufSize
  InitialFillSize,      \* initialFillSize
  SignalAfterEveryRead, \* signalAfterEveryRead, set by the subclass
  SeekEnabled,          \* seekEnabled, set by the subclass
  ReadLengths,          \* the lengths the caller passes to read()
  Seeks,                \* the <<offset, whence>> the caller passes to seek()
  StreamLen,            \* number of bytes of the resource
  SizeMod               \* size_t arithmetic is modulo SizeMod

(* The checks of the constructor (lines 40-43), the assert on length in    *)
(* read() (line 85), and a size_t that holds every index and length.       *)
ASSUME HelperAssumption ==
  /\ BufSize \in Nat \ {0}
  /\ InitialFillSize \in 0..BufSize
  /\ SignalAfterEveryRead \in BOOLEAN
  /\ SeekEnabled \in BOOLEAN
  /\ ReadLengths \subseteq Nat \ {0}
  /\ Seeks \subseteq Int \X {"SET", "CUR"}
  /\ StreamLen \in Nat
  /\ SizeMod \in Nat
  /\ SizeMod > 2 * (BufSize + StreamLen)

VARIABLES
  a, b, empty, buffer,          \* the ring: read index, write index
  posRead,                      \* bytes handed to the caller so far
  eof, readError, checkSocket,  \* what the buffer thread has to report
  waitForInitialFillSize,
  threadShutdown,
  doSeek, seekOffset, seekWhence,
  mutex, waiting,               \* std::mutex, std::condition_variable
  cpc, length, didRead,         \* the caller: control, arguments, locals
  result, expect,               \* what it got, and where it must be
  tpc, chunk, srcPos            \* the buffer thread: control, locals, source

ring   == <<a, b, empty, buffer, posRead>>
status == <<eof, readError, checkSocket, waitForInitialFillSize>>
seekv  == <<doSeek, seekOffset, seekWhence>>
caller == <<cpc, length, didRead, result, expect>>
thread == <<tpc, chunk, srcPos>>
vars   == <<ring, status, threadShutdown, seekv, mutex, waiting, caller, thread>>

Caller == "caller"
Thread == "thread"
Free   == "free"
Junk   == -1
Slots  == 0..(BufSize - 1)

NoBytes(k) == [kind |-> k, bytes |-> << >>]

(* An index past the end of the ring starts over at its beginning.         *)
Wrap(i) == IF i >= BufSize THEN i - BufSize ELSE i

(* currentFillSize: in a ring that is not empty, a = b means full.         *)
FillSize(from, to) == IF to > from THEN to - from ELSE to - from + BufSize

(* Number of bytes in the ring.                                            *)
Fill == IF empty THEN 0 ELSE FillSize(a, b)

(* The byte at index i: an index outside of the buffer reads junk.         *)
ByteAt(i) == IF i \in Slots THEN buffer[i] ELSE Junk

(* Mutant of NotifyOne: the call is missing.                               *)
NotifyNobody == UNCHANGED waiting

(* notify_one(): at most the peer of the notifying thread is waiting, so a *)
(* second notify_one() in the same section would find nobody.              *)
NotifyOne ==
  IF waiting = {} THEN waiting' = {}
  ELSE \E w \in waiting : waiting' = waiting \ {w}

HelperInit ==
  /\ a = 0 /\ b = 0 /\ posRead = 0
  /\ empty = TRUE
  /\ buffer = [i \in Slots |-> Junk]
  /\ eof = FALSE /\ readError = FALSE /\ checkSocket = FALSE
  /\ waitForInitialFillSize = (InitialFillSize > 0)
  /\ threadShutdown = FALSE
  /\ doSeek = FALSE /\ seekOffset = 0 /\ seekWhence = "SET"
  /\ mutex = Free /\ waiting = {}
  /\ cpc = "new" /\ length = 0 /\ didRead = 0
  /\ result = NoBytes("none") /\ expect = 0
  /\ tpc = "none" /\ chunk = 0 /\ srcPos = 0

(***************************************************************************)
(* open(): starts the buffer thread.                                       *)
(***************************************************************************)
Open ==
  /\ cpc = "new"
  /\ cpc' = "idle"
  /\ tpc' = "start"
  /\ UNCHANGED <<ring, status, threadShutdown, seekv, mutex, waiting,
                 length, didRead, result, expect, chunk, srcPos>>

(***************************************************************************)
(* read(): lock, wait for bytes or news of the buffer thread, copy with    *)
(* the mutex released, lock again and advance.                             *)
(***************************************************************************)
CallRead(len) ==
  /\ cpc = "idle"
  /\ cpc' = "read"
  /\ length' = len
  /\ UNCHANGED <<ring, status, threadShutdown, seekv, mutex, waiting,
                 didRead, result, expect, thread>>

ReadBlocked == /\ empty \/ waitForInitialFillSize
               /\ ~(threadShutdown \/ eof \/ readError)

(* The caller runs (not inside cond.wait) and takes the mutex.             *)
CallerLocks(pc) == cpc = pc /\ Caller \notin waiting /\ mutex = Free

(* read() returns without bytes.                                           *)
ReadReturns(kind) ==
  /\ cpc' = "idle"
  /\ result' = NoBytes(kind)
  /\ UNCHANGED <<ring, eof, readError, waitForInitialFillSize, threadShutdown,
                 seekv, mutex, waiting, length, didRead, expect, thread>>

ReadCheckSocket ==
  /\ CallerLocks("read")
  /\ ReadBlocked
  /\ checkSocket
  /\ checkSocket' = FALSE
  /\ ReadReturns("checkSocket")

(* The wait is decided with the mutex held ...                             *)
ReadMustWait ==
  /\ CallerLocks("read")
  /\ ReadBlocked
  /\ ~checkSocket
  /\ mutex' = Caller
  /\ cpc' = "readblock"
  /\ UNCHANGED <<ring, status, threadShutdown, seekv, waiting,
                 length, didRead, result, expect, thread>>

(* ... which cond.wait() then releases.                                    *)
ReadWait ==
  /\ cpc = "readblock"
  /\ mutex' = Free
  /\ waiting' = waiting \union {Caller}
  /\ cpc' = "read"
  /\ UNCHANGED <<ring, status, threadShutdown, seekv,
                 length, didRead, result, expect, thread>>

ReadFails ==
  /\ CallerLocks("read")
  /\ readError \/ threadShutdown
  /\ ReadReturns("error")
  /\ UNCHANGED checkSocket

(* Mutant of ReadEof: the end is reported while the ring holds bytes.      *)
ReadEofEarly ==
  /\ CallerLocks("read")
  /\ ~(readError \/ threadShutdown)
  /\ eof
  /\ ReadReturns("eof")
  /\ UNCHANGED checkSocket

ReadEof ==
  /\ CallerLocks("read")
  /\ ~(readError \/ threadShutdown)
  /\ empty /\ eof
  /\ ReadReturns("eof")
  /\ UNCHANGED checkSocket

(* b is sampled under the mutex; the lengths to copy follow from it.       *)
ReadCopy ==
  /\ CallerLocks("read")
  /\ ~ReadBlocked
  /\ ~(readError \/ threadShutdown)
  /\ ~(empty /\ eof)
  /\ cpc' = "copy"
  /\ didRead' = LET fill == FillSize(a, b)
                IN  IF fill > length THEN length ELSE fill
  /\ UNCHANGED <<ring, status, threadShutdown, seekv, mutex, waiting,
                 length, result, expect, thread>>

(* The copies are over: lock, notify if the ring was or became full, and   *)
(* advance; a ring that is drained is empty, which is notified as well.    *)
ReadDone ==
  /\ CallerLocks("copy")
  /\ LET next == Wrap(a + didRead) IN
       /\ a' = next
       /\ empty' = (empty \/ next = b)
       /\ IF SignalAfterEveryRead \/ a = b \/ next = b
          THEN NotifyOne
          ELSE UNCHANGED waiting
  /\ posRead' = posRead + didRead
  /\ expect' = expect + didRead
  /\ result' = [kind  |-> "data",
                bytes |-> [i \in 1..didRead |-> ByteAt(Wrap(a + i - 1))]]
  /\ cpc' = "idle"
  /\ UNCHANGED <<b, buffer, status, threadShutdown, seekv, mutex,
                 length, didRead, thread>>

(***************************************************************************)
(* seek(): post the request, wake the buffer thread and wait until it has  *)
(* been processed, or the thread is gone.                                  *)
(***************************************************************************)
SeekReturns == ~doSeek \/ threadShutdown \/ eof \/ readError

SeekTarget(off, whence) == IF whence = "SET" THEN off ELSE expect + off

(* The caller seeks inside of the resource; SEEK_CUR by 0 does nothing.    *)
CallSeek(off, whence) ==
  /\ SeekEnabled
  /\ CallerLocks("idle")
  /\ ~(whence = "CUR" /\ off = 0)
  /\ SeekTarget(off, whence) \in 0..StreamLen
  /\ doSeek' = TRUE
  /\ seekOffset' = off
  /\ seekWhence' = whence
  /\ NotifyOne
  /\ IF threadShutdown \/ eof \/ readError
     THEN cpc' = "idle" /\ UNCHANGED mutex
     ELSE cpc' = "seekblock" /\ mutex' = Caller
  /\ expect' = SeekTarget(off, whence)
  /\ result' = NoBytes("none")
  /\ UNCHANGED <<ring, status, threadShutdown, length, didRead, thread>>

SeekWait ==
  /\ cpc = "seekblock"
  /\ mutex' = Free
  /\ waiting' = waiting \union {Caller}
  /\ cpc' = "seek"
  /\ UNCHANGED <<ring, status, threadShutdown, seekv,
                 length, didRead, result, expect, thread>>

SeekWakes ==
  /\ CallerLocks("seek")
  /\ IF SeekReturns
     THEN cpc' = "idle" /\ UNCHANGED mutex
     ELSE cpc' = "seekblock" /\ mutex' = Caller
  /\ UNCHANGED <<ring, status, threadShutdown, seekv, waiting,
                 length, didRead, result, expect, thread>>

(***************************************************************************)
(* close(): stopBufferThread() and the join.                               *)
(***************************************************************************)
CallClose ==
  /\ CallerLocks("idle")
  /\ threadShutdown' = TRUE
  /\ NotifyOne
  /\ cpc' = "join"
  /\ UNCHANGED <<ring, status, seekv, mutex,
                 length, didRead, result, expect, thread>>

Join ==
  /\ cpc = "join"
  /\ tpc = "done"
  /\ cpc' = "closed"
  /\ UNCHANGED <<ring, status, threadShutdown, seekv, mutex, waiting,
                 length, didRead, result, expect, thread>>

(* A wait on a condition variable may end without a notification.          *)
SpuriousWakeup ==
  /\ \E w \in waiting : waiting' = waiting \ {w}
  /\ UNCHANGED <<ring, status, threadShutdown, seekv, mutex, caller, thread>>

(* After close() the handler is only destroyed.                            *)
Closed == cpc = "closed" /\ UNCHANGED vars

ReadStep == \/ ReadCheckSocket \/ ReadMustWait \/ ReadWait \/ ReadFails
            \/ ReadEof \/ ReadCopy \/ ReadDone
SeekStep == SeekWait \/ SeekWakes

CallerNext ==
  \/ Open
  \/ \E len \in ReadLengths : CallRead(len)
  \/ ReadStep
  \/ \E s \in Seeks : CallSeek(s[1], s[2])
  \/ SeekStep
  \/ CallClose
  \/ Join
  \/ Closed

(***************************************************************************)
(* Properties common to the subclasses.                                    *)
(***************************************************************************)

(* The slots the caller copies out of while the mutex is released.         *)
ReaderSlots == IF cpc = "copy" THEN {Wrap(a + i) : i \in 0..(didRead - 1)}
               ELSE {}

Pipe == INSTANCE ByteStream WITH pos <- expect

(* io_handler_buffer_helper.cc and the thread of the subclass together     *)
(* give the caller of read() the stream of bytes an IOHandler promises.    *)
DeliversStream == Pipe!Spec

(* A caller inside read() gets out of it: no notification is lost and the  *)
(* two threads never wait for each other (lines 89-98 against 127-143).    *)
ReadTerminates == (cpc = "read") ~> (cpc = "idle")

(* close() comes back: the buffer thread sees threadShutdown wherever it   *)
(* is, and can be joined (lines 205-215).                                  *)
CloseTerminates == (cpc = "join") ~> (cpc = "closed")

(* The ring holds, from a on, exactly the bytes between what the caller    *)
(* has taken and what the thread has fetched.                              *)
RingHoldsNextBytes ==
  /\ srcPos = posRead + Fill
  /\ \A i \in 0..(BufSize - 1) : i < Fill => buffer[Wrap(a + i)] = posRead + i

(* Both threads inside cond.wait() would stay there for good.              *)
SomebodyRuns == ~({Caller, Thread} \subseteq waiting)
=============================================================================
