---------------------------- MODULE CurlIOHandler ----------------------------
(***************************************************************************)
(* curl_io_handler.cc: the buffer thread runs HTTP transfers; libcurl      *)
(* hands the bytes to curlCallback(), which puts them into the ring of     *)
(* IOHandlerBufferHelper.  A seek is served from the ring, or by aborting  *)
(* the transfer and starting another one at the new position.              *)
(*                                                                         *)
(* libcurl is external: curl_easy_perform() calls the callback with 1 to   *)
(* MaxChunkSize (CURL_MAX_WRITE_SIZE) of the next bytes, stops with an     *)
(* error when the callback returns 0, and ends with CURLE_OK after the     *)
(* last byte, or with an error at any time.                                *)
(*                                                                         *)
(* Control of the thread: "start" before the locked head of threadProc(),  *)
(* "perform" inside libcurl, "cb" and "cbwait" in curlCallback() before    *)
(* the lock and in cond.wait(), "copy" in its memcpy(), "ok" and "err"     *)
(* after curl_easy_perform(), "reportok" and "reporterr" past the loop,    *)
(* "notify" before the last notification.                                  *)
(***************************************************************************)
EXTENDS IOHandlerBufferHelper

CONSTANT MaxChunkSize       \* CURL_MAX_WRITE_SIZE

(* Constructor: lines 45-46 and 52-56.                                     *)
ASSUME CurlAssumption ==
  /\ MaxChunkSize \in 1..BufSize
  /\ SignalAfterEveryRead = TRUE
  /\ SeekEnabled = TRUE

ThreadLocks(pc) == tpc = pc /\ Thread \notin waiting /\ mutex = Free

(***************************************************************************)
(* threadProc()                                                            *)
(***************************************************************************)

(* Head of the loop: a requested seek sets where the transfer starts.  The *)
(* ring is left as it is.                                                  *)
ThreadHead ==
  /\ ThreadLocks("start")
  /\ tpc' = "perform"
  /\ IF doSeek
     THEN /\ posRead' = IF seekWhence = "SET" THEN seekOffset
                        ELSE posRead + seekOffset
          /\ srcPos' = posRead'
          /\ waitForInitialFillSize' = (InitialFillSize > 0)
          /\ doSeek' = FALSE
          /\ NotifyOne
     ELSE UNCHANGED <<posRead, srcPos, waitForInitialFillSize, doSeek, waiting>>
  /\ UNCHANGED <<a, b, empty, buffer, eof, readError, checkSocket,
                 threadShutdown, seekOffset, seekWhence, mutex, caller, chunk>>

ThreadGoes(from, to) ==
  /\ tpc = from
  /\ tpc' = to
  /\ UNCHANGED <<ring, threadShutdown, seekv, mutex, caller, srcPos>>

(* libcurl calls back with n bytes, or curl_easy_perform() ends.           *)
TransferChunk(n) ==
  /\ srcPos + n =< StreamLen
  /\ ThreadGoes("perform", "cb")
  /\ chunk' = n
  /\ UNCHANGED <<status, waiting>>

TransferEnds ==
  /\ srcPos = StreamLen
  /\ ThreadGoes("perform", "ok")
  /\ UNCHANGED <<status, waiting, chunk>>

TransferFails ==
  /\ ThreadGoes("perform", "err")
  /\ UNCHANGED <<status, waiting, chunk>>

(* while (doSeek), read with the mutex released.                           *)
ThreadAgain ==
  /\ doSeek
  /\ \E res \in {"ok", "err"} : ThreadGoes(res, "start")
  /\ UNCHANGED <<status, waiting, chunk>>

ThreadLeaves ==
  /\ ~doSeek
  /\ \/ ThreadGoes("ok", "reportok")
     \/ ThreadGoes("err", "reporterr")
  /\ UNCHANGED <<status, waiting, chunk>>

(* eof and readError are set with the mutex released.                      *)
ThreadReports ==
  /\ \/ /\ ThreadGoes("reportok", "notify")
        /\ eof' = TRUE
        /\ UNCHANGED readError
     \/ /\ ThreadGoes("reporterr", "notify")
        /\ readError' = TRUE
        /\ UNCHANGED eof
  /\ UNCHANGED <<checkSocket, waitForInitialFillSize, waiting, chunk>>

ThreadEnds ==
  /\ ThreadGoes("notify", "done")
  /\ NotifyOne
  /\ UNCHANGED <<status, chunk>>

(***************************************************************************)
(* curlCallback()                                                          *)
(***************************************************************************)

(* How far a read position of the ring has to move for the requested seek. *)
RelSeek == IF seekWhence = "SET" THEN seekOffset - posRead ELSE seekOffset

(* "we have everything we need in the buffer already" (line 187): the      *)
(* test has no lower bound.                                                *)
SeekInRing ==
  /\ doSeek
  /\ ~empty
  /\ seekWhence = "SET" \/ seekOffset > 0
  /\ RelSeek =< FillSize(a, b)

(* a += relSeek in size_t, and the wrap around of line 191.                *)
SoughtA == Wrap((a + RelSeek) % SizeMod)

(* The part of the loop before the wait: the ring after a seek inside it.  *)
SoughtRing ==
  IF ~SeekInRing
  THEN [a |-> a, b |-> b, empty |-> empty, posRead |-> posRead]
  ELSE IF SoughtA = b
  THEN [a |-> 0, b |-> 0, empty |-> TRUE, posRead |-> posRead + RelSeek]
  ELSE [a |-> SoughtA, b |-> b, empty |-> FALSE, posRead |-> posRead + RelSeek]

(* bufFree of the callback, and the reset of an empty ring before it.      *)
Emptied(r) == IF r.empty THEN [r EXCEPT !.a = 0, !.b = 0] ELSE r

(* Mutant of Room: a full ring is taken for an empty one.                  *)
RoomWhenFull(r) == IF r.empty THEN BufSize
                   ELSE IF r.a > r.b THEN r.a - r.b ELSE r.a - r.b + BufSize

Room(r)    == IF r.empty THEN BufSize
              ELSE IF r.a >= r.b THEN r.a - r.b ELSE r.a - r.b + BufSize

SetRing(r) == a' = r.a /\ b' = r.b /\ empty' = r.empty /\ posRead' = r.posRead

(* The seek is done, unless it cannot be served from the ring.             *)
SeekServed == IF SeekInRing THEN doSeek' = FALSE /\ NotifyOne
              ELSE UNCHANGED <<doSeek, waiting>>

CbLeavesAlone ==
  UNCHANGED <<buffer, status, threadShutdown, seekOffset, seekWhence,
              mutex, caller, chunk, srcPos>>

(* A seek out of the ring: drop the ring and return 0 to end the transfer. *)
CbDropsRing ==
  /\ doSeek /\ ~SeekInRing
  /\ tpc' = "err"
  /\ a' = 0 /\ b' = 0 /\ empty' = TRUE
  /\ UNCHANGED <<posRead, doSeek, waiting>>
  /\ CbLeavesAlone

(* First pass of the loop: no wait.  Room for the chunk leads to the copy, *)
(* no room to a second pass, which waits.                                  *)
CbEnter ==
  /\ ThreadLocks("cb")
  /\ \/ CbDropsRing
     \/ /\ ~doSeek \/ SeekInRing
        /\ IF threadShutdown
           THEN SetRing(SoughtRing) /\ SeekServed /\ tpc' = "err"
           ELSE LET r == Emptied(SoughtRing) IN
                /\ SetRing(r)
                /\ IF Room(r) >= chunk
                   THEN SeekServed /\ tpc' = "copy"
                   ELSE /\ tpc' = "cbwait"
                        /\ doSeek' = FALSE
                        /\ waiting' = IF SeekInRing THEN {Thread}
                                      ELSE waiting \union {Thread}
        /\ CbLeavesAlone

(* Woken up inside the loop.  A seek is looked at only if there is no room *)
(* for the chunk, and the thread then waits again.                         *)
CbWakes ==
  /\ ThreadLocks("cbwait")
  /\ IF threadShutdown
     THEN /\ tpc' = "err"
          /\ UNCHANGED <<a, b, empty, posRead, doSeek, waiting>>
          /\ CbLeavesAlone
     ELSE LET r == Emptied([a |-> a, b |-> b, empty |-> empty,
                            posRead |-> posRead]) IN
          IF Room(r) >= chunk
          THEN /\ SetRing(r)
               /\ tpc' = "copy"
               /\ UNCHANGED <<doSeek, waiting>>
               /\ CbLeavesAlone
          ELSE \/ CbDropsRing
               \/ /\ ~doSeek \/ SeekInRing
                  /\ SetRing(SoughtRing)
                  /\ tpc' = "cbwait"
                  /\ doSeek' = FALSE
                  /\ waiting' = IF SeekInRing THEN {Thread}
                                ELSE waiting \union {Thread}
                  /\ CbLeavesAlone

(* The chunk is in the ring, in one piece or two: lock and advance b.      *)
CbCopied ==
  /\ ThreadLocks("copy")
  /\ tpc' = "perform"
  /\ buffer' = [i \in Slots |->
                  IF \E k \in 0..(chunk - 1) : i = Wrap(b + k)
                  THEN srcPos + (CHOOSE k \in 0..(chunk - 1) : i = Wrap(b + k))
                  ELSE buffer[i]]
  /\ srcPos' = srcPos + chunk
  /\ b' = Wrap(b + chunk)
  /\ empty' = FALSE
  /\ LET filled == FillSize(a, b') >= InitialFillSize IN
       /\ waitForInitialFillSize' = (waitForInitialFillSize /\ ~filled)
       /\ IF empty \/ (waitForInitialFillSize /\ filled)
          THEN NotifyOne
          ELSE UNCHANGED waiting
  /\ UNCHANGED <<a, posRead, eof, readError, checkSocket, threadShutdown,
                 seekv, mutex, caller, chunk>>

ThreadStep ==
  \/ ThreadHead
  \/ \E n \in 1..MaxChunkSize : TransferChunk(n)
  \/ TransferEnds
  \/ TransferFails
  \/ ThreadAgain \/ ThreadLeaves \/ ThreadReports \/ ThreadEnds
  \/ CbEnter \/ CbWakes \/ CbCopied

Init == HelperInit

Next == CallerNext \/ ThreadStep \/ SpuriousWakeup

Spec == Init /\ [][Next]_vars

(* Both threads are scheduled and get the mutex when they ask for it again *)
(* and again.                                                              *)
Fairness == /\ SF_vars(ReadStep)
            /\ SF_vars(SeekStep)
            /\ WF_vars(Join)
            /\ SF_vars(ThreadStep)

FairSpec == Spec /\ Fairness

(***************************************************************************)
(* Properties.                                                             *)
(***************************************************************************)

TypeOK ==
  /\ a \in 0..(SizeMod - 1) /\ b \in Slots /\ empty \in BOOLEAN
  /\ buffer \in [Slots -> Junk..(StreamLen - 1)]
  /\ posRead \in Nat
  /\ eof \in BOOLEAN /\ readError \in BOOLEAN /\ checkSocket = FALSE
  /\ waitForInitialFillSize \in BOOLEAN /\ threadShutdown \in BOOLEAN
  /\ doSeek \in BOOLEAN /\ seekOffset \in Int /\ seekWhence \in {"SET", "CUR"}
  /\ mutex \in {Free, Caller}
  /\ waiting \subseteq {Caller, Thread}
  /\ cpc \in {"new", "idle", "read", "readblock", "copy", "seek", "seekblock",
              "join", "closed"}
  /\ length \in Nat /\ didRead \in Nat /\ expect \in Nat
  /\ tpc \in {"none", "start", "perform", "cb", "cbwait", "copy", "ok", "err",
              "reportok", "reporterr", "notify", "done"}
  /\ chunk \in 0..MaxChunkSize
  /\ srcPos \in Nat

(* The slots curlCallback() writes with the mutex released.                *)
WriterSlots == IF tpc = "copy" THEN {Wrap(b + k) : k \in 0..(chunk - 1)} ELSE {}

(* The memcpy() of read() and that of the callback (lines 251-253) never   *)
(* touch the same slot.                                                    *)
NoTornCopy == ReaderSlots \intersect WriterSlots = {}

(* The read index stays inside the buffer; "seeking could be optimized     *)
(* some more (backward seeking)" (lines 205-206) says that a seek back is  *)
(* never served from the ring, line 189 moves the index without a check.   *)
IndexInRing == a < BufSize

(* seek() comes back with the request processed ("wait until the seek has  *)
(* been processed", io_handler_buffer_helper.cc line 177), unless the      *)
(* transfer failed or the handler is closed.                               *)
SeekProcessed ==
  (cpc = "idle" /\ doSeek) => (readError \/ threadShutdown)

(***************************************************************************)
(* The same until the first seek, after which the ring may hold bytes of   *)
(* the old position.                                                       *)
(***************************************************************************)

(* seek() leaves its offset behind, which is seen unless it is 0.          *)
Sought      == seekOffset # 0
SeeksAreSeen == \A s \in Seeks : s[1] # 0

(* As long as nobody seeks the ring holds the next bytes of the resource:  *)
(* a seek leaves those of the old position in it (curlCallback(), read()). *)
RingIsCurrent == ~Sought => RingHoldsNextBytes

(* As long as nobody seeks, reader and thread never both wait (read(),     *)
(* curlCallback()).                                                        *)
NotBothWait == ~Sought => SomebodyRuns

(* As long as nobody seeks the caller gets the next bytes, none lost, none *)
(* repeated (read(), curlCallback(), threadProc()).                        *)
DeliversUnlessSought == Pipe!Init /\ [][~Sought' => Pipe!Next]_(Pipe!svars)

(***************************************************************************)
(* The inductive invariant behind it.                                      *)
(***************************************************************************)

(* The indices are in the ring.                                            *)
UnsoughtType ==
  /\ a \in Slots /\ b \in Slots /\ empty \in BOOLEAN
  /\ buffer \in [Slots -> Int]
  /\ posRead \in Nat /\ srcPos \in 0..StreamLen
  /\ chunk \in 0..MaxChunkSize

(* A drained ring has a = b; what the caller copies stays in the ring, and *)
(* the chunk of the callback is the next one, with room for it once it is  *)
(* copied, whatever the caller removes.                                    *)
UnsoughtRing ==
  /\ RingHoldsNextBytes
  /\ empty => a = b
  /\ expect = posRead
  /\ cpc \in {"read", "readblock"} => length \in ReadLengths
  /\ cpc = "copy" => ~empty /\ didRead \in 1..Fill
  /\ tpc \in {"cb", "cbwait", "copy"} => chunk >= 1 /\ srcPos + chunk =< StreamLen
  /\ tpc = "copy" => Fill + chunk =< BufSize

(* The transfer is over when it is reported, and nothing comes after what  *)
(* the caller was told.                                                    *)
UnsoughtCalls ==
  /\ ~doSeek /\ cpc \notin {"seek", "seekblock"}
  /\ cpc = "new" <=> tpc = "none"
  /\ tpc \in {"ok", "reportok"} => srcPos = StreamLen
  /\ eof => srcPos = StreamLen
  /\ eof \/ readError => tpc \in {"notify", "done"}
  /\ threadShutdown => cpc \in {"join", "closed"}
  /\ result.kind = "eof" => eof /\ empty
  /\ result.kind = "error" => readError
  /\ cpc = "copy" => result.kind \notin {"error", "eof"}

UnsoughtInv == ~Sought => UnsoughtType /\ UnsoughtRing /\ UnsoughtCalls
=============================================================================
