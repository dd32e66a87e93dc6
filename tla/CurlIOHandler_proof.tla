------------------------ MODULE CurlIOHandler_proof ------------------------
(***************************************************************************)
(* Theorems about CurlIOHandler until the first seek, for every size of    *)
(* the ring, of what libcurl delivers at once and of the resource, every   *)
(* initial fill and every read length.                                     *)
(***************************************************************************)
EXTENDS CurlIOHandler, TLAPS

USE HelperAssumption, CurlAssumption

CurlInv == UnsoughtType /\ UnsoughtRing /\ UnsoughtCalls

LEMMA FillType == UnsoughtType => Fill \in 0..BufSize
BY DEF UnsoughtType, Fill, FillSize, Slots

LEMMA CurlInit == Init => CurlInv
<1> SUFFICES ASSUME Init PROVE CurlInv
  OBVIOUS
<1>1. UnsoughtType
  BY DEF Init, HelperInit, UnsoughtType, Slots, Junk
<1>2. UnsoughtRing
  BY DEF Init, HelperInit, UnsoughtRing, RingHoldsNextBytes, Fill
<1>3. UnsoughtCalls
  BY DEF Init, HelperInit, UnsoughtCalls, NoBytes
<1> QED
  BY <1>1, <1>2, <1>3 DEF CurlInv

(***************************************************************************)
(* The ring.                                                               *)
(***************************************************************************)

(* Steps that move no index and start no copy.                             *)
LEMMA RingKept ==
  ASSUME UnsoughtType, UnsoughtRing, UNCHANGED <<ring, srcPos, expect>>,
         cpc' \in {"read", "readblock"} => length' \in ReadLengths,
         cpc' = "copy" => cpc = "copy" /\ didRead' = didRead,
         \/ tpc' \notin {"cb", "cbwait", "copy"}
         \/ tpc' = tpc /\ chunk' = chunk
         \/ tpc' = "cb" /\ chunk' \in 1..MaxChunkSize /\ srcPos + chunk' =< StreamLen,
         chunk' \in {chunk} \cup 1..MaxChunkSize
  PROVE  UnsoughtType' /\ UnsoughtRing'
<1>1. UnsoughtType'
  BY DEF UnsoughtType, ring
<1>2. RingHoldsNextBytes' /\ Fill' = Fill
  BY DEF UnsoughtRing, RingHoldsNextBytes, Fill, FillSize, Wrap, ring
<1>3. tpc' \in {"cb", "cbwait", "copy"} => chunk' >= 1 /\ srcPos' + chunk' =< StreamLen
  BY DEF UnsoughtRing, UnsoughtType
<1>4. tpc' = "copy" => Fill' + chunk' =< BufSize
  BY <1>2 DEF UnsoughtRing
<1>5. /\ empty' => a' = b'
      /\ expect' = posRead'
      /\ cpc' = "copy" => ~empty' /\ didRead' \in 1..Fill'
  BY <1>2 DEF UnsoughtRing, ring
<1> QED
  BY <1>1, <1>2, <1>3, <1>4, <1>5 DEF UnsoughtRing

(* The caller takes at most what is in the ring.                           *)
LEMMA RingReadDone ==
  ASSUME UnsoughtType, UnsoughtRing, ReadDone
  PROVE  UnsoughtType' /\ UnsoughtRing' /\ Fill' = Fill - didRead
<1>1. /\ ~empty /\ didRead \in 1..Fill /\ Fill = FillSize(a, b)
      /\ a \in Slots /\ b \in Slots /\ posRead \in Nat /\ srcPos \in Nat
      /\ srcPos = posRead + Fill /\ Fill \in 0..BufSize /\ expect = posRead
  BY FillType DEF UnsoughtRing, RingHoldsNextBytes, ReadDone, CallerLocks, Fill, UnsoughtType
<1>2. /\ a' = Wrap(a + didRead) /\ (empty' <=> a' = b) /\ b' = b /\ buffer' = buffer
      /\ posRead' = posRead + didRead /\ expect' = expect + didRead
      /\ srcPos' = srcPos /\ cpc' = "idle" /\ tpc' = tpc /\ chunk' = chunk
      /\ empty' \in BOOLEAN
  BY <1>1 DEF ReadDone, thread
<1>3. Fill' = Fill - didRead /\ a' \in Slots
  <2>1. a' = (IF a + didRead >= BufSize THEN a + didRead - BufSize ELSE a + didRead)
    BY <1>1, <1>2 DEF Wrap, Slots
  <2>2. Fill' = IF a' = b THEN 0 ELSE FillSize(a', b)
    BY <1>2 DEF Fill, FillSize
  <2>3. Fill = IF b > a THEN b - a ELSE b - a + BufSize
    BY <1>1 DEF FillSize
  <2>. QED
    BY <1>1, <2>1, <2>2, <2>3 DEF FillSize, Slots
<1>4. \A i \in 0..(BufSize - 1) : i < Fill' => buffer[Wrap(a' + i)] = posRead' + i
  <2> SUFFICES ASSUME NEW i \in 0..(BufSize - 1), i < Fill'
               PROVE  buffer[Wrap(a' + i)] = posRead' + i
    OBVIOUS
  <2>1. didRead + i \in 0..(BufSize - 1) /\ didRead + i < Fill
    BY <1>1, <1>3
  <2>2. Wrap(a' + i) = Wrap(a + (didRead + i))
    BY <1>1, <1>2, <1>3, <2>1 DEF Wrap, Slots
  <2>3. buffer[Wrap(a + (didRead + i))] = posRead + (didRead + i)
    BY <2>1 DEF UnsoughtRing, RingHoldsNextBytes
  <2>. QED
    BY <1>1, <1>2, <2>2, <2>3
<1>5. srcPos' = posRead' + Fill'
  BY <1>1, <1>2, <1>3
<1>6. RingHoldsNextBytes'
  BY <1>2, <1>4, <1>5 DEF RingHoldsNextBytes, Wrap
<1>7. tpc = "copy" => Fill' + chunk =< BufSize
  BY <1>1, <1>3 DEF UnsoughtRing, UnsoughtType
<1>8. UnsoughtType'
  BY <1>1, <1>2, <1>3 DEF UnsoughtType
<1>9. UnsoughtRing'
  BY <1>1, <1>2, <1>6, <1>7 DEF UnsoughtRing
<1>. QED
  BY <1>3, <1>8, <1>9

(* The callback writes behind the bytes of the ring, in its free slots.    *)
LEMMA RingCopied ==
  ASSUME UnsoughtType, UnsoughtRing, CbCopied
  PROVE  UnsoughtType' /\ UnsoughtRing' /\ Fill' = Fill + chunk
<1>1. /\ chunk \in 1..BufSize /\ Fill + chunk =< BufSize /\ srcPos + chunk =< StreamLen
      /\ (empty => a = b)
      /\ a \in Slots /\ b \in Slots /\ posRead \in Nat /\ srcPos \in 0..StreamLen
      /\ srcPos = posRead + Fill /\ Fill \in 0..BufSize
  BY FillType DEF UnsoughtRing, RingHoldsNextBytes, CbCopied, ThreadLocks, UnsoughtType
<1>2. /\ a' = a /\ b' = Wrap(b + chunk) /\ empty' = FALSE
      /\ posRead' = posRead /\ srcPos' = srcPos + chunk /\ chunk' = chunk
      /\ tpc' = "perform"
      /\ cpc' = cpc /\ didRead' = didRead /\ length' = length /\ expect' = expect
  BY DEF CbCopied, caller
<1>3. Fill' = Fill + chunk /\ b' \in Slots
  BY <1>1, <1>2 DEF Fill, FillSize, Slots, Wrap
<1>4. /\ buffer' \in [Slots -> Int]
      /\ \A i \in Slots : (~\E k \in 0..(chunk - 1) : i = Wrap(b + k)) => buffer'[i] = buffer[i]
      /\ \A k \in 0..(chunk - 1) : buffer'[Wrap(b + k)] = srcPos + k
  <2> DEFINE At(i) == CHOOSE k \in 0..(chunk - 1) : i = Wrap(b + k)
             New(i) == \E k \in 0..(chunk - 1) : i = Wrap(b + k)
  <2>1. buffer' = [i \in Slots |-> IF New(i) THEN srcPos + At(i) ELSE buffer[i]]
    BY DEF CbCopied
  <2>2. \A i \in Slots : New(i) => At(i) \in 0..(chunk - 1) /\ i = Wrap(b + At(i))
    OBVIOUS
  <2>3. ASSUME NEW k \in 0..(chunk - 1)
        PROVE  Wrap(b + k) \in Slots /\ New(Wrap(b + k)) /\ At(Wrap(b + k)) = k
    <3>1. Wrap(b + k) \in Slots /\ New(Wrap(b + k))
      BY <1>1 DEF Wrap, Slots
    <3>2. PICK j \in 0..(chunk - 1) : j = At(Wrap(b + k)) /\ Wrap(b + k) = Wrap(b + j)
      BY <2>2, <3>1
    <3>3. j = k
      BY <1>1, <3>2 DEF Wrap, Slots
    <3> QED
      BY <3>1, <3>2, <3>3
  <2> HIDE DEF At, New
  <2>4. \A i \in Slots : buffer[i] \in Int /\ (New(i) => srcPos + At(i) \in Int)
    BY <1>1, <2>2 DEF UnsoughtType
  <2>5. buffer' \in [Slots -> Int]
    BY <2>1, <2>4
  <2>6. \A i \in Slots : ~New(i) => buffer'[i] = buffer[i]
    BY <2>1
  <2>7. \A k \in 0..(chunk - 1) : buffer'[Wrap(b + k)] = srcPos + k
    BY <2>1, <2>3
  <2> QED
    BY <2>5, <2>6, <2>7 DEF New
<1>5. ASSUME NEW i \in 0..(BufSize - 1), i < Fill'
      PROVE  buffer'[Wrap(a' + i)] = posRead' + i
  <2>1. Wrap(a + i) \in Slots
    BY <1>1 DEF Wrap, Slots
  <2>2. CASE i < Fill
    <3>1. ASSUME NEW k \in 0..(chunk - 1) PROVE Wrap(a + i) # Wrap(b + k)
      BY <1>1, <2>2 DEF Wrap, Fill, FillSize, Slots
    <3>2. buffer[Wrap(a + i)] = posRead + i
      BY <2>2 DEF UnsoughtRing, RingHoldsNextBytes
    <3>. QED
      BY <1>2, <1>4, <2>1, <3>1, <3>2
  <2>3. CASE i >= Fill
    <3>1. i - Fill \in 0..(chunk - 1)
      BY <1>1, <1>3, <1>5, <2>3
    <3>2. Wrap(a + i) = Wrap(b + (i - Fill))
      BY <1>1, <1>3, <1>5, <2>3 DEF Wrap, Fill, FillSize, Slots
    <3>3. buffer'[Wrap(a + i)] = srcPos + (i - Fill)
      BY <1>4, <3>1, <3>2
    <3>4. srcPos + (i - Fill) = posRead + i
      BY <1>1, <2>3
    <3>. QED
      BY <1>2, <3>3, <3>4
  <2>. QED
    BY <1>1, <2>2, <2>3
<1>6. RingHoldsNextBytes'
  BY <1>1, <1>2, <1>3, <1>5 DEF RingHoldsNextBytes, Wrap
<1>7. UnsoughtType'
  <2>1. a' \in Slots /\ empty' \in BOOLEAN /\ posRead' \in Nat
    BY <1>1, <1>2
  <2>2. srcPos' \in 0..StreamLen /\ chunk' \in 0..MaxChunkSize
    BY <1>1, <1>2 DEF UnsoughtType
  <2>3. buffer' \in [Slots -> Int] /\ b' \in Slots
    BY <1>3, <1>4
  <2> QED
    BY <2>1, <2>2, <2>3 DEF UnsoughtType, Slots
<1>8. cpc' = "copy" => ~empty' /\ didRead' \in 1..Fill'
  BY <1>1, <1>2, <1>3 DEF UnsoughtRing
<1>9. UnsoughtRing'
  BY <1>2, <1>6, <1>8 DEF UnsoughtRing
<1>. QED
  BY <1>3, <1>7, <1>9

(* Nobody seeks: the callback resets an empty ring, and goes to copy if    *)
(* there is room.                                                          *)
LEMMA RingCallback ==
  ASSUME UnsoughtType, UnsoughtRing, UnsoughtCalls, CbEnter \/ CbWakes
  PROVE  /\ UnsoughtType' /\ UnsoughtRing'
         /\ UNCHANGED <<empty, srcPos>> /\ ~doSeek'
         /\ tpc \in {"cb", "cbwait"} /\ tpc' \in {"err", "cbwait", "copy"}
<1> DEFINE R == [a |-> a, b |-> b, empty |-> empty, posRead |-> posRead]
           E == Emptied(R)
<1>1. ~doSeek /\ ~SeekInRing /\ SoughtRing = R
  BY DEF UnsoughtCalls, SeekInRing, SoughtRing
<1>2. /\ UNCHANGED <<buffer, expect, length, didRead, cpc, chunk, srcPos>> /\ ~doSeek'
      /\ tpc \in {"cb", "cbwait"} /\ tpc' \in {"err", "cbwait", "copy"}
      /\ SetRing(R) \/ SetRing(E)
      /\ tpc' = "copy" => SetRing(E) /\ Room(E) >= chunk
  <2>1. ~CbDropsRing
    BY <1>1 DEF CbDropsRing
  <2>2. CASE CbEnter
    <3>1. /\ CbLeavesAlone /\ tpc = "cb"
          /\ IF threadShutdown
             THEN SetRing(R) /\ SeekServed /\ tpc' = "err"
             ELSE /\ SetRing(E)
                  /\ IF Room(E) >= chunk THEN SeekServed /\ tpc' = "copy"
                     ELSE tpc' = "cbwait" /\ doSeek' = FALSE
      BY <1>1, <2>1, <2>2 DEF CbEnter, ThreadLocks
    <3> QED
      BY <1>1, <3>1 DEF CbLeavesAlone, SeekServed, caller
  <2>3. CASE CbWakes
    <3>1. /\ CbLeavesAlone /\ tpc = "cbwait"
          /\ IF threadShutdown
             THEN tpc' = "err" /\ UNCHANGED <<a, b, empty, posRead, doSeek>>
             ELSE IF Room(E) >= chunk
             THEN SetRing(E) /\ tpc' = "copy" /\ UNCHANGED doSeek
             ELSE SetRing(R) /\ tpc' = "cbwait" /\ doSeek' = FALSE
      BY <1>1, <2>1, <2>3 DEF CbWakes, ThreadLocks
    <3>2. UNCHANGED <<a, b, empty, posRead>> => SetRing(R)
      BY DEF SetRing
    <3> QED
      BY <1>1, <3>1, <3>2 DEF CbLeavesAlone, caller
  <2> QED
    BY <2>2, <2>3
<1>3. /\ R.a = a /\ R.b = b /\ R.empty = empty /\ R.posRead = posRead
      /\ E.a = (IF empty THEN 0 ELSE a) /\ E.b = (IF empty THEN 0 ELSE b)
      /\ E.empty = empty /\ E.posRead = posRead
  BY DEF Emptied
<1>4. /\ a' \in {a, 0} /\ b' \in {b, 0} /\ empty' = empty /\ posRead' = posRead
      /\ ~empty => a' = a /\ b' = b
      /\ empty => (a' = a /\ b' = b) \/ (a' = 0 /\ b' = 0)
  BY <1>2, <1>3 DEF SetRing
<1>5. Room(E) >= chunk => Fill + chunk =< BufSize
  BY <1>3 DEF Room, Fill, FillSize, UnsoughtType, Slots
<1> HIDE DEF R, E
<1>6. Fill' = Fill
  BY <1>4 DEF Fill, FillSize
<1>7. RingHoldsNextBytes'
  BY <1>2, <1>4, <1>6 DEF UnsoughtRing, RingHoldsNextBytes, Fill, Wrap
<1>8. UnsoughtType'
  BY <1>2, <1>4 DEF UnsoughtType, Slots
<1>9. UnsoughtRing'
  BY <1>2, <1>4, <1>5, <1>6, <1>7 DEF UnsoughtRing
<1> QED
  BY <1>2, <1>4, <1>8, <1>9

(***************************************************************************)
(* Every step that is not a seek.                                          *)
(***************************************************************************)

(* A seek that moves anywhere but to offset 0 is seen ever after.          *)
LEMMA SeeksStay == SeeksAreSeen /\ [Next]_vars /\ ~Sought' => /\ ~Sought
                                                               /\ ~\E s \in Seeks : CallSeek(s[1], s[2])
<1> SUFFICES ASSUME SeeksAreSeen, [Next]_vars, ~Sought'
             PROVE  ~Sought /\ ~\E s \in Seeks : CallSeek(s[1], s[2])
  OBVIOUS
<1>1. ASSUME NEW s \in Seeks, CallSeek(s[1], s[2]) PROVE FALSE
  BY <1>1 DEF CallSeek, SeeksAreSeen, Sought
<1>2. CASE CallerNext
  BY <1>1, <1>2 DEF CallerNext, Open, CallRead, ReadStep, ReadCheckSocket, ReadReturns, ReadMustWait,
     ReadWait, ReadFails, ReadEof, ReadCopy, ReadDone, SeekStep, SeekWait, SeekWakes, CallClose, Join,
     Closed, vars, seekv, Sought
<1>3. CASE ThreadStep
  BY <1>1, <1>3 DEF ThreadStep, ThreadHead, TransferChunk, TransferEnds, TransferFails, ThreadAgain,
     ThreadLeaves, ThreadReports, ThreadEnds, ThreadGoes, CbEnter, CbWakes, CbDropsRing, CbLeavesAlone,
     CbCopied, seekv, Sought
<1>4. CASE SpuriousWakeup \/ UNCHANGED vars
  BY <1>1, <1>4 DEF SpuriousWakeup, vars, seekv, Sought
<1> QED
  BY <1>1, <1>2, <1>3, <1>4 DEF Next

LEMMA CallerKeeps ==
  ASSUME CurlInv, CallerNext \/ SpuriousWakeup \/ UNCHANGED vars,
         ~\E s \in Seeks : CallSeek(s[1], s[2])
  PROVE  CurlInv'
<1> USE DEF CurlInv
<1>1. CASE Open
  <2>1. /\ UNCHANGED <<ring, srcPos, expect, chunk, status, threadShutdown, doSeek, result>>
        /\ cpc' = "idle" /\ tpc' = "start" /\ cpc = "new" /\ tpc = "none"
    BY <1>1 DEF Open, seekv, UnsoughtCalls
  <2>2. UnsoughtType' /\ UnsoughtRing'
    BY <2>1, RingKept
  <2> QED
    BY <2>1, <2>2 DEF UnsoughtCalls, ring, status
<1>2. CASE \E len \in ReadLengths : CallRead(len)
  <2>1. /\ UNCHANGED <<ring, srcPos, expect, chunk, tpc, status, threadShutdown, doSeek, result>>
        /\ cpc' = "read" /\ cpc = "idle" /\ length' \in ReadLengths
    BY <1>2 DEF CallRead, seekv, thread
  <2>2. UnsoughtType' /\ UnsoughtRing'
    BY <2>1, RingKept
  <2> QED
    BY <2>1, <2>2 DEF UnsoughtCalls, ring, status
<1>3. CASE ReadCheckSocket \/ ReadFails \/ ReadEof
  <2>1. /\ UNCHANGED <<ring, srcPos, expect, chunk, tpc, eof, readError, threadShutdown, doSeek>>
        /\ cpc = "read" /\ cpc' = "idle"
        /\ \/ result'.kind = "checkSocket"
           \/ result'.kind = "error" /\ (readError \/ threadShutdown)
           \/ result'.kind = "eof" /\ eof /\ empty
    BY <1>3 DEF ReadCheckSocket, ReadFails, ReadEof, ReadReturns, CallerLocks, NoBytes, seekv, thread
  <2>2. UnsoughtType' /\ UnsoughtRing'
    BY <2>1, RingKept
  <2> QED
    BY <2>1, <2>2 DEF UnsoughtCalls, ring
<1>4. CASE ReadMustWait \/ ReadWait
  <2>1. /\ UNCHANGED <<ring, srcPos, expect, chunk, tpc, status, threadShutdown, doSeek, result, length>>
        /\ cpc \in {"read", "readblock"} /\ cpc' \in {"read", "readblock"}
    BY <1>4 DEF ReadMustWait, ReadWait, CallerLocks, seekv, thread
  <2>2. UnsoughtType' /\ UnsoughtRing'
    BY <2>1, RingKept DEF UnsoughtRing
  <2> QED
    BY <2>1, <2>2 DEF UnsoughtCalls, ring, status
<1>5. CASE ReadCopy
  <2>1. /\ UNCHANGED <<ring, srcPos, expect, chunk, tpc, status, threadShutdown, doSeek, result, length>>
        /\ cpc = "read" /\ cpc' = "copy" /\ ~readError /\ ~(empty /\ eof)
        /\ didRead' = IF FillSize(a, b) > length THEN length ELSE FillSize(a, b)
    BY <1>5 DEF ReadCopy, CallerLocks, seekv, thread
  <2>2. ~empty /\ length \in ReadLengths
    BY <1>5, <2>1 DEF ReadCopy, ReadBlocked, UnsoughtRing, UnsoughtCalls
  <2>3. FillSize(a, b) = Fill /\ Fill \in 1..BufSize
    BY <2>2 DEF Fill, FillSize, UnsoughtType, Slots
  <2>4. didRead' \in 1..Fill
    BY <2>1, <2>2, <2>3
  <2>5. UnsoughtType'
    BY <2>1 DEF UnsoughtType, ring
  <2>6. Fill' = Fill /\ RingHoldsNextBytes'
    BY <2>1 DEF UnsoughtRing, RingHoldsNextBytes, Fill, FillSize, Wrap, ring
  <2>7. UnsoughtRing'
    BY <2>1, <2>2, <2>4, <2>6 DEF UnsoughtRing, ring
  <2>8. UnsoughtCalls'
    BY <2>1 DEF UnsoughtCalls, ring, status
  <2> QED
    BY <2>5, <2>7, <2>8
<1>6. CASE ReadDone
  <2>1. UnsoughtType' /\ UnsoughtRing'
    BY <1>6, RingReadDone
  <2>2. /\ UNCHANGED <<tpc, srcPos, status, threadShutdown, doSeek>>
        /\ result'.kind = "data" /\ cpc = "copy" /\ cpc' = "idle"
    BY <1>6 DEF ReadDone, CallerLocks, seekv, thread
  <2> QED
    BY <2>1, <2>2 DEF UnsoughtCalls, status
<1>7. ~SeekStep
  BY DEF SeekStep, SeekWait, SeekWakes, CallerLocks, UnsoughtCalls
<1>8. CASE CallClose \/ Join
  <2>1. /\ UNCHANGED <<ring, srcPos, expect, chunk, tpc, status, doSeek, result>>
        /\ cpc \in {"idle", "join"} /\ cpc' \in {"join", "closed"}
    BY <1>8 DEF CallClose, Join, CallerLocks, seekv, thread
  <2>2. UnsoughtType' /\ UnsoughtRing'
    BY <2>1, RingKept
  <2> QED
    BY <2>1, <2>2 DEF UnsoughtCalls, ring, status
<1>9. CASE Closed \/ SpuriousWakeup \/ UNCHANGED vars
  <2>1. UNCHANGED <<ring, status, threadShutdown, seekv, caller, thread>>
    BY <1>9, Zenon DEF SpuriousWakeup, Closed, vars
  <2>2. UNCHANGED <<ring, srcPos, expect, chunk, tpc, status, threadShutdown, doSeek, result, cpc, length, didRead>>
    BY <2>1 DEF seekv, caller, thread
  <2>3. UnsoughtType' /\ UnsoughtRing'
    BY <2>2, RingKept DEF UnsoughtRing
  <2> QED
    BY <2>2, <2>3 DEF UnsoughtCalls, ring, status
<1> QED
  BY <1>1, <1>2, <1>3, <1>4, <1>5, <1>6, <1>7, <1>8, <1>9 DEF CallerNext, ReadStep

LEMMA ThreadKeeps == CurlInv /\ ThreadStep => CurlInv'
<1> SUFFICES ASSUME CurlInv, ThreadStep PROVE CurlInv'
  OBVIOUS
<1> USE DEF CurlInv
<1>1. CASE CbEnter \/ CbWakes
  <2>1. /\ UnsoughtType' /\ UnsoughtRing'
        /\ UNCHANGED <<empty, srcPos>> /\ ~doSeek'
        /\ tpc \in {"cb", "cbwait"} /\ tpc' \in {"err", "cbwait", "copy"}
    BY <1>1, RingCallback
  <2>2. UNCHANGED <<status, threadShutdown, caller>>
    BY <1>1 DEF CbEnter, CbWakes, CbDropsRing, CbLeavesAlone
  <2> QED
    BY <2>1, <2>2 DEF UnsoughtCalls, status, caller
<1>2. CASE CbCopied
  <2>1. UnsoughtType' /\ UnsoughtRing'
    BY <1>2, RingCopied
  <2>2. /\ UNCHANGED <<eof, readError, threadShutdown, doSeek, caller>>
        /\ tpc = "copy" /\ tpc' = "perform"
    BY <1>2 DEF CbCopied, ThreadLocks, seekv
  <2> QED
    BY <2>1, <2>2 DEF UnsoughtCalls, caller
<1>3. CASE ThreadHead
  <2>1. /\ UNCHANGED <<ring, srcPos, expect, eof, readError, threadShutdown, doSeek, caller, chunk>>
        /\ tpc = "start" /\ tpc' = "perform"
    BY <1>3 DEF ThreadHead, ThreadLocks, UnsoughtCalls, ring, caller
  <2>2. UnsoughtType' /\ UnsoughtRing'
    BY <2>1, RingKept DEF caller, UnsoughtRing
  <2> QED
    BY <2>1, <2>2 DEF UnsoughtCalls, ring, caller
<1>4. ASSUME NEW n \in 1..MaxChunkSize, TransferChunk(n) PROVE CurlInv'
  <2>1. /\ UNCHANGED <<ring, srcPos, expect, status, threadShutdown, doSeek, caller>>
        /\ tpc = "perform" /\ tpc' = "cb" /\ chunk' = n /\ srcPos + n =< StreamLen
    BY <1>4 DEF TransferChunk, ThreadGoes, seekv, caller
  <2>2. UnsoughtType' /\ UnsoughtRing'
    BY <2>1, RingKept DEF caller, UnsoughtRing
  <2> QED
    BY <2>1, <2>2 DEF UnsoughtCalls, ring, status, caller
<1>5. CASE TransferEnds \/ TransferFails \/ ThreadAgain \/ ThreadLeaves \/ ThreadReports \/ ThreadEnds
  <2>1. /\ UNCHANGED <<ring, srcPos, expect, threadShutdown, doSeek, caller, chunk>>
        /\ \/ UNCHANGED <<eof, readError>> /\ tpc = "perform" /\ tpc' = "ok" /\ srcPos = StreamLen
           \/ UNCHANGED <<eof, readError>> /\ tpc = "perform" /\ tpc' = "err"
           \/ UNCHANGED <<eof, readError>> /\ tpc = "ok" /\ tpc' = "reportok"
           \/ UNCHANGED <<eof, readError>> /\ tpc = "err" /\ tpc' = "reporterr"
           \/ eof' = TRUE /\ readError' = readError /\ tpc = "reportok" /\ tpc' = "notify"
           \/ readError' = TRUE /\ eof' = eof /\ tpc = "reporterr" /\ tpc' = "notify"
           \/ UNCHANGED <<eof, readError>> /\ tpc = "notify" /\ tpc' = "done"
    BY <1>5 DEF TransferEnds, TransferFails, ThreadAgain, ThreadLeaves, ThreadReports, ThreadEnds,
                ThreadGoes, UnsoughtCalls, status, seekv, caller
  <2>2. UnsoughtType' /\ UnsoughtRing'
    BY <2>1, RingKept DEF caller, UnsoughtRing
  <2> QED
    BY <2>1, <2>2 DEF UnsoughtCalls, ring, caller
<1> QED
  BY <1>1, <1>2, <1>3, <1>4, <1>5 DEF ThreadStep

(* As long as nobody seeks, from a state in which nobody did.              *)
LEMMA CurlStep == SeeksAreSeen /\ UnsoughtInv /\ [Next]_vars => UnsoughtInv'
<1> SUFFICES ASSUME SeeksAreSeen, UnsoughtInv, [Next]_vars, ~Sought'
             PROVE  CurlInv'
  BY DEF UnsoughtInv, CurlInv
<1>1. ~Sought /\ ~\E s \in Seeks : CallSeek(s[1], s[2])
  BY SeeksStay
<1>2. CurlInv
  BY <1>1 DEF UnsoughtInv, CurlInv
<1> QED
  BY <1>1, <1>2, CallerKeeps, ThreadKeeps DEF Next

(* The ring, its indices and what was reported agree until the first seek, *)
(* however read(), the callback and the end of a transfer take turns.      *)
THEOREM Invariant == ASSUME SeeksAreSeen PROVE Spec => []UnsoughtInv
<1>1. Init => UnsoughtInv
  BY CurlInit DEF UnsoughtInv, CurlInv
<1>2. UnsoughtInv /\ [Next]_vars => UnsoughtInv'
  BY CurlStep
<1> QED
  BY <1>1, <1>2, PTL DEF Spec

(* The bytes in the ring are those between what the caller has taken and   *)
(* what libcurl has delivered, until somebody seeks.                       *)
THEOREM RingStaysCurrent == ASSUME SeeksAreSeen PROVE Spec => []RingIsCurrent
<1>1. UnsoughtInv => RingIsCurrent
  BY DEF UnsoughtInv, UnsoughtRing, RingIsCurrent
<1> QED
  BY <1>1, Invariant, PTL

(* The copies that read() and the callback make without the mutex never    *)
(* touch the same slot, until somebody seeks.                              *)
THEOREM CopiesAreDisjoint == ASSUME SeeksAreSeen PROVE Spec => [](~Sought => NoTornCopy)
<1>1. UnsoughtInv => (~Sought => NoTornCopy)
  <2> SUFFICES ASSUME CurlInv, cpc = "copy", tpc = "copy",
                      NEW i \in 0..(didRead - 1), NEW j \in 0..(chunk - 1)
               PROVE  Wrap(a + i) # Wrap(b + j)
    BY DEF UnsoughtInv, CurlInv, NoTornCopy, ReaderSlots, WriterSlots
  <2> QED
    BY DEF CurlInv, UnsoughtRing, UnsoughtType, Wrap, Fill, FillSize, Slots
<1> QED
  BY <1>1, Invariant, PTL

(***************************************************************************)
(* What the caller gets: every step before a seek is a read of ByteStream, *)
(* or a stutter.                                                           *)
(***************************************************************************)

LEMMA ReadDoneDelivers == CurlInv /\ ReadDone => Pipe!Next
<1> SUFFICES ASSUME CurlInv, ReadDone PROVE Pipe!Next
  OBVIOUS
<1> USE DEF CurlInv
<1>1. /\ didRead \in 1..Fill /\ ~empty /\ expect = posRead
      /\ srcPos = posRead + Fill /\ Fill \in 0..BufSize
      /\ posRead \in Nat /\ srcPos \in 0..StreamLen
      /\ result.kind \notin {"error", "eof"}
  BY FillType DEF ReadDone, CallerLocks, UnsoughtRing, RingHoldsNextBytes, UnsoughtCalls, UnsoughtType
<1>2. \A i \in 1..didRead : ByteAt(Wrap(a + i - 1)) = expect + i - 1
  <2> SUFFICES ASSUME NEW i \in 1..didRead PROVE ByteAt(Wrap(a + i - 1)) = expect + i - 1
    OBVIOUS
  <2>1. i - 1 \in 0..(BufSize - 1) /\ i - 1 < Fill
    BY <1>1
  <2>2. buffer[Wrap(a + (i - 1))] = posRead + (i - 1)
    BY <2>1 DEF UnsoughtRing, RingHoldsNextBytes
  <2>3. a + (i - 1) = a + i - 1 /\ Wrap(a + (i - 1)) \in Slots
    BY <2>1 DEF UnsoughtType, Slots, Wrap
  <2> QED
    BY <1>1, <2>2, <2>3 DEF ByteAt
<1>3. result' = Pipe!DataResult(expect, didRead)
  BY <1>2 DEF ReadDone, Pipe!DataResult
<1>4. expect' = expect + didRead
  BY DEF ReadDone
<1>5. didRead \in 1..StreamLen /\ expect + didRead =< StreamLen
  BY <1>1
<1> QED
  BY <1>1, <1>3, <1>4, <1>5 DEF Pipe!Next, Pipe!ReadData

LEMMA StepDelivers ==
  ASSUME CurlInv, [Next]_vars, ~\E s \in Seeks : CallSeek(s[1], s[2])
  PROVE  [Pipe!Next]_(Pipe!svars)
<1> USE DEF CurlInv
<1>1. CASE ReadDone
  BY <1>1, ReadDoneDelivers
<1>2. CASE ReadCheckSocket
  BY <1>2 DEF ReadCheckSocket, ReadReturns, ReadBlocked, UnsoughtCalls, NoBytes,
              CallerLocks, Pipe!Next, Pipe!ReadAgain, Pipe!NoBytes
<1>3. CASE ReadFails
  BY <1>3 DEF ReadFails, ReadReturns, NoBytes, Pipe!Next, Pipe!ReadError, Pipe!NoBytes
<1>4. CASE ReadEof
  <2>1. expect = StreamLen
    BY <1>4 DEF ReadEof, UnsoughtCalls, UnsoughtRing, RingHoldsNextBytes, Fill, UnsoughtType
  <2> QED
    BY <1>4, <2>1 DEF ReadEof, ReadReturns, NoBytes, Pipe!Next, Pipe!ReadEnd, Pipe!NoBytes
<1>5. CASE \/ Open \/ (\E len \in ReadLengths : CallRead(len)) \/ ReadMustWait \/ ReadWait
           \/ ReadCopy \/ SeekStep \/ CallClose \/ Join
  BY <1>5 DEF Open, CallRead, ReadMustWait, ReadWait, ReadCopy, SeekStep, SeekWait, SeekWakes,
              CallClose, Join, Pipe!svars
<1>6. CASE ThreadStep
  <2>1. UNCHANGED caller
    BY <1>6 DEF ThreadStep, ThreadHead, TransferChunk, TransferEnds, TransferFails, ThreadAgain,
                ThreadLeaves, ThreadReports, ThreadEnds, ThreadGoes, CbEnter, CbWakes, CbDropsRing,
                CbLeavesAlone, CbCopied
  <2> QED
    BY <2>1 DEF caller, Pipe!svars
<1>7. CASE Closed \/ SpuriousWakeup \/ UNCHANGED vars
  <2>1. UNCHANGED caller
    BY <1>7, Zenon DEF Closed, SpuriousWakeup, vars
  <2> QED
    BY <2>1 DEF caller, Pipe!svars
<1> QED
  BY <1>1, <1>2, <1>3, <1>4, <1>5, <1>6, <1>7 DEF Next, CallerNext, ReadStep

(* The caller of read() gets the next bytes of the resource, none lost and *)
(* none repeated, and the end only after all of them, until it seeks.      *)
THEOREM DeliversBytes == ASSUME SeeksAreSeen PROVE Spec => DeliversUnlessSought
<1>1. Init => Pipe!Init
  BY DEF Init, HelperInit, Pipe!Init, NoBytes, Pipe!NoBytes
<1>2. UnsoughtInv /\ [Next]_vars => [~Sought' => Pipe!Next]_(Pipe!svars)
  <2> SUFFICES ASSUME UnsoughtInv, [Next]_vars, ~Sought'
               PROVE  [Pipe!Next]_(Pipe!svars)
    OBVIOUS
  <2>1. ~Sought /\ ~\E s \in Seeks : CallSeek(s[1], s[2])
    BY SeeksStay
  <2>2. CurlInv
    BY <2>1 DEF UnsoughtInv, CurlInv
  <2> QED
    BY <2>1, <2>2, StepDelivers
<1> QED
  BY <1>1, <1>2, Invariant, PTL DEF Spec, DeliversUnlessSought
=============================================================================
