----------------------------- MODULE Transcoding -----------------------------
(***************************************************************************)
(* A transcoded stream: TranscodeExternalHandler::open() starts the        *)
(* transcoder and, for a URL it cannot read itself, a thread               *)
(* (IOHandlerChainer) that copies the source into a first fifo; the        *)
(* transcoder writes to a second fifo, out of which ProcessIOHandler::     *)
(* read() fills the buffers of the web server.  ProcessIOHandler::write()  *)
(* is the chainer's side of the first fifo.                                *)
(*                                                                         *)
(* Bytes are 1, 2, ... in the order of the source and of the output.       *)
(***************************************************************************)
EXTENDS Integers, Sequences, SequencesExt

CONSTANTS
  N,                    \* bytes of the source, and of the output
  PipeSize,             \* capacity of a fifo
  Chunk,                \* bytes of one read() and of one copy
  MaxTimeouts           \* MAX_TIMEOUTS

\* What the constants are, ASSUMEd where they have values.
TranscodingAssumption ==
  /\ N \in Nat \ {0} /\ PipeSize \in Nat \ {0} /\ Chunk \in Nat \ {0} /\ MaxTimeouts \in Nat

VARIABLES
  chained,              \* the source goes through the chainer
  main, status,         \* the transcoder: "runs" or "dead", and its exit status
  reads, writes,        \* its side of the fifos: "never", "open", "closed"
  source, fifo1,        \* next byte of the source; the first fifo
  eaten, again,         \* last byte the transcoder read from it; history: one came twice
  made, fifo2,          \* bytes written to the second fifo; the fifo
  rpc, got, timeouts,   \* read(): at "idle" or "select", bytes of this call, timeouts
  result,               \* what the last read() returned: "none", "bytes", "eof", "error", "check"
  delivered,            \* bytes returned so far
  cpc, chunk, sent,     \* the chainer; its buffer; how much of it this write() wrote
  threadRunning, threadShutdown,
  closing,              \* close(): "no", "kills", "joins", "closed", "closed again"
  fd,                   \* who owns the descriptor's number: "none", "handler", "another"
  stolen                \* history: the second close() closed another's descriptor

process  == <<main, status, reads, writes>>
input    == <<source, fifo1, eaten, again>>
output   == <<made, fifo2>>
reader   == <<rpc, got, timeouts, result, delivered>>
chainer  == <<cpc, chunk, sent, threadRunning, threadShutdown>>
files    == <<closing, fd, stolen>>
vars     == <<chained, process, input, output, reader, chainer, files>>

Init ==
  /\ chained \in BOOLEAN
  /\ main = "runs" /\ status = "ok" /\ reads = "never" /\ writes = "never"
  /\ source = 1 /\ fifo1 = <<>> /\ eaten = 0 /\ again = FALSE /\ made = 0 /\ fifo2 = <<>>
  /\ rpc = "idle" /\ got = <<>> /\ timeouts = 0 /\ result = "none" /\ delivered = <<>>
  /\ cpc = (IF chained THEN "opens" ELSE "none") /\ chunk = <<>> /\ sent = 0
  /\ threadRunning = chained /\ threadShutdown = FALSE
  /\ closing = "no" /\ fd = "handler" /\ stolen = FALSE

Taken(s, n) == SubSeq(s, 1, IF n < Len(s) THEN n ELSE Len(s))
Left(s, n)  == SubSeq(s, (IF n < Len(s) THEN n ELSE Len(s)) + 1, Len(s))

(***************************************************************************)
(* The transcoder (external)                                               *)
(***************************************************************************)
Opens ==
  /\ main = "runs"
  /\ \/ chained /\ reads = "never" /\ reads' = "open" /\ UNCHANGED writes
     \/ writes = "never" /\ writes' = "open" /\ UNCHANGED reads
  /\ UNCHANGED <<chained, main, status, input, output, reader, chainer, files>>

Consumes ==
  /\ main = "runs" /\ reads = "open" /\ fifo1 # <<>>
  /\ again' = (again \/ Head(fifo1) # eaten + 1)
  /\ eaten' = Head(fifo1) /\ fifo1' = Tail(fifo1)
  /\ UNCHANGED <<chained, process, source, output, reader, chainer, files>>

Produces ==
  /\ main = "runs" /\ writes = "open" /\ made < N /\ Len(fifo2) < PipeSize
  /\ chained => made < eaten
  /\ fifo2' = Append(fifo2, made + 1) /\ made' = made + 1
  /\ UNCHANGED <<chained, process, input, reader, chainer, files>>

Dies(s) ==
  /\ main' = "dead" /\ status' = s
  /\ reads' = (IF reads = "open" THEN "closed" ELSE reads)
  /\ writes' = (IF writes = "open" THEN "closed" ELSE writes)

Exits ==
  /\ main = "runs"
  /\ \/ made = N /\ writes = "open" /\ Dies("ok")
     \/ Dies("failed")
  /\ UNCHANGED <<chained, input, output, reader, chainer, files>>

(***************************************************************************)
(* ProcessIOHandler::read()                                                *)
(***************************************************************************)
Read ==
  /\ rpc = "idle" /\ closing = "no" /\ result \notin {"eof", "error"}
  /\ rpc' = "select" /\ got' = <<>> /\ timeouts' = 0
  /\ UNCHANGED <<chained, process, input, output, result, delivered, chainer, files>>

Returns(r, bytes) ==
  /\ rpc' = "idle" /\ result' = r /\ delivered' = delivered \o bytes /\ got' = <<>>

Filled(bytes) == got \o bytes
Rest == Chunk - Len(got)

ReadBytes ==
  LET all == Filled(Taken(fifo2, Rest)) IN
  /\ rpc = "select" /\ fifo2 # <<>>
  /\ fifo2' = Left(fifo2, Rest) /\ timeouts' = 0
  /\ IF Len(all) >= Chunk THEN Returns("bytes", all)
     ELSE got' = all /\ UNCHANGED <<rpc, result, delivered>>
  /\ UNCHANGED <<chained, process, input, made, chainer, files>>

(* The end of the fifo ends the call, whatever the status of the process.  *)
ReadEnd ==
  /\ rpc = "select" /\ fifo2 = <<>> /\ writes = "closed"
  /\ Returns(IF got = <<>> THEN "eof" ELSE "bytes", got)
  /\ UNCHANGED <<chained, process, input, output, timeouts, chainer, files>>

(* The chainer is no process whose death aborts; what this call got so far *)
(* goes with the answer.                                                   *)
TimeoutCount == timeouts + 1

ReadTimesOut ==
  /\ rpc = "select" /\ fifo2 = <<>> /\ writes # "closed"
  /\ IF main = "dead"
     THEN Returns(IF status = "ok" THEN "eof" ELSE "error", <<>>) /\ UNCHANGED timeouts
     ELSE /\ timeouts' = TimeoutCount
          /\ IF timeouts' > MaxTimeouts THEN Returns("check", <<>>)
             ELSE UNCHANGED <<rpc, got, result, delivered>>
  /\ UNCHANGED <<chained, process, input, output, chainer, files>>

(***************************************************************************)
(* The chainer: open() until a reader is there, then copy                  *)
(***************************************************************************)
ChainerOpens ==
  /\ cpc = "opens"
  /\ cpc' = IF reads = "open" THEN "reads" ELSE IF threadShutdown THEN "closes" ELSE "opens"
  /\ UNCHANGED <<chained, process, input, output, reader, chunk, sent, threadRunning, threadShutdown, files>>

ChainerReads ==
  /\ cpc = "reads"
  /\ IF threadShutdown \/ source > N
     THEN cpc' = "closes" /\ UNCHANGED <<chunk, sent, source>>
     ELSE \E n \in 1..Chunk :
            /\ source + n - 1 <= N
            /\ chunk' = [i \in 1..n |-> source + i - 1] /\ source' = source + n
            /\ cpc' = "writes" /\ sent' = 0
  /\ UNCHANGED <<chained, process, fifo1, eaten, again, output, reader, threadRunning, threadShutdown, files>>

Room == PipeSize - Len(fifo1)

(* The fifo takes what it has room for; when all is written the next read. *)
ChainerWrites ==
  LET rest == Left(chunk, sent) IN
  /\ cpc = "writes" /\ reads = "open" /\ Room > 0
  /\ fifo1' = fifo1 \o Taken(rest, Room)
  /\ sent' = sent + Len(Taken(rest, Room))
  /\ cpc' = IF sent' = Len(chunk) THEN "reads" ELSE "writes"
  /\ UNCHANGED <<chained, process, source, eaten, again, output, reader, chunk, threadRunning, threadShutdown, files>>

ChainerFails ==
  /\ cpc = "writes" /\ reads = "closed"
  /\ cpc' = "closes"
  /\ UNCHANGED <<chained, process, input, output, reader, chunk, sent, threadRunning, threadShutdown, files>>

(* write() returns 0 after a timeout, and is called again with the whole   *)
(* chunk unless the thread has to end.                                     *)
ChainerTimesOut ==
  /\ cpc = "writes" /\ reads = "open" /\ Room = 0
  /\ cpc' = IF threadShutdown THEN "closes" ELSE "writes"
  /\ sent' = 0
  /\ UNCHANGED <<chained, process, input, output, reader, chunk, threadRunning, threadShutdown, files>>

ChainerEnds ==
  /\ cpc = "closes"
  /\ cpc' = "over"
  /\ UNCHANGED <<chained, process, input, output, reader, chunk, sent, threadRunning, threadShutdown, files>>

(***************************************************************************)
(* close(), once by the web server and once by the destructor; and the     *)
(* shutdown of the content manager, which kills the registered processes   *)
(***************************************************************************)
Killed == IF main = "runs" THEN Dies("failed") ELSE UNCHANGED process

CloseKills ==
  /\ closing = "no" /\ rpc = "idle"
  /\ Killed
  /\ closing' = "kills"
  /\ UNCHANGED <<chained, input, output, reader, chainer, fd, stolen>>

ToldToEnd == TRUE

KillChainer ==
  /\ closing = "kills"
  /\ IF threadRunning THEN threadShutdown' = ToldToEnd /\ threadRunning' = FALSE /\ closing' = "joins"
     ELSE closing' = "unlinks" /\ UNCHANGED <<threadShutdown, threadRunning>>
  /\ UNCHANGED <<chained, process, input, output, reader, cpc, chunk, sent, fd, stolen>>

(* Mutant of Joined: nobody waits for the thread.                          *)
NotJoined == TRUE
Joined == cpc = "over"

JoinChainer ==
  /\ closing = "joins" /\ Joined
  /\ closing' = "unlinks"
  /\ UNCHANGED <<chained, process, input, output, reader, chainer, fd, stolen>>

CloseFd ==
  /\ closing = "unlinks"
  /\ closing' = "closed" /\ fd' = "none"
  /\ UNCHANGED <<chained, process, input, output, reader, chainer, stolen>>

(* Another thread is given the number; the destructor closes it again.     *)
Reused ==
  /\ closing = "closed" /\ fd = "none"
  /\ fd' = "another"
  /\ UNCHANGED <<chained, process, input, output, reader, chainer, closing, stolen>>

CloseAgain ==
  /\ closing = "closed"
  /\ closing' = "closed again" /\ stolen' = (fd = "another") /\ fd' = "none"
  /\ UNCHANGED <<chained, process, input, output, reader, chainer>>

ServerStops ==
  /\ closing = "no" /\ main = "runs"
  /\ Dies("failed")
  /\ UNCHANGED <<chained, input, output, reader, chainer, files>>

Transcoder == Opens \/ Consumes \/ Produces \/ Exits
Reading    == ReadBytes \/ ReadEnd \/ ReadTimesOut
Chaining   == ChainerOpens \/ ChainerReads \/ ChainerWrites \/ ChainerFails \/ ChainerTimesOut \/ ChainerEnds
Closing    == KillChainer \/ JoinChainer \/ CloseFd \/ CloseAgain

Next == Transcoder \/ Read \/ Reading \/ Chaining \/ CloseKills \/ Closing \/ Reused \/ ServerStops

(* Of the transcoder nothing is assumed: it may hang.                      *)
Fairness == WF_vars(Reading) /\ WF_vars(Chaining) /\ WF_vars(Closing)

Spec == Init /\ [][Next]_vars /\ Fairness

(***************************************************************************)
(* Properties                                                              *)
(***************************************************************************)
(* Every variable has its type (ProcessIOHandler, IOHandlerChainer).       *)
TypeOK ==
  /\ main \in {"runs", "dead"} /\ status \in {"ok", "failed"}
  /\ {reads, writes} \subseteq {"never", "open", "closed"}
  /\ source \in 1..N + 1 /\ made \in 0..N
  /\ Len(fifo1) <= PipeSize /\ Len(fifo2) <= PipeSize /\ Len(got) < Chunk
  /\ rpc \in {"idle", "select"} /\ result \in {"none", "bytes", "eof", "error", "check"}
  /\ cpc \in {"none", "opens", "reads", "writes", "closes", "over"} /\ sent \in 0..Chunk
  /\ closing \in {"no", "kills", "joins", "unlinks", "closed", "closed again"}

(* What read() returns is at most what was asked for and in the order of   *)
(* the output, nothing twice, however the fifo was cut in pieces.          *)
ReadInOrder == \A i \in 1..Len(delivered) - 1 : delivered[i] < delivered[i + 1]

(* After close() the transcoder is dead and the thread of the chainer gone *)
(* ("this function only returns after the thread has died").               *)
NothingLeftBehind ==
  closing \in {"unlinks", "closed", "closed again"} => main = "dead" /\ cpc \in {"none", "over"}

(* read() comes back, also when the transcoder hangs.                      *)
ReadReturns == rpc = "select" ~> rpc = "idle"

(* close() comes back, also when the chainer waits for a reader that never *)
(* opens the fifo or for room in it.                                       *)
CloseReturns == closing = "kills" ~> closing = "closed again"

(* The web server gets every byte of the output: the bytes that were read  *)
(* when a call times out are lost.                                         *)
NoGap == \A i \in 1..Len(delivered) : delivered[i] = i

(* The transcoder gets every byte of the source once: a write that timed   *)
(* out in the middle of a chunk is repeated from its begin.                *)
FedOnce == ~again

(* The end of the stream is an end of the output ("actually that will      *)
(* depend on the ret code of the process").                                *)
EndMeansSuccess == result = "eof" => status = "ok"

(* close() closes what the handler opened.                                 *)
ClosesItsOwn == ~stolen
=============================================================================
