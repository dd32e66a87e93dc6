----------------------------- MODULE ByteStream -----------------------------
(***************************************************************************)
(* What an IOHandler opened for reading promises to the caller of read()   *)
(* and seek(): the bytes of the resource from the caller's position on, in *)
(* order, none lost and none repeated.                                     *)
(*                                                                         *)
(* A byte is identified with its offset in the resource, so the resource   *)
(* is the sequence 0, 1, ..., StreamLen - 1.  The state is the position of *)
(* the caller in the resource and the outcome of its last call.            *)
(***************************************************************************)
EXTENDS Integers, Sequences

CONSTANT StreamLen      \* number of bytes of the resource

VARIABLES pos,          \* offset of the next byte the caller is to get
          result        \* outcome of the last call

svars == <<pos, result>>

(* The outcomes of read(): some bytes, the end (0), an error (-1), and     *)
(* CHECK_SOCKET ("nothing yet, go and look at your own socket").           *)
DataResult(p, n) == [kind |-> "data", bytes |-> [i \in 1..n |-> p + i - 1]]
NoBytes(k)       == [kind |-> k, bytes |-> << >>]

Init == pos = 0 /\ result = NoBytes("none")

(* A read that returns n > 0 bytes returns the next n bytes; after an      *)
(* error or the end no read returns bytes any more.                        *)
ReadData(n) ==
  /\ result.kind \notin {"error", "eof"}
  /\ pos + n =< StreamLen
  /\ pos' = pos + n
  /\ result' = DataResult(pos, n)

(* The end is only reported once every byte has been handed out.           *)
ReadEnd == pos = StreamLen /\ result' = NoBytes("eof") /\ UNCHANGED pos

ReadError == result' = NoBytes("error") /\ UNCHANGED pos

(* CHECK_SOCKET consumes nothing.                                          *)
ReadAgain ==
  /\ result.kind \notin {"error", "eof"}
  /\ result' = NoBytes("checkSocket")
  /\ UNCHANGED pos

(* A seek moves the caller to any position of the resource.                *)
Seek(p) == pos' = p /\ result' = NoBytes("none")

Next == \/ \E n \in 1..StreamLen : ReadData(n)
        \/ ReadEnd
        \/ ReadError
        \/ ReadAgain
        \/ \E p \in 0..StreamLen : Seek(p)

Spec == Init /\ [][Next]_svars
=============================================================================
