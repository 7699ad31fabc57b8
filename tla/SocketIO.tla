------------------------------ MODULE SocketIO ------------------------------
(***************************************************************************)
(* The byte loops under an exchange: the write loop of send_request and    *)
(* the two calls of read_socket in recv_response, on a socket that does    *)
(* not block.  A write takes as many bytes as there is room for, a read    *)
(* gets as many as have arrived.  Either returns -1 when that is none, and *)
(* the loops count it: their offset goes one byte back.  Module Exchange   *)
(* sees an exchange as whole frames and halves of frames; this one shows   *)
(* when that is right.                                                     *)
(*                                                                         *)
(* A byte is its position in its frame, from 1.  Both ends are followed to *)
(* the first exchange that fails.                                          *)
(***************************************************************************)
EXTENDS Integers, Sequences

CONSTANTS
  LenSize,      \* bytes of the length that starts a frame: 4
  ReqSize,      \* bytes of a request, its length included
  BodySize,     \* bytes of a reply, without its length
  MaxExchanges, \* Bound: the exchanges of a connection
  MaxBlocks     \* Bound: writes of a request, and reads of a reply, that find
                \* the socket not ready

ASSUME SocketAssumption ==
  /\ LenSize \in Nat \ {0} /\ ReqSize \in Nat \ {0} /\ BodySize \in Nat \ {0}
  /\ MaxExchanges \in Nat /\ MaxBlocks \in Nat

VARIABLES
  pc,        \* where the exchange is
  n,         \* how many were started
  w_bytes,   \* of send_request
  wire,      \* the bytes of this request that were written
  wblocks,   \* history: writes of this request that would have blocked
  r_bytes,   \* of read_socket
  want,      \* its argument len
  buf,       \* its argument buf
  rblocks,   \* history: reads of this reply that would have blocked
  torn,      \* history: one of them did, in an exchange before
  stream,    \* bytes that arrived and are unread
  due,       \* bytes of the reply that are on their way
  answered,  \* the server has answered this request
  peer       \* "up", "reset" (an error is pending) or "closed"

clientVars == <<pc, n, w_bytes, wire, wblocks, r_bytes, want, buf, rblocks, torn>>
serverVars == <<stream, due, answered, peer>>
vars == <<clientVars, serverVars>>

\* A byte from the memory in front of the request.
Stray == 0

\* What read_socket writes is an offset in its buffer, which goes below 1
\* once it has counted a failed read.
Offsets == -MaxBlocks .. LenSize + BodySize

Request == [i \in 1..ReqSize |-> i]
Answer  == [i \in 1..(LenSize + BodySize) |-> i]
Clean   == [i \in Offsets |-> Stray]

Init ==
  /\ pc = "idle" /\ n = 0
  /\ w_bytes = 0 /\ wire = <<>> /\ wblocks = 0
  /\ r_bytes = 0 /\ want = 0 /\ buf = Clean /\ rblocks = 0 /\ torn = FALSE
  /\ stream = <<>> /\ due = <<>> /\ answered = FALSE /\ peer = "up"

-----------------------------------------------------------------------------
(* send_request.                                                           *)

Begin ==
  /\ pc = "idle" /\ n < MaxExchanges
  /\ pc' = "write" /\ n' = n + 1
  /\ w_bytes' = 0 /\ wire' = <<>>
  /\ answered' = FALSE
  /\ wblocks' = 0 /\ rblocks' = 0
  /\ torn' = (torn \/ wblocks > 0 \/ rblocks > 0)
  /\ UNCHANGED <<r_bytes, want, buf, stream, due, peer>>

\* wait_socket, or an error of write.
SendFails ==
  /\ pc = "write"
  /\ pc' = "failed"
  /\ UNCHANGED <<n, w_bytes, wire, wblocks, r_bytes, want, buf, rblocks, torn, serverVars>>

\* The bytes at buf + w_bytes.
Next_bytes(k) == [i \in 1..k |-> IF w_bytes + i >= 1 THEN w_bytes + i ELSE Stray]

\* Fault: a write is told the length of the whole frame.
WriteWholeLength(k) ==
  /\ pc = "write" /\ w_bytes < ReqSize
  /\ k <= ReqSize
  /\ wire' = wire \o Next_bytes(k)
  /\ w_bytes' = w_bytes + k
  /\ UNCHANGED <<pc, n, wblocks, r_bytes, want, buf, rblocks, torn, serverVars>>

\* Fault: what was written already is written again.
WriteFromStart(k) ==
  /\ pc = "write" /\ w_bytes < ReqSize
  /\ k <= ReqSize - w_bytes
  /\ wire' = wire \o [i \in 1..k |-> i]
  /\ w_bytes' = w_bytes + k
  /\ UNCHANGED <<pc, n, wblocks, r_bytes, want, buf, rblocks, torn, serverVars>>

Write(k) ==
  /\ pc = "write" /\ w_bytes < ReqSize
  /\ k <= ReqSize - w_bytes
  /\ wire' = wire \o Next_bytes(k)
  /\ w_bytes' = w_bytes + k
  /\ UNCHANGED <<pc, n, wblocks, r_bytes, want, buf, rblocks, torn, serverVars>>

\* Fault: a write that would block ends the loop as if it were done.
WriteBlocksEnding ==
  /\ pc = "write" /\ w_bytes < ReqSize
  /\ wblocks < MaxBlocks
  /\ wblocks' = wblocks + 1
  /\ w_bytes' = ReqSize
  /\ UNCHANGED <<pc, n, wire, r_bytes, want, buf, rblocks, torn, serverVars>>

\* -1 with EAGAIN or EINTR is added like any other result.
WriteBlocks ==
  /\ pc = "write" /\ w_bytes < ReqSize
  /\ wblocks < MaxBlocks
  /\ wblocks' = wblocks + 1
  /\ w_bytes' = w_bytes - 1
  /\ UNCHANGED <<pc, n, wire, r_bytes, want, buf, rblocks, torn, serverVars>>

SendReturns ==
  /\ pc = "write" /\ w_bytes >= ReqSize
  /\ pc' = "poll"
  /\ UNCHANGED <<n, w_bytes, wire, wblocks, r_bytes, want, buf, rblocks, torn, serverVars>>

-----------------------------------------------------------------------------
(* recv_response.                                                          *)

\* A call of read_socket.
ReadSocket(label, len) ==
  /\ pc' = label
  /\ r_bytes' = 0 /\ want' = len /\ buf' = Clean

Poll ==
  /\ pc = "poll"
  /\ \/ stream # <<>> \/ peer # "up"
  /\ ReadSocket("len", LenSize)
  /\ UNCHANGED <<n, w_bytes, wire, wblocks, rblocks, torn, serverVars>>

TimeOut ==
  /\ pc = "poll" /\ stream = <<>> /\ peer = "up"
  /\ pc' = "failed"
  /\ UNCHANGED <<n, w_bytes, wire, wblocks, r_bytes, want, buf, rblocks, torn, serverVars>>

InLoop == pc \in {"len", "body"} /\ r_bytes < want

\* Fault: every read goes to the start of the buffer.
ReadToStart(k) ==
  /\ InLoop
  /\ k <= Len(stream) /\ k <= want - r_bytes
  /\ buf' = [j \in Offsets |-> IF j \in 1..k THEN stream[j] ELSE buf[j]]
  /\ stream' = SubSeq(stream, k + 1, Len(stream))
  /\ r_bytes' = r_bytes + k
  /\ UNCHANGED <<pc, n, w_bytes, wire, wblocks, want, rblocks, torn, due, answered, peer>>

Read(k) ==
  /\ InLoop
  /\ k <= Len(stream) /\ k <= want - r_bytes
  /\ buf' = [j \in Offsets |-> IF j \in r_bytes + 1 .. r_bytes + k
                                 THEN stream[j - r_bytes] ELSE buf[j]]
  /\ stream' = SubSeq(stream, k + 1, Len(stream))
  /\ r_bytes' = r_bytes + k
  /\ UNCHANGED <<pc, n, w_bytes, wire, wblocks, want, rblocks, torn, due, answered, peer>>

\* -1 with EAGAIN.
ReadBlocks ==
  /\ InLoop /\ stream = <<>> /\ peer = "up"
  /\ rblocks < MaxBlocks
  /\ rblocks' = rblocks + 1
  /\ r_bytes' = r_bytes - 1
  /\ UNCHANGED <<pc, n, w_bytes, wire, wblocks, want, buf, torn, serverVars>>

\* -1 with another errno is counted too, and the loop goes on to read 0.
ReadError ==
  /\ InLoop /\ stream = <<>> /\ peer = "reset"
  /\ r_bytes' = r_bytes - 1
  /\ peer' = "closed"
  /\ UNCHANGED <<pc, n, w_bytes, wire, wblocks, want, buf, rblocks, torn, stream, due, answered>>

\* Fault: the end of the stream is one more read that got nothing.
ReadEofGoesOn ==
  /\ InLoop /\ stream = <<>> /\ peer = "closed"
  /\ UNCHANGED vars

ReadEof ==
  /\ InLoop /\ stream = <<>> /\ peer = "closed"
  /\ pc' = "failed"
  /\ UNCHANGED <<n, w_bytes, wire, wblocks, r_bytes, want, buf, rblocks, torn, serverVars>>

\* decode_int32, on four bytes that may not be the start of a reply.
Decoded(len) ==
  IF \A i \in 1..LenSize : buf[i] = i THEN len = BodySize ELSE TRUE

ReadLen(len) ==
  /\ pc = "len" /\ r_bytes >= want
  /\ Decoded(len)
  /\ ReadSocket("body", len)
  /\ UNCHANGED <<n, w_bytes, wire, wblocks, rblocks, torn, serverVars>>

ReadBody ==
  /\ pc = "body" /\ r_bytes >= want
  /\ pc' = "got"
  /\ UNCHANGED <<n, w_bytes, wire, wblocks, r_bytes, want, buf, rblocks, torn, serverVars>>

Return ==
  /\ pc = "got"
  /\ pc' = "idle"
  /\ UNCHANGED <<n, w_bytes, wire, wblocks, r_bytes, want, buf, rblocks, torn, serverVars>>

-----------------------------------------------------------------------------
(* The server and the network (not in this repository): as many bytes as a *)
(* request has are answered, and the answer arrives in pieces of any size. *)
(* If bytes are repeated the server may answer all the same, or hang up.   *)

ServerAnswers ==
  /\ peer = "up" /\ ~answered /\ Len(wire) >= ReqSize
  /\ answered' = TRUE
  /\ due' = due \o Answer
  /\ UNCHANGED <<clientVars, stream, peer>>

Arrive(k) ==
  /\ k <= Len(due)
  /\ stream' = stream \o SubSeq(due, 1, k)
  /\ due' = SubSeq(due, k + 1, Len(due))
  /\ UNCHANGED <<clientVars, answered, peer>>

HangUp ==
  /\ peer = "up"
  /\ peer' \in {"reset", "closed"}
  /\ due' = <<>>
  /\ UNCHANGED <<clientVars, stream, answered>>

-----------------------------------------------------------------------------
Send == Begin \/ SendFails \/ WriteBlocks \/ SendReturns \/ \E k \in 1..(ReqSize + MaxBlocks) : Write(k)

ReadLoop ==
  \/ \E k \in 1..(LenSize + BodySize + MaxBlocks + 1) : Read(k)
  \/ ReadBlocks \/ ReadError \/ ReadEof
  \/ \E len \in -1 .. BodySize : ReadLen(len)
  \/ ReadBody

Receive == Poll \/ TimeOut \/ ReadLoop \/ Return

Server == ServerAnswers \/ HangUp \/ \E k \in 1..(LenSize + BodySize) : Arrive(k)

Next == Send \/ Receive \/ Server

Spec == Init /\ [][Next]_vars

\* read_socket runs without a wait: its loop goes on.
FairSpec == Spec /\ WF_vars(ReadLoop)

-----------------------------------------------------------------------------
(* Properties.                                                             *)

Pcs == {"idle", "write", "poll", "len", "body", "got", "failed"}

\* Types; the offsets stay within what the would-block results allow (the
\* counters of the two loops).
TypeOK ==
  /\ pc \in Pcs /\ n \in 0..MaxExchanges
  /\ wblocks \in 0..MaxBlocks /\ rblocks \in 0..MaxBlocks
  /\ w_bytes \in -wblocks .. ReqSize
  /\ r_bytes \in -rblocks - 1 .. LenSize + BodySize
  /\ want \in -1 .. LenSize + BodySize
  /\ stream \in Seq(Nat) /\ due \in Seq(Nat) /\ wire \in Seq(Nat)
  /\ answered \in BOOLEAN /\ torn \in BOOLEAN /\ peer \in {"up", "reset", "closed"}

Sent   == pc \in {"poll", "len", "body", "got"}
InRead == pc \in {"len", "body"}

\* Partial writes lose and repeat nothing, as long as no write would block:
\* send_request then returns when exactly its frame is on the wire.
WireWhole == Sent /\ wblocks = 0 => wire = Request

\* And each write that would block puts one byte too many on the wire: the
\* write loop ends only when it has made up for its own miscount.
Surplus == Sent => Len(wire) = ReqSize + wblocks

\* A reply that arrives in pieces is put together again, and the stream is
\* left at the start of the next one, as long as no loop of the connection
\* has met a would-block (read_socket, and the length between its calls).
ReplyWhole ==
  pc = "got" /\ ~torn /\ wblocks = 0 /\ rblocks = 0 =>
    /\ want = BodySize
    /\ \A i \in 1..BodySize : buf[i] = LenSize + i
    /\ stream = <<>> /\ due = <<>>

\* Why a request goes out whole: what is on the wire is what w_bytes counts
\* and the would-blocks it took back, and without any it is a prefix.
SendInv ==
  /\ pc \in Pcs /\ wblocks \in Nat /\ w_bytes \in Int /\ wire \in Seq(Nat)
  /\ pc = "write" \/ Sent =>
       /\ w_bytes <= ReqSize
       /\ Len(wire) = w_bytes + wblocks
       /\ wblocks = 0 => \A i \in 1..w_bytes : wire[i] = i
  /\ Sent => w_bytes = ReqSize

\* Why a reply comes in whole: without a would-block the unread bytes go on
\* where the reader stands, and after an error of read nothing is left to
\* read.
Standing ==
  IF pc = "len" THEN r_bytes ELSE IF pc = "body" THEN LenSize + r_bytes ELSE 0

Lost == InRead /\ r_bytes < want /\ peer = "closed" /\ stream = <<>> /\ due = <<>>

Aligned ==
  /\ pc \in {"idle", "got"} => stream = <<>> /\ due = <<>>
  /\ ~answered => stream = <<>> /\ due = <<>>
  /\ pc = "len" /\ (r_bytes > 0 \/ peer = "up") => answered
  /\ pc \in {"body", "got"} => answered
  /\ pc = "idle" => answered \/ wire = <<>>
  /\ pc = "len" => want = LenSize /\ r_bytes \in 0..LenSize /\ \A i \in 1..r_bytes : buf[i] = i
  /\ pc \in {"body", "got"} =>
       /\ want = BodySize /\ r_bytes \in 0..BodySize
       /\ \A i \in 1..r_bytes : buf[i] = LenSize + i
  /\ pc = "got" => r_bytes = BodySize
  /\ \A i \in 1..Len(stream) : stream[i] = Standing + i
  /\ \A i \in 1..Len(due) : due[i] = Standing + Len(stream) + i
  /\ Standing + Len(stream) + Len(due) <= LenSize + BodySize

RecvInv ==
  /\ pc \in Pcs /\ peer \in {"up", "reset", "closed"} /\ answered \in BOOLEAN
  /\ stream \in Seq(Nat) /\ due \in Seq(Nat) /\ rblocks \in Nat
  /\ r_bytes \in Int /\ want \in Int
  /\ peer # "up" => due = <<>>
  /\ pc # "failed" /\ ~torn /\ wblocks = 0 /\ rblocks = 0 => Lost \/ Aligned

\* read_socket ends when it has what it was asked for or the server hangs up
\* (its loop has no other way out); what can keep it going is only a
\* would-block, after which it waits for a byte more than was sent.
ReadReturns == [](InRead => <>(~InRead \/ (rblocks > 0 /\ peer = "up")))
=============================================================================
