---------------------------- MODULE SocketProofs ----------------------------
(***************************************************************************)
(* The byte loops move whole frames as long as no call would block, and    *)
(* one byte too many for each write that would, for frames of any size.    *)
(***************************************************************************)
EXTENDS SocketIO, TLAPS

USE SocketAssumption

\* Concatenation of two sequences of numbers, index by index.
LEMMA Glued ==
  ASSUME NEW s \in Seq(Nat), NEW t \in Seq(Nat)
  PROVE  /\ s \o t \in Seq(Nat)
         /\ Len(s \o t) = Len(s) + Len(t)
         /\ \A i \in 1..Len(s) : (s \o t)[i] = s[i]
         /\ \A i \in Len(s) + 1 .. Len(s) + Len(t) : (s \o t)[i] = t[i - Len(s)]
OBVIOUS

\* The front and the rest of a sequence, index by index.
LEMMA Front ==
  ASSUME NEW s \in Seq(Nat), NEW k \in 0..Len(s)
  PROVE  /\ SubSeq(s, 1, k) \in Seq(Nat)
         /\ Len(SubSeq(s, 1, k)) = k
         /\ \A i \in 1..k : SubSeq(s, 1, k)[i] = s[i]
OBVIOUS

LEMMA Rest ==
  ASSUME NEW s \in Seq(Nat), NEW k \in 0..Len(s)
  PROVE  /\ SubSeq(s, k + 1, Len(s)) \in Seq(Nat)
         /\ Len(SubSeq(s, k + 1, Len(s))) = Len(s) - k
         /\ \A i \in 1..(Len(s) - k) : SubSeq(s, k + 1, Len(s))[i] = s[k + i]
OBVIOUS

LEMMA FrameFacts ==
  /\ Request \in Seq(Nat) /\ Len(Request) = ReqSize
  /\ Answer \in Seq(Nat) /\ Len(Answer) = LenSize + BodySize
  /\ \A i \in 1..(LenSize + BodySize) : Answer[i] = i
BY DEF Request, Answer

LEMMA NextBytes ==
  ASSUME NEW k \in Nat, w_bytes \in Int
  PROVE  /\ Next_bytes(k) \in Seq(Nat) /\ Len(Next_bytes(k)) = k
         /\ \A i \in 1..k : w_bytes >= 0 => Next_bytes(k)[i] = w_bytes + i
BY DEF Next_bytes, Stray

-----------------------------------------------------------------------------
(* The request.                                                            *)

LEMMA SendInit == Init => SendInv
BY DEF Init, SendInv, Pcs, Sent

LEMMA SendWrites ==
  ASSUME SendInv, NEW k \in 1..(ReqSize + MaxBlocks), Write(k)
  PROVE  SendInv'
<1>1. /\ pc = "write" /\ pc' = "write" /\ wblocks' = wblocks
      /\ w_bytes \in Int /\ w_bytes' = w_bytes + k /\ w_bytes' <= ReqSize
      /\ wire' = wire \o Next_bytes(k) /\ wire \in Seq(Nat) /\ wblocks \in Nat
      /\ Len(wire) = w_bytes + wblocks
  BY DEF Write, SendInv, clientVars
<1> DEFINE t == Next_bytes(k)
<1>2. /\ t \in Seq(Nat) /\ Len(t) = k
      /\ \A i \in 1..k : w_bytes >= 0 => t[i] = w_bytes + i
  BY <1>1, NextBytes
<1>0. wire' = wire \o t
  BY <1>1
<1> HIDE DEF t
<1>3. /\ wire' \in Seq(Nat) /\ Len(wire') = Len(wire) + k
      /\ \A i \in 1..Len(wire) : wire'[i] = wire[i]
      /\ \A i \in Len(wire) + 1 .. Len(wire) + k : wire'[i] = t[i - Len(wire)]
  <2>1. /\ wire \o t \in Seq(Nat) /\ Len(wire \o t) = Len(wire) + Len(t)
        /\ \A i \in 1..Len(wire) : (wire \o t)[i] = wire[i]
        /\ \A i \in Len(wire) + 1 .. Len(wire) + Len(t) : (wire \o t)[i] = t[i - Len(wire)]
    BY <1>1, <1>2, Glued
  <2> QED BY <2>1, <1>0, <1>2
<1>4. ASSUME wblocks = 0, NEW i \in 1..w_bytes' PROVE wire'[i] = i
  <2>1. Len(wire) = w_bytes /\ w_bytes \in Nat /\ i \in Nat
    BY <1>1, <1>4
  <2>2. CASE i \in 1..w_bytes
    <3>1. wire[i] = i
      BY <1>1, <1>4, <2>2 DEF SendInv
    <3> QED BY <3>1, <2>1, <2>2, <1>3
  <2>3. CASE i \in w_bytes + 1 .. w_bytes + k
    <3>1. i - w_bytes \in 1..k /\ w_bytes + (i - w_bytes) = i
      BY <2>1, <2>3
    <3>2. wire'[i] = t[i - w_bytes]
      BY <1>3, <2>1, <2>3
    <3>3. t[i - w_bytes] = w_bytes + (i - w_bytes)
      BY <3>1, <1>2, <2>1
    <3> QED BY <3>1, <3>2, <3>3
  <2>4. i \in 1..(w_bytes + k) /\ k \in Nat
    BY <1>1
  <2> QED BY <2>1, <2>2, <2>3, <2>4
<1> QED BY <1>1, <1>3, <1>4 DEF SendInv, Sent, Pcs

LEMMA SendStep == SendInv /\ [Next]_vars => SendInv'
<1> SUFFICES ASSUME SendInv, [Next]_vars PROVE SendInv'
  OBVIOUS
<1>1. CASE Begin
  BY <1>1 DEF Begin, SendInv, Sent, Pcs
<1>2. ASSUME NEW k \in 1..(ReqSize + MaxBlocks), Write(k) PROVE SendInv'
  BY <1>2, SendWrites
<1>3. CASE WriteBlocks
  BY <1>3 DEF WriteBlocks, SendInv, Sent, Pcs
<1>4. CASE SendReturns
  BY <1>4 DEF SendReturns, SendInv, Sent, Pcs
<1>5. CASE SendFails
  BY <1>5 DEF SendFails, SendInv, Sent, Pcs
<1>6. CASE Receive
  BY <1>6 DEF Receive, Poll, TimeOut, ReadLoop, Return, Read, ReadBlocks, ReadError,
              ReadEof, ReadLen, ReadBody, ReadSocket, InLoop, SendInv, Sent, Pcs, vars
<1>7. CASE Server \/ UNCHANGED vars
  BY <1>7 DEF Server, ServerAnswers, Arrive, HangUp, clientVars, vars, SendInv, Sent
<1> QED
  BY <1>1, <1>2, <1>3, <1>4, <1>5, <1>6, <1>7 DEF Next, Send

LEMMA SendMeans == SendInv => WireWhole /\ Surplus
<1> SUFFICES ASSUME SendInv, Sent
             PROVE  /\ Len(wire) = ReqSize + wblocks
                    /\ wblocks = 0 => wire = Request
  BY DEF WireWhole, Surplus
<1>1. /\ wire \in Seq(Nat) /\ wblocks \in Nat
      /\ Len(wire) = ReqSize + wblocks
      /\ wblocks = 0 => \A i \in 1..ReqSize : wire[i] = i
  BY DEF SendInv
<1>2. ASSUME wblocks = 0 PROVE wire = Request
  <2>1. wire = [i \in 1..ReqSize |-> wire[i]]
    BY <1>1, <1>2
  <2> QED BY <1>1, <1>2, <2>1 DEF Request
<1> QED BY <1>1, <1>2

\* Whatever blocks, send_request returns with its frame and one byte more for
\* each write that would have, on the wire: nothing less, nothing else.
THEOREM SurplusOnTheWire == Spec => []Surplus
<1> QED BY SendInit, SendStep, SendMeans, PTL DEF Spec

\* The write loop of send_request puts the request on the wire, whole, and one
\* byte too many for each write that would block.
THEOREM RequestsOnTheWire == Spec => [](WireWhole /\ Surplus)
<1> QED BY SendInit, SendStep, SendMeans, PTL DEF Spec

-----------------------------------------------------------------------------
(* The reply.                                                              *)

\* Without a would-block so far, and the types of the reply's variables.
Unblocked == pc # "failed" /\ ~torn /\ wblocks = 0 /\ rblocks = 0

RecvType ==
  /\ pc \in Pcs /\ peer \in {"up", "reset", "closed"} /\ answered \in BOOLEAN
  /\ stream \in Seq(Nat) /\ due \in Seq(Nat) /\ rblocks \in Nat
  /\ r_bytes \in Int /\ want \in Int
  /\ peer # "up" => due = <<>>

LEMMA RecvParts == RecvInv <=> RecvType /\ (Unblocked => Lost \/ Aligned)
BY DEF RecvInv, RecvType, Unblocked

LEMMA RecvInit == Init => RecvInv
<1> SUFFICES ASSUME Init PROVE RecvInv
  OBVIOUS
<1>1. Aligned
  BY DEF Init, Aligned, Standing, InRead
<1>2. RecvType
  <2>1. answered \in BOOLEAN
    BY DEF Init
  <2>2. /\ pc = "idle" /\ peer = "up" /\ stream = <<>> /\ due = <<>>
        /\ rblocks = 0 /\ r_bytes = 0 /\ want = 0
    BY DEF Init
  <2> QED BY <2>1, <2>2 DEF RecvType, Pcs
<1> QED BY <1>1, <1>2, RecvParts

\* The sending half leaves the reply alone, but for a new exchange.
LEMMA RecvSend ==
  ASSUME RecvInv, SendInv, Send
  PROVE  RecvInv'
<1>1. CASE Begin
  <2>1. RecvType'
    BY <1>1 DEF Begin, RecvInv, RecvType, Pcs
  <2>2. ASSUME Unblocked' PROVE Aligned'
    <3>1. Unblocked /\ pc = "idle" /\ pc' = "write"
      <4>1. pc = "idle" /\ pc' = "write" /\ torn' = (torn \/ wblocks > 0 \/ rblocks > 0)
        BY <1>1 DEF Begin
      <4>2. ~torn /\ ~(wblocks > 0) /\ ~(rblocks > 0)
        BY <4>1, <2>2 DEF Unblocked
      <4>3. wblocks = 0 /\ rblocks = 0
        BY <4>2 DEF SendInv, RecvInv
      <4> QED BY <4>1, <4>2, <4>3 DEF Unblocked
    <3>2. Aligned
      BY <3>1 DEF RecvInv, Unblocked, Lost, InRead
    <3>3. stream' = <<>> /\ due' = <<>>
      BY <3>1, <3>2, <1>1 DEF Begin, Aligned
    <3> QED BY <3>1, <3>3 DEF Aligned, Standing, InRead
  <2> QED BY <2>1, <2>2 DEF RecvInv, RecvType, Unblocked
<1>2. CASE SendFails
  BY <1>2 DEF SendFails, RecvInv, serverVars, Pcs
<1>3. CASE WriteBlocks
  <2>1. RecvType'
    BY <1>3 DEF WriteBlocks, RecvInv, RecvType, serverVars
  <2>2. ~Unblocked'
    BY <1>3 DEF WriteBlocks, SendInv, Unblocked
  <2> QED BY <2>1, <2>2 DEF RecvInv, RecvType, Unblocked
<1>4. CASE SendReturns
  <2>1. RecvType'
    BY <1>4 DEF SendReturns, RecvInv, RecvType, serverVars, Pcs
  <2>2. ASSUME Unblocked' PROVE Aligned'
    <3>1. Unblocked /\ pc = "write" /\ pc' = "poll"
      BY <1>4, <2>2 DEF SendReturns, Unblocked
    <3>2. Aligned
      BY <3>1 DEF RecvInv, Unblocked, Lost, InRead
    <3> QED BY <3>1, <3>2, <1>4 DEF SendReturns, Aligned, Standing, InRead, serverVars
  <2> QED BY <2>1, <2>2 DEF RecvInv, RecvType, Unblocked
<1>5. ASSUME NEW k \in 1..(ReqSize + MaxBlocks), Write(k) PROVE RecvInv'
  <2>1. RecvType'
    BY <1>5 DEF Write, RecvInv, RecvType, serverVars
  <2>2. ASSUME Unblocked' PROVE Aligned'
    <3>1. Unblocked /\ pc = "write" /\ pc' = "write"
      BY <1>5, <2>2 DEF Write, Unblocked
    <3>2. Aligned
      BY <3>1 DEF RecvInv, Unblocked, Lost, InRead
    <3> QED BY <3>1, <3>2, <1>5 DEF Write, Aligned, Standing, InRead, serverVars
  <2> QED BY <2>1, <2>2 DEF RecvInv, RecvType, Unblocked
<1> QED BY <1>1, <1>2, <1>3, <1>4, <1>5 DEF Send

\* A read moves bytes from the stream to the buffer, and the position with
\* them.
LEMMA RecvReads ==
  ASSUME RecvInv, NEW k \in 1..(LenSize + BodySize + MaxBlocks + 1), Read(k)
  PROVE  RecvInv'
<1> DEFINE rest == SubSeq(stream, k + 1, Len(stream))
<1>1. /\ stream \in Seq(Nat) /\ k \in 1..Len(stream) /\ k <= want - r_bytes
      /\ r_bytes \in Int /\ want \in Int /\ r_bytes' = r_bytes + k
      /\ stream' = rest /\ want' = want /\ pc' = pc /\ pc \in {"len", "body"}
      /\ UNCHANGED <<torn, wblocks, rblocks, due, answered, peer, wire>>
  BY DEF Read, InLoop, RecvInv
<1>0. k \in 0..Len(stream) /\ k \in Nat /\ Len(stream) \in Nat
  BY <1>1
<1>2. /\ rest \in Seq(Nat) /\ Len(rest) = Len(stream) - k
      /\ \A i \in 1..(Len(stream) - k) : rest[i] = stream[k + i]
  BY <1>0, <1>1, Rest
<1> HIDE DEF rest
<1>3. RecvType'
  BY <1>1, <1>2 DEF RecvInv, RecvType
<1>4. ASSUME Unblocked' PROVE Aligned'
  <2>1. Unblocked
    BY <1>1, <1>4 DEF Unblocked
  <2>2. Aligned
    BY <2>1, <1>1 DEF RecvInv, Unblocked, Lost
  <2>3. \A j \in Offsets : buf'[j] = IF j \in r_bytes + 1 .. r_bytes + k
                                      THEN stream[j - r_bytes] ELSE buf[j]
    BY DEF Read
  <2>4. r_bytes \in Nat /\ Standing' = Standing + k /\ Standing \in Nat
    BY <1>1, <2>2 DEF Standing, Aligned
  <2>5. \A i \in 1..Len(stream') : stream'[i] = Standing' + i
    <3> SUFFICES ASSUME NEW i \in 1..Len(stream') PROVE stream'[i] = Standing' + i
      OBVIOUS
    <3>1. i \in 1..(Len(stream) - k) /\ k + i \in 1..Len(stream) /\ Len(stream) \in Nat
      BY <1>0, <1>1, <1>2, SMTT(30)
    <3>2. stream'[i] = stream[k + i]
      BY <3>1, <1>1, <1>2
    <3>3. stream[k + i] = Standing + (k + i)
      BY <3>1, <2>2 DEF Aligned
    <3> QED BY <3>1, <3>2, <3>3, <2>4
  <2>6. \A i \in 1..Len(due') : due'[i] = Standing' + Len(stream') + i
    <3>1. Standing' + Len(stream') = Standing + Len(stream)
      BY <1>0, <1>1, <1>2, <2>4
    <3> QED BY <3>1, <1>1, <2>2 DEF Aligned
  <2>7. Standing' + Len(stream') + Len(due') <= LenSize + BodySize
    BY <1>0, <1>1, <1>2, <2>2, <2>4 DEF Aligned
  <2>8. answered /\ stream # <<>>
    BY <1>1, <2>2 DEF Aligned
  <2>9. CASE pc = "len"
    <3>1. want = LenSize /\ r_bytes' \in 0..LenSize /\ Standing = r_bytes
      BY <1>1, <2>2, <2>4, <2>9 DEF Aligned, Standing
    <3>2. ASSUME NEW i \in 1..r_bytes' PROVE buf'[i] = i
      <4>1. i \in Offsets
        BY <3>1, <1>1 DEF Offsets
      <4>2. CASE i \in 1..r_bytes
        BY <4>1, <4>2, <2>3, <2>2, <2>9, <2>4 DEF Aligned
      <4>3. CASE i \in r_bytes + 1 .. r_bytes + k
        <5>1. i - r_bytes \in 1..Len(stream) /\ r_bytes + (i - r_bytes) = i
          BY <4>3, <1>1, <2>4
        <5>2. stream[i - r_bytes] = Standing + (i - r_bytes)
          BY <5>1, <2>2 DEF Aligned
        <5> QED BY <5>1, <5>2, <4>1, <4>3, <2>3, <3>1
      <4> QED BY <4>2, <4>3, <1>1, <2>4
    <3> QED BY <3>1, <3>2, <2>9, <2>8, <2>5, <2>6, <2>7, <1>1 DEF Aligned, InRead
  <2>10. CASE pc = "body"
    <3>1. want = BodySize /\ r_bytes' \in 0..BodySize /\ Standing = LenSize + r_bytes
      BY <1>1, <2>2, <2>4, <2>10 DEF Aligned, Standing
    <3>2. ASSUME NEW i \in 1..r_bytes' PROVE buf'[i] = LenSize + i
      <4>1. i \in Offsets
        BY <3>1, <1>1 DEF Offsets
      <4>2. CASE i \in 1..r_bytes
        BY <4>1, <4>2, <2>3, <2>2, <2>10, <2>4 DEF Aligned
      <4>3. CASE i \in r_bytes + 1 .. r_bytes + k
        <5>1. i - r_bytes \in 1..Len(stream) /\ LenSize + r_bytes + (i - r_bytes) = LenSize + i
          BY <4>3, <1>1, <2>4
        <5>2. stream[i - r_bytes] = Standing + (i - r_bytes)
          BY <5>1, <2>2 DEF Aligned
        <5> QED BY <5>1, <5>2, <4>1, <4>3, <2>3, <3>1
      <4> QED BY <4>2, <4>3, <1>1, <2>4
    <3> QED BY <3>1, <3>2, <2>10, <2>8, <2>5, <2>6, <2>7, <1>1 DEF Aligned, InRead
  <2> QED BY <1>1, <2>9, <2>10
<1> QED BY <1>3, <1>4, RecvParts DEF RecvInv, RecvType, Unblocked, Lost

\* The other steps of the reader.
LEMMA RecvOthers ==
  ASSUME RecvInv, SendInv, Receive, ~\E k \in 1..(LenSize + BodySize + MaxBlocks + 1) : Read(k)
  PROVE  RecvInv'
<1>1. CASE Poll
  <2>1. /\ pc = "poll" /\ pc' = "len" /\ r_bytes' = 0 /\ want' = LenSize
        /\ stream # <<>> \/ peer # "up"
        /\ UNCHANGED <<wire, wblocks, rblocks, torn, stream, due, answered, peer>>
    BY <1>1 DEF Poll, ReadSocket, serverVars
  <2>2. RecvType'
    BY <2>1 DEF RecvInv, RecvType, Pcs
  <2>3. ASSUME Unblocked' PROVE Aligned'
    <3>1. Unblocked
      BY <2>1, <2>3 DEF Unblocked
    <3>2. Aligned
      BY <3>1, <2>1 DEF RecvInv, Unblocked, Lost, InRead
    <3>3. answered \/ peer # "up"
      BY <2>1, <3>2 DEF Aligned
    <3> QED BY <2>1, <3>2, <3>3 DEF Aligned, Standing, InRead
  <2> QED BY <2>2, <2>3, RecvParts DEF RecvInv, RecvType, Unblocked, Lost
<1>2. CASE TimeOut
  BY <1>2 DEF TimeOut, RecvInv, serverVars, Pcs
<1>3. CASE ReadBlocks
  <2>1. RecvType'
    BY <1>3 DEF ReadBlocks, RecvInv, RecvType, serverVars
  <2>2. ~Unblocked'
    BY <1>3 DEF ReadBlocks, RecvInv, Unblocked
  <2> QED BY <2>1, <2>2 DEF RecvInv, RecvType, Unblocked
<1>4. CASE ReadError
  <2>1. RecvType'
    BY <1>4 DEF ReadError, RecvInv, RecvType
  <2>2. due = <<>> /\ due' = <<>> /\ stream' = <<>> /\ peer' = "closed"
    BY <1>4 DEF ReadError, RecvInv
  <2>3. Lost'
    <3>1. pc' = pc /\ want' = want /\ r_bytes' = r_bytes - 1
          /\ pc \in {"len", "body"} /\ r_bytes < want
      BY <1>4 DEF ReadError, InLoop
    <3> QED BY <2>2, <3>1 DEF Lost, InRead, RecvInv
  <2> QED BY <2>1, <2>3 DEF RecvInv, RecvType
<1>5. CASE ReadEof
  BY <1>5 DEF ReadEof, RecvInv, serverVars, Pcs
<1>6. ASSUME NEW len \in -1 .. BodySize, ReadLen(len) PROVE RecvInv'
  <2>1. /\ pc = "len" /\ r_bytes >= want /\ Decoded(len)
        /\ pc' = "body" /\ r_bytes' = 0 /\ want' = len
        /\ UNCHANGED <<wire, wblocks, rblocks, torn, stream, due, answered, peer>>
    BY <1>6 DEF ReadLen, ReadSocket, serverVars
  <2>2. RecvType'
    BY <2>1 DEF RecvInv, RecvType, Pcs
  <2>3. ASSUME Unblocked' PROVE Aligned'
    <3>1. Unblocked
      BY <2>1, <2>3 DEF Unblocked
    <3>2. Aligned
      BY <3>1, <2>1 DEF RecvInv, Unblocked, Lost, InRead
    <3>3. r_bytes = LenSize /\ want = LenSize /\ answered /\ Standing = LenSize
      BY <2>1, <3>2 DEF Aligned, Standing
    <3>4. want' = BodySize
      BY <2>1, <3>2, <3>3 DEF Aligned, Decoded
    <3>5. Standing' = LenSize
      BY <2>1 DEF Standing
    <3> QED BY <2>1, <3>2, <3>3, <3>4, <3>5 DEF Aligned, InRead
  <2> QED BY <2>2, <2>3, RecvParts DEF RecvInv, RecvType, Unblocked, Lost
<1>7. CASE ReadBody
  <2>1. /\ pc = "body" /\ r_bytes >= want /\ pc' = "got"
        /\ UNCHANGED <<r_bytes, want, buf, wire, wblocks, rblocks, torn, stream, due, answered, peer>>
    BY <1>7 DEF ReadBody, serverVars
  <2>2. RecvType'
    BY <2>1 DEF RecvInv, RecvType, Pcs
  <2>3. ASSUME Unblocked' PROVE Aligned'
    <3>1. Unblocked
      BY <2>1, <2>3 DEF Unblocked
    <3>2. Aligned
      BY <3>1, <2>1 DEF RecvInv, Unblocked, Lost, InRead
    <3>3. r_bytes = BodySize /\ want = BodySize /\ answered /\ Standing = LenSize + BodySize
      BY <2>1, <3>2 DEF Aligned, Standing
    <3>4. Len(stream) \in Nat /\ Len(due) \in Nat /\ stream \in Seq(Nat) /\ due \in Seq(Nat)
      BY DEF RecvInv
    <3>5. Len(stream) = 0 /\ Len(due) = 0
      BY <3>2, <3>3, <3>4 DEF Aligned
    <3>6. stream = <<>> /\ due = <<>>
      BY <3>4, <3>5
    <3>7. Standing' = 0
      BY <2>1 DEF Standing
    <3>8. \A i \in 1..r_bytes : buf[i] = LenSize + i
      BY <3>2, <2>1 DEF Aligned
    <3> QED BY <2>1, <3>3, <3>6, <3>7, <3>8 DEF Aligned, InRead
  <2> QED BY <2>2, <2>3, RecvParts DEF RecvInv, RecvType, Unblocked, Lost
<1>8. CASE Return
  <2>1. /\ pc = "got" /\ pc' = "idle"
        /\ UNCHANGED <<r_bytes, want, buf, wire, wblocks, rblocks, torn, stream, due, answered, peer>>
    BY <1>8 DEF Return, serverVars
  <2>2. RecvType'
    BY <2>1 DEF RecvInv, RecvType, Pcs
  <2>3. ASSUME Unblocked' PROVE Aligned'
    <3>1. Unblocked
      BY <2>1, <2>3 DEF Unblocked
    <3>2. Aligned
      BY <3>1, <2>1 DEF RecvInv, Unblocked, Lost, InRead
    <3> QED BY <2>1, <3>2 DEF Aligned, Standing, InRead
  <2> QED BY <2>2, <2>3, RecvParts DEF RecvInv, RecvType, Unblocked, Lost
<1> QED BY <1>1, <1>2, <1>3, <1>4, <1>5, <1>6, <1>7, <1>8 DEF Receive, ReadLoop

\* The server: its answer takes up where the reader stands, at the start.
LEMMA RecvServer ==
  ASSUME RecvInv, SendInv, Server
  PROVE  RecvInv'
<1>1. CASE ServerAnswers
  <2>1. /\ peer = "up" /\ ~answered /\ Len(wire) >= ReqSize
        /\ due' = due \o Answer
        /\ UNCHANGED <<pc, r_bytes, want, buf, wblocks, rblocks, torn, wire, stream, peer>>
    BY <1>1 DEF ServerAnswers, clientVars
  <2>0. answered' = TRUE
    BY <1>1 DEF ServerAnswers
  <2>2. due' \in Seq(Nat)
    BY <2>1, FrameFacts, Glued DEF RecvInv
  <2>3. RecvType'
    <3>1. answered' \in BOOLEAN
      BY <2>0
    <3> QED BY <2>1, <2>2, <3>1 DEF RecvInv, RecvType
  <2>4. ASSUME Unblocked' PROVE Aligned'
    <3>1. Unblocked
      BY <2>1, <2>4 DEF Unblocked
    <3>2. Aligned
      BY <3>1, <2>1 DEF RecvInv, Unblocked, Lost
    <3>3. stream = <<>> /\ due = <<>> /\ pc \notin {"body", "got"}
      BY <3>2, <2>1 DEF Aligned
    <3>4. pc \in {"write", "poll"}
      <4>1. pc # "idle"
        BY <3>2, <2>1 DEF Aligned
      <4>2. pc # "len"
        BY <3>2, <2>1 DEF Aligned
      <4> QED BY <3>1, <3>3, <4>1, <4>2 DEF RecvInv, Pcs, Unblocked
    <3>5. due' = Answer
      BY <2>1, <3>3, FrameFacts
    <3>6. Standing' = 0 /\ Len(stream') = 0
      BY <2>1, <3>3, <3>4 DEF Standing
    <3>7. /\ \A i \in 1..Len(due') : due'[i] = Standing' + Len(stream') + i
          /\ Standing' + Len(stream') + Len(due') <= LenSize + BodySize
      BY <3>5, <3>6, FrameFacts
    <3> QED BY <2>0, <2>1, <3>3, <3>4, <3>6, <3>7 DEF Aligned, InRead
  <2> QED BY <2>3, <2>4, RecvParts DEF RecvInv, RecvType, Unblocked, Lost
<1>2. ASSUME NEW k \in 1..(LenSize + BodySize), Arrive(k) PROVE RecvInv'
  <2> DEFINE first == SubSeq(due, 1, k)
             rest  == SubSeq(due, k + 1, Len(due))
  <2>1. /\ k \in 1..Len(due) /\ stream' = stream \o first /\ due' = rest
        /\ UNCHANGED <<pc, r_bytes, want, buf, wblocks, rblocks, torn, wire, answered, peer>>
        /\ stream \in Seq(Nat) /\ due \in Seq(Nat)
    BY <1>2 DEF Arrive, clientVars, RecvInv
  <2>2. k \in 0..Len(due) /\ k \in Nat /\ Len(due) \in Nat /\ Len(stream) \in Nat
    BY <2>1
  <2>3. /\ first \in Seq(Nat) /\ Len(first) = k
        /\ \A i \in 1..k : first[i] = due[i]
    BY <2>1, <2>2, Front
  <2>4. /\ rest \in Seq(Nat) /\ Len(rest) = Len(due) - k
        /\ \A i \in 1..(Len(due) - k) : rest[i] = due[k + i]
    BY <2>1, <2>2, Rest
  <2> HIDE DEF first, rest
  <2>5. /\ stream' \in Seq(Nat) /\ Len(stream') = Len(stream) + k
        /\ \A i \in 1..Len(stream) : stream'[i] = stream[i]
        /\ \A i \in Len(stream) + 1 .. Len(stream) + k : stream'[i] = first[i - Len(stream)]
    <3>1. /\ stream \o first \in Seq(Nat) /\ Len(stream \o first) = Len(stream) + Len(first)
          /\ \A i \in 1..Len(stream) : (stream \o first)[i] = stream[i]
          /\ \A i \in Len(stream) + 1 .. Len(stream) + Len(first) :
               (stream \o first)[i] = first[i - Len(stream)]
      BY <2>1, <2>3, Glued
    <3> QED BY <3>1, <2>1, <2>3
  <2>6. due # <<>> /\ peer = "up"
    BY <2>1, <2>2 DEF RecvInv
  <2>7. RecvType'
    BY <2>1, <2>4, <2>5, <2>6 DEF RecvInv, RecvType
  <2>8. ASSUME Unblocked' PROVE Aligned'
    <3>1. Unblocked
      BY <2>1, <2>8 DEF Unblocked
    <3>2. Aligned
      BY <3>1, <2>6 DEF RecvInv, Unblocked, Lost
    <3>3. Standing' = Standing /\ Standing \in Nat
      BY <2>1, <3>2, SMTT(30) DEF Standing, Aligned
    <3>4. answered /\ pc \notin {"idle", "got"}
      BY <2>6, <3>2 DEF Aligned
    <3>5. \A i \in 1..Len(stream') : stream'[i] = Standing' + i
      <4> SUFFICES ASSUME NEW i \in 1..Len(stream') PROVE stream'[i] = Standing + i
        BY <3>3
      <4>1. CASE i \in 1..Len(stream)
        BY <4>1, <2>5, <3>2 DEF Aligned
      <4>2. CASE i \in Len(stream) + 1 .. Len(stream) + k
        <5>1. i - Len(stream) \in 1..k /\ i - Len(stream) \in 1..Len(due)
              /\ Standing + Len(stream) + (i - Len(stream)) = Standing + i
          BY <4>2, <2>1, <2>2, <3>3
        <5>2. due[i - Len(stream)] = Standing + Len(stream) + (i - Len(stream))
          BY <5>1, <3>2 DEF Aligned
        <5> QED BY <5>1, <5>2, <4>2, <2>3, <2>5
      <4>3. i \in 1..(Len(stream) + k)
        BY <2>5
      <4> QED BY <4>1, <4>2, <4>3, <2>2
    <3>6. \A i \in 1..Len(due') : due'[i] = Standing' + Len(stream') + i
      <4> SUFFICES ASSUME NEW i \in 1..Len(due') PROVE due'[i] = Standing' + Len(stream') + i
        OBVIOUS
      <4>1. i \in 1..(Len(due) - k) /\ k + i \in 1..Len(due)
        BY <2>1, <2>2, <2>4
      <4>2. due'[i] = due[k + i]
        BY <4>1, <2>1, <2>4
      <4>3. due[k + i] = Standing + Len(stream) + (k + i)
        BY <4>1, <3>2 DEF Aligned
      <4>4. Standing' + Len(stream') + i = Standing + Len(stream) + (k + i)
        BY <4>1, <3>3, <2>2, <2>5
      <4> QED BY <4>2, <4>3, <4>4
    <3>7. Standing' + Len(stream') + Len(due') <= LenSize + BodySize
      BY <3>2, <3>3, <2>1, <2>2, <2>4, <2>5 DEF Aligned
    <3> QED BY <2>1, <3>2, <3>4, <3>5, <3>6, <3>7 DEF Aligned, InRead
  <2> QED BY <2>7, <2>8, RecvParts DEF RecvInv, RecvType, Unblocked, Lost
<1>3. CASE HangUp
  <2>1. /\ peer = "up" /\ peer' \in {"reset", "closed"} /\ due' = <<>>
        /\ UNCHANGED <<pc, r_bytes, want, buf, wblocks, rblocks, torn, wire, stream, answered>>
    BY <1>3 DEF HangUp, clientVars
  <2>2. RecvType'
    BY <2>1 DEF RecvInv, RecvType
  <2>3. ASSUME Unblocked' PROVE Aligned'
    <3>1. Unblocked
      BY <2>1, <2>3 DEF Unblocked
    <3>2. Aligned
      BY <3>1, <2>1 DEF RecvInv, Unblocked, Lost
    <3>3. Standing' = Standing /\ Len(due') = 0 /\ Len(due) \in Nat /\ Len(stream) \in Nat
          /\ Standing \in Int
      BY <2>1, <3>2 DEF Standing, RecvInv
    <3>4. Standing' + Len(stream') + Len(due') <= LenSize + BodySize
      BY <2>1, <3>2, <3>3 DEF Aligned
    <3> QED BY <2>1, <3>2, <3>3, <3>4 DEF Aligned, InRead
  <2> QED BY <2>2, <2>3, RecvParts DEF RecvInv, RecvType, Unblocked, Lost
<1> QED BY <1>1, <1>2, <1>3 DEF Server

LEMMA RecvStep == SendInv /\ RecvInv /\ [Next]_vars => RecvInv'
<1> SUFFICES ASSUME SendInv, RecvInv, [Next]_vars PROVE RecvInv'
  OBVIOUS
<1>1. CASE UNCHANGED vars
  BY <1>1 DEF vars, clientVars, serverVars, RecvInv, Lost, Aligned, Standing, InRead
<1> QED BY <1>1, RecvSend, RecvReads, RecvOthers, RecvServer DEF Next

LEMMA RecvMeans == RecvInv => ReplyWhole
BY DEF RecvInv, ReplyWhole, Lost, Aligned, InRead

\* The two calls of read_socket in recv_response put a reply together again,
\* however it is cut, as long as no read or write would block.
THEOREM RepliesWhole == Spec => []ReplyWhole
<1> QED BY SendInit, SendStep, RecvInit, RecvStep, RecvMeans, PTL DEF Spec

-----------------------------------------------------------------------------
(* The counters of the two loops.                                          *)

\* Why an offset goes no further back than the would-blocks of its loop, and
\* that of read_socket one byte more: the error that is pending on a socket is
\* read once, and a new call of read_socket starts at 0, after one that ended
\* with what it asked for, or with a length of -1.
Counted ==
  /\ pc \in Pcs /\ n \in 0..MaxExchanges
  /\ wblocks \in 0..MaxBlocks /\ rblocks \in 0..MaxBlocks
  /\ w_bytes \in -wblocks .. ReqSize
  /\ r_bytes \in -rblocks - 1 .. LenSize + BodySize
  /\ want \in -1 .. LenSize + BodySize
  /\ InRead /\ peer # "closed" => r_bytes >= -rblocks
  /\ pc \in {"idle", "got"} => r_bytes >= -1
  /\ pc \in {"write", "poll"} => r_bytes >= -1

LEMMA CountedInit == Init => Counted
BY DEF Init, Counted, Pcs, InRead

LEMMA CountedStep == Counted /\ [Next]_vars => Counted'
<1> SUFFICES ASSUME Counted, [Next]_vars PROVE Counted'
  OBVIOUS
<1>1. CASE Begin
  BY <1>1 DEF Begin, Counted, InRead, Pcs
<1>2. CASE SendFails \/ SendReturns \/ TimeOut \/ ReadEof
  BY <1>2 DEF SendFails, SendReturns, TimeOut, ReadEof, serverVars, Counted, InRead, Pcs
<1>3. CASE WriteBlocks
  BY <1>3 DEF WriteBlocks, serverVars, Counted, InRead, Pcs
<1>4. ASSUME NEW k \in 1..(ReqSize + MaxBlocks), Write(k) PROVE Counted'
  BY <1>4 DEF Write, serverVars, Counted, InRead
<1>5. CASE Poll
  BY <1>5 DEF Poll, ReadSocket, serverVars, Counted, InRead, Pcs
<1>6. ASSUME NEW k \in 1..(LenSize + BodySize + MaxBlocks + 1), Read(k) PROVE Counted'
  BY <1>6 DEF Read, InLoop, Counted, InRead
<1>7. CASE ReadBlocks
  BY <1>7 DEF ReadBlocks, InLoop, serverVars, Counted, InRead
<1>8. CASE ReadError
  BY <1>8 DEF ReadError, InLoop, Counted, InRead
<1>9. ASSUME NEW len \in -1 .. BodySize, ReadLen(len) PROVE Counted'
  BY <1>9 DEF ReadLen, ReadSocket, serverVars, Counted, InRead, Pcs
<1>10. CASE ReadBody \/ Return
  BY <1>10 DEF ReadBody, Return, serverVars, Counted, InRead, Pcs
<1>11. CASE Server
  BY <1>11 DEF Server, ServerAnswers, Arrive, HangUp, clientVars, Counted, InRead
<1>12. CASE UNCHANGED vars
  BY <1>12 DEF vars, clientVars, serverVars, Counted, InRead
<1> QED
  BY <1>1, <1>2, <1>3, <1>4, <1>5, <1>6, <1>7, <1>8, <1>9, <1>10, <1>11, <1>12
     DEF Next, Send, Receive, ReadLoop

Marked == torn \in BOOLEAN

LEMMA MarkedInit == Init => Marked
BY DEF Init, Marked

LEMMA MarkedStep == Marked /\ [Next]_vars => Marked'
<1>1. [Next]_vars => torn' = torn \/ torn' = (torn \/ wblocks > 0 \/ rblocks > 0)
  BY DEF Next, Send, Receive, ReadLoop, Server, Begin, SendFails, SendReturns, TimeOut,
         ReadEof, WriteBlocks, Write, Poll, ReadSocket, Read, ReadBlocks, ReadError, ReadLen,
         ReadBody, Return, ServerAnswers, Arrive, HangUp, clientVars, vars
<1>2. torn' = (torn \/ wblocks > 0 \/ rblocks > 0) => torn' \in BOOLEAN
  BY Zenon
<1> QED BY <1>1, <1>2, Zenon DEF Marked

LEMMA CountersMean == SendInv /\ RecvInv /\ Counted /\ Marked => TypeOK
BY DEF SendInv, RecvInv, Counted, Marked, TypeOK

\* The two loops keep their counters in bounds: neither runs past its frame, and
\* a counter falls below zero at most by what was taken back, one for each write
\* of send_request that would block, one for each such read of read_socket and
\* one for an error.
THEOREM CountersInBounds == Spec => []TypeOK
<1> QED BY SendInit, SendStep, RecvInit, RecvStep, CountedInit, CountedStep,
           MarkedInit, MarkedStep, CountersMean, PTL DEF Spec
=============================================================================
