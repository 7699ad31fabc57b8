------------------------------ MODULE Records ------------------------------
(***************************************************************************)
(* Records written to an archive and read from one, a field at a time, and *)
(* what the calls of request.c make of the outcome.  A bare record is      *)
(* written and read back.  A reply is written by the server: a header and, *)
(* unless the header has an error, the record that answers some call; the  *)
(* client decodes it as the answer to the call it made, which can be       *)
(* another one, since it compares no xid.  What arrives may be short, and  *)
(* its length may be negative.                                             *)
(***************************************************************************)
EXTENDS Archive, Jute, FiniteSets
LOCAL INSTANCE SequencesExt

CONSTANTS
  Exchanges,   \* records [op, written, wanted]: a call and two schemas
  Ints, Longs, \* the values of the fields
  Strings,     \* contents of strings and buffers
  Counts,      \* lengths of vectors
  Cuts,        \* by how much the length of a frame may fall short
  MaxNulls     \* Bound: NULL strings in a record

\* The fields of a schema.
Fields(schema) == {schema[i] : i \in DOMAIN schema}

\* The values have the types of their fields, and the length of a string or
\* buffer is an int.  The end of a vector is in no schema: it follows from the
\* vector.  A bare record is read as what it is.
ASSUME RecordsAssumption ==
  /\ Strings \subseteq Seq(0 .. Base - 1) /\ Null \notin Strings
  /\ Ints \cup Counts \cup {Len(s) : s \in Strings} \cup {-1} \subseteq IntsOf(IntSize)
  /\ Longs \subseteq IntsOf(LongSize)
  /\ Cuts \subseteq Nat
  /\ \A x \in Exchanges :
       /\ x.wanted \in Seq(Fields(x.wanted))
       /\ \A f \in Fields(x.wanted) : f.kind # "end"
       /\ x.op = "record" => x.written = x.wanted

VARIABLES
  phase,       \* "idle", "write", "read" or "done"
  op,          \* the call
  todo,        \* the fields to write or to read
  wanted,      \* the schema to read
  sent,        \* the values written
  trail,       \* history: the points between two fields that were written
  content,     \* of a string or buffer whose length is written; Null: none
  cut,         \* by how much the length of the frame falls short
  missed,      \* some field could not be read
  result       \* what the call returns

driver == <<phase, op, todo, wanted, sent, trail, content, cut, missed, result>>
vars == <<outVars, inVars, rc, driver>>

\* The end of a vector, and the point after a reply's header.
VectorEnd     == Field("end")
HeaderEnd     == Field("reply")
Reply(schema) == ReplyHeader \o <<HeaderEnd>> \o schema

Copies(n, schema) == FlattenSeq([i \in 1..n |-> schema])

\* A point of the record: the fields that follow, and the values and the
\* number of the bytes that come before it.
Point(fields, values, bytes) == [todo |-> fields, sent |-> values, to |-> bytes]

\* Between two points there is a NULL string.
IsNull(p, q) ==
  p.todo # <<>> /\ Head(p.todo).kind = "string" /\ q.sent = Append(p.sent, Null)

Init ==
  /\ NewBlock
  /\ frame = <<>> /\ size = 0 /\ pos = 0 /\ got = <<>> /\ rc = "OK"
  /\ phase = "idle" /\ op = "record" /\ todo = <<>> /\ wanted = <<>>
  /\ sent = <<>> /\ trail = <<>> /\ content = Null /\ cut = 0 /\ missed = FALSE /\ result = "none"

\* A call creates its out-archive.
Begin(x) ==
  /\ phase = "idle"
  /\ phase' = "write"
  /\ op' = x.op /\ todo' = x.written /\ wanted' = x.wanted
  /\ trail' = <<Point(x.written, <<>>, 0)>>
  /\ UNCHANGED <<outVars, inVars, rc, sent, content, cut, missed, result>>

-----------------------------------------------------------------------------
(* Serializing.                                                            *)

Field1(kind) == todo # <<>> /\ Head(todo).kind = kind

Writing(kind) == phase = "write" /\ rc = "OK" /\ content = Null /\ Field1(kind)

\* The NULL strings that were written, by the points before them.
Nulls == {j \in 1..Len(trail) - 1 : IsNull(trail[j], trail[j + 1])}

\* A field, or its length, is on its way into the archive.
Written(value, body, more) ==
  /\ ignored' = (value = Null /\ Head(todo).kind = "string")
  /\ sent' = Append(sent, value)
  /\ content' = body
  /\ todo' = more \o Tail(todo)
  /\ trail' = Append(trail, Point(todo', sent', off + Len(piece') +
                                   IF body = Null THEN 0 ELSE Len(body)))
  /\ UNCHANGED <<phase, op, wanted, cut, missed, result, rc, inVars>>

WriteInt  == Writing("int")  /\ \E n \in Ints : PutInt(n) /\ Written(n, Null, <<>>)
WriteLong == Writing("long") /\ \E n \in Longs : PutLong(n) /\ Written(n, Null, <<>>)
WriteBool == Writing("bool") /\ \E n \in {0, 1} : PutBool(n) /\ Written(n, Null, <<>>)

\* A NULL string has the length of a NULL buffer, whose status is ignored.
WriteString ==
  /\ Writing("string")
  /\ \/ Cardinality(Nulls) < MaxNulls /\ PutInt(-1) /\ Written(Null, Null, <<>>)
     \/ \E s \in Strings : PutInt(Len(s)) /\ Written(s, s, <<>>)

WriteBuffer ==
  /\ Writing("buffer")
  /\ \/ PutInt(-1) /\ Written(Null, Null, <<>>)
     \/ \E s \in Strings : PutInt(Len(s)) /\ Written(s, s, <<>>)

WriteContent ==
  /\ phase = "write" /\ rc = "OK" /\ content # Null
  /\ Put(content)
  /\ content' = Null
  /\ UNCHANGED <<phase, op, todo, wanted, sent, trail, cut, missed, result, ignored, rc, inVars>>

WriteVector ==
  /\ Writing("vector")
  /\ \E n \in Counts :
       PutInt(n) /\ Written(n, Null, Copies(n, Head(todo).of) \o <<VectorEnd>>)

\* out->end_vector: nothing is written.
WriteEnd ==
  /\ Writing("end") /\ at = "ready"
  /\ todo' = Tail(todo)
  /\ trail' = Append(trail, Point(todo', sent, off))
  /\ UNCHANGED <<phase, op, wanted, sent, content, cut, missed, result, rc, outVars, inVars>>

\* The server leaves out the body of a reply with an error.
EndHeader ==
  /\ Writing("reply") /\ at = "ready" /\ op # "record"
  /\ todo' = IF Last(sent) = 0 THEN Tail(todo) ELSE <<>>
  /\ UNCHANGED <<phase, op, wanted, sent, trail, content, cut, missed, result, rc, outVars, inVars>>

\* A field that failed: the ones that follow are skipped, and so is the rest
\* of the call.
GiveUp ==
  /\ phase = "write" /\ rc # "OK"
  /\ phase' = "done" /\ result' = rc
  /\ UNCHANGED <<op, todo, wanted, sent, trail, content, cut, missed, rc, outVars, inVars>>

Complete ==
  phase = "write" /\ rc = "OK" /\ at = "ready" /\ todo = <<>> /\ content = Null

\* memcpy, of a serialize function or of send_request, where there is no block.
CopyNowhere ==
  /\ phase = "write" /\ block = 0
  /\ (at = "copy" /\ ~Somewhere) \/ (Complete /\ off # 0)
  /\ phase' = "done" /\ result' = "no_block" /\ at' = "ready"
  /\ UNCHANGED <<op, todo, wanted, sent, trail, content, cut, missed, rc, inVars,
                 len, off, block, buf, piece, newlen, ignored, lost>>

\* The record is complete and its bytes reach the reader, or as many of them as
\* the length that the reader decodes says.
Deliver(k) ==
  /\ Complete
  /\ block # 0 \/ off = 0
  /\ NewFrame(SubSeq(buf, 1, off - k), off - k)
  /\ phase' = "read" /\ todo' = wanted /\ cut' = k
  /\ UNCHANGED <<op, wanted, sent, trail, content, missed, result, rc, outVars>>

-----------------------------------------------------------------------------
(* Deserializing.                                                          *)

Reading(kind) == phase = "read" /\ rc = "OK" /\ Field1(kind)

\* What a field leaves to read, and whether it was read.
ReadOn(more) ==
  /\ todo' = more \o Tail(todo)
  /\ missed' = (missed \/ rc' # "OK")
  /\ UNCHANGED <<phase, op, wanted, sent, trail, content, cut, result, frame, size, outVars>>

ReadInt    == Reading("int")    /\ GetInt(IntSize)  /\ ReadOn(<<>>)
ReadLong   == Reading("long")   /\ GetInt(LongSize) /\ ReadOn(<<>>)
ReadBool   == Reading("bool")   /\ GetBool          /\ ReadOn(<<>>)
ReadString == Reading("string") /\ GetString        /\ ReadOn(<<>>)
ReadBuffer == Reading("buffer") /\ GetBuffer        /\ ReadOn(<<>>)

ReadVector ==
  /\ Reading("vector")
  /\ GetInt(IntSize)
  /\ ReadOn(IF rc' = "OK" THEN Copies(Last(got'), Head(todo).of) \o <<VectorEnd>>
                          ELSE <<VectorEnd>>)

\* How many bytes a field copies before it looks at any: none for a bool.
Width(kind) == CASE kind = "long" -> LongSize
                 [] kind \in {"int", "string", "buffer", "vector"} -> IntSize
                 [] OTHER -> 0

\* memcpy from outside of the frame, where there is no memory.
ReadOutside ==
  /\ phase = "read" /\ rc = "OK" /\ todo # <<>>
  /\ Width(Head(todo).kind) # 0 /\ Outside(Width(Head(todo).kind))
  /\ missed' = TRUE
  /\ phase' = "done" /\ result' = "no_frame"
  /\ UNCHANGED <<op, todo, wanted, sent, trail, content, cut, rc, outVars, inVars>>

\* Fault: each field overwrites the status of the one before.
SkipForgetting ==
  /\ phase = "read" /\ rc # "OK" /\ todo # <<>>
  /\ rc' = "OK"
  /\ UNCHANGED <<phase, op, todo, wanted, sent, trail, content, cut, missed, result, outVars, inVars>>

\* rc ? rc : ...: after an error no field is read up to the end of the
\* vector, the header or the record.
Skip ==
  /\ phase = "read" /\ rc # "OK"
  /\ todo # <<>> /\ ~Field1("end") /\ ~Field1("reply")
  /\ \E k \in 1..Len(todo) + 1 :
       /\ \A i \in 1..(k - 1) : todo[i].kind \notin {"end", "reply"}
       /\ k <= Len(todo) => todo[k].kind \in {"end", "reply"}
       /\ todo' = SubSeq(todo, k, Len(todo))
  /\ UNCHANGED <<phase, op, wanted, sent, trail, content, cut, missed, result, rc, outVars, inVars>>

\* rc = in->end_vector(in, tag): what went wrong in the vector is forgotten.
EndVector ==
  /\ phase = "read" /\ Field1("end")
  /\ rc' = "OK"
  /\ todo' = Tail(todo)
  /\ UNCHANGED <<phase, op, wanted, sent, trail, content, cut, missed, result, outVars, inVars>>

Return(value) ==
  /\ phase' = "done" /\ result' = value
  /\ UNCHANGED <<op, todo, wanted, sent, trail, content, cut, missed, rc, outVars, inVars>>

\* decode_reply_header: the call ends here unless the error is 0.
DecodeReplyHeader ==
  /\ phase = "read" /\ Field1("reply")
  /\ \/ rc # "OK" /\ Return("ZK_ERROR")
     \/ rc = "OK" /\ Last(got) # 0 /\ Return("code")
     \/ /\ rc = "OK" /\ Last(got) = 0
        /\ todo' = Tail(todo)
        /\ UNCHANGED <<phase, op, wanted, sent, trail, content, cut, missed, result, rc, outVars, inVars>>

\* zk_exists and zk_stat do not look at the status of the body, zk_get and
\* zk_get_children return the header's, which is 0.
Blind == {"exists", "get", "get_children"}

\* Fault: zk_create goes by the header alone.
OutcomeOfHeader ==
  IF rc = "OK" \/ op \in Blind \cup {"create"} THEN "OK" ELSE rc

Outcome ==
  IF rc = "OK" \/ op \in Blind THEN "OK"
  ELSE IF op \in {"create", "set"} THEN "ZK_ERROR"
  ELSE rc

Finish == phase = "read" /\ todo = <<>> /\ Return(Outcome)

\* destory_archive, or the next process.
Destroy ==
  /\ phase = "done"
  /\ len' = InitLen /\ off' = 0 /\ block' = InitLen
  /\ buf' = <<>> /\ piece' = <<>> /\ at' = "ready" /\ newlen' = 0 /\ ignored' = FALSE /\ lost' = FALSE
  /\ frame' = <<>> /\ size' = 0 /\ pos' = 0 /\ got' = <<>> /\ rc' = "OK"
  /\ phase' = "idle" /\ op' = "record" /\ todo' = <<>> /\ wanted' = <<>>
  /\ sent' = <<>> /\ trail' = <<>> /\ content' = Null /\ cut' = 0 /\ missed' = FALSE /\ result' = "none"

Grow == (Double \/ Realloc \/ NoMemory \/ Copy) /\ UNCHANGED driver

Serialize ==
  \/ WriteInt \/ WriteLong \/ WriteBool \/ WriteString \/ WriteBuffer
  \/ WriteContent \/ WriteVector \/ WriteEnd \/ EndHeader \/ GiveUp \/ CopyNowhere

Deserialize ==
  \/ ReadInt \/ ReadLong \/ ReadBool \/ ReadString \/ ReadBuffer
  \/ ReadVector \/ ReadOutside \/ Skip \/ EndVector \/ DecodeReplyHeader \/ Finish

Next ==
  \/ \E x \in Exchanges : Begin(x)
  \/ Serialize \/ Grow
  \/ \E k \in Cuts : Deliver(k)
  \/ Deserialize
  \/ Destroy

Spec == Init /\ [][Next]_vars

\* A single thread runs the archive's code: it does not stop in the middle.
FairSpec == Spec /\ WF_vars(Serialize \/ Grow \/ Deserialize \/ \E k \in Cuts : Deliver(k))

-----------------------------------------------------------------------------
(* Properties.                                                             *)

\* Types of the archives and of the status: off stays in the record (the steps
\* of off in the serialize functions).
TypeOK ==
  /\ len \in -IntMax - 1 .. IntMax /\ newlen \in -IntMax - 1 .. IntMax
  /\ off \in 0 .. MaxRecord /\ block \in Nat
  /\ at \in {"ready", "resize", "copy"}
  /\ phase \in {"idle", "write", "read", "done"}
  /\ rc \in {"OK", "E2BIG", "EINVAL", "ENOMEM"}

\* No copy passes the end of the block that realloc returned, whatever the
\* record's fields are (the compare and resize_buffer of every serialize
\* function).  Once the block is lost nothing is copied, unless it was lost for
\* the length of a NULL string: then the next field may be copied to nowhere.
WithinBlock == at = "copy" => off + Len(piece) <= block \/ (lost /\ block = 0)

\* The int arithmetic of resize_buffer does not overflow: neither the length
\* it is asked for nor the one it doubles ever turns negative or 0.
NoOverflow == len >= InitLen /\ newlen >= 0

\* The in-archive does not run past the frame (the compares of the
\* deserialize functions), whatever the frame holds, and the only frame that a
\* field is read outside of is one of a negative length.
WithinFrame == pos \in 0 .. Len(frame) /\ (result = "no_frame" => size < 0)

\* Why the copies are safe.  Where the thread is inside of a serialize
\* function says what is known of the block: between two of them it is as
\* long as len and holds what was written; while it grows, the length it
\* grows to is enough for the piece and at most twice a record.
OutInv ==
  /\ len \in InitLen .. IntMax /\ newlen \in 0 .. IntMax
  /\ block \in Nat /\ off \in 0 .. MaxRecord /\ off <= len
  /\ at \in {"ready", "resize", "copy"}
  /\ at # "ready" =>
       /\ phase = "write" /\ rc = "OK"
       /\ Len(piece) \in Nat /\ off + Len(piece) <= MaxRecord
  /\ phase \in {"idle", "write"} /\ rc = "OK" =>
       /\ block = 0 => lost
       /\ at # "resize" => block \in {0, len}
  /\ at = "copy" => off + Len(piece) <= len
  /\ at = "resize" => newlen \in off + Len(piece) .. 2 * MaxRecord

DriverInv ==
  /\ phase \in {"idle", "write", "read", "done"}
  /\ rc \in {"OK", "E2BIG", "EINVAL", "ENOMEM"}
  /\ content \in Strings \cup {Null}
  /\ phase = "idle" => rc = "OK"
  /\ phase # "done" => result = "none"

FrameInv ==
  /\ size \in Int /\ Len(frame) = IF size < 0 THEN 0 ELSE size
  /\ WithinFrame

\* A bare record that was written, and read until the reader returned or
\* crashed.
WasRead == phase = "done" /\ op = "record" /\ rc # "ENOMEM" /\ ~lost
HasNull == Nulls # {}

\* A record that arrives whole is read back field by field, and to its end:
\* every pair of a serialize and a deserialize function of jute agrees, except
\* on a NULL string.
RoundTrip ==
  WasRead /\ cut = 0 /\ ~HasNull => result = "OK" /\ got = sent /\ pos = Len(frame)

\* A record that arrives short, or with a NULL string, which is no string to the
\* reader, is not taken for a whole one: some field is missed, and only a vector
\* can hide that from the caller.
HasVector == \E i \in DOMAIN wanted : wanted[i].kind = "vector"

ShortNoticed ==
  WasRead /\ (Len(frame) < off \/ HasNull) => missed /\ (result = "OK" => HasVector)

\* A call that is answered with the reply to another call, and says that it
\* succeeded, has read every field of its own reply; except for the calls
\* that ignore the status of the body, and for a vector.
SilentLoss ==
  phase = "done" /\ result = "OK" /\ missed => op \in Blind \/ HasVector

\* Why a loss cannot be silent: what is left to read are fields of the record,
\* and only the end of a vector forgets what went wrong; until then the status
\* says that a field was missed.
MissedInv ==
  /\ wanted \in {x.wanted : x \in Exchanges} \cup {<<>>}
  /\ phase \in {"idle", "write"} => ~missed
  /\ phase = "read" => HasVector \/ (todo \in Seq(Fields(wanted)) /\ (missed => rc # "OK"))
  /\ SilentLoss

\* Why a record is read back.  The bytes between two points of its trail are
\* those of the field that stands there: the writer adds point after point, at
\* the end of what is on its way into the buffer; the reader of the same bytes
\* goes from point to point, up to the first field that it cannot read.
Stream ==
  buf \o (IF at = "ready" THEN <<>> ELSE piece)
      \o (IF content = Null THEN <<>> ELSE content)

Holds(bytes, from, image) ==
  /\ from + Len(image) <= Len(bytes)
  /\ \A i \in 1..Len(image) : bytes[from + i] = image[i]

Spans(bytes, p, q, image, value, more) ==
  /\ q = Point(more \o Tail(p.todo), Append(p.sent, value), p.to + Len(image))
  /\ Holds(bytes, p.to, image)

Follows(bytes, p, q) ==
  /\ p.todo # <<>>
  /\ LET kind == Head(p.todo).kind
         More(n) == Copies(n, Head(p.todo).of) \o <<VectorEnd>>
     IN
       \/ kind = "int"  /\ \E n \in Ints  : Spans(bytes, p, q, Encode(n, IntSize), n, <<>>)
       \/ kind = "long" /\ \E n \in Longs : Spans(bytes, p, q, Encode(n, LongSize), n, <<>>)
       \/ kind = "bool" /\ \E n \in {0, 1} : Spans(bytes, p, q, <<n>>, n, <<>>)
       \/ /\ kind \in {"string", "buffer"}
          /\ \E s \in Strings : Spans(bytes, p, q, Encode(Len(s), IntSize) \o s, s, <<>>)
       \/ /\ kind \in {"string", "buffer"}
          /\ Spans(bytes, p, q, Encode(-1, IntSize), Null, <<>>)
       \/ /\ kind = "vector"
          /\ \E n \in Counts : Spans(bytes, p, q, Encode(n, IntSize), n, More(n))
       \/ kind = "end" /\ q = Point(Tail(p.todo), p.sent, p.to)

IsTrail(t, fields, bytes) ==
  /\ Len(t) \in Nat \ {0} /\ t[1] = Point(fields, <<>>, 0)
  /\ \A k \in 1..Len(t) : Len(t[k].sent) \in Nat /\ t[k].to \in 0..Len(bytes)
  /\ \A k \in 1..Len(t) - 1 : Follows(bytes, t[k], t[k + 1])

\* The reader gets past no NULL string.
Before(k) == \A j \in Nulls : j >= k

BytesInv ==
  /\ buf \in Seq(Int) /\ piece \in Seq(Int)
  /\ phase = "idle" =>
       off = 0 /\ buf = <<>> /\ at = "ready" /\ content = Null /\ sent = <<>>
  /\ phase \in {"idle", "write"} => cut = 0 /\ rc \in {"OK", "ENOMEM"}
  /\ phase = "write" /\ rc = "OK" => Len(buf) = off

WriterInv ==
  phase = "write" /\ rc = "OK" /\ op = "record" /\ ~lost =>
    IsTrail(trail, wanted, Stream) /\ trail[Len(trail)] = Point(todo, sent, Len(Stream))

ReaderInv ==
  phase = "read" /\ op = "record" /\ ~lost =>
    /\ cut \in Nat /\ Len(buf) = off /\ size = off - cut /\ frame = SubSeq(buf, 1, size)
    /\ IsTrail(trail, wanted, buf) /\ trail[Len(trail)] = Point(<<>>, sent, off)
    /\ IF missed THEN cut # 0 \/ HasNull
       ELSE rc = "OK" /\ \E k \in 1..Len(trail) : trail[k] = Point(todo, got, pos) /\ Before(k)

ReturnInv == RoundTrip /\ ShortNoticed

\* A record is written in the end: the loop of resize_buffer stops.
SerializeReturns == [](phase = "write" => <>(phase # "write"))
=============================================================================
