------------------------------ MODULE Archive ------------------------------
(***************************************************************************)
(* The archives of recordio.c.  An out-archive is a block of memory that   *)
(* the serialize functions append to and that resize_buffer doubles, one   *)
(* loop iteration at a time, in C's int arithmetic.  An in-archive is a    *)
(* received frame that the deserialize functions walk through.  Bytes are  *)
(* real ones, of Base values each: an int is IntSize of them, most         *)
(* significant first, in two's complement.                                 *)
(***************************************************************************)
EXTENDS Integers, Sequences

CONSTANTS
  Base,        \* values of a byte
  IntSize,     \* bytes of an int
  LongSize,    \* bytes of a long
  IntMax,      \* the largest C int
  InitLen,     \* what create_buffer_oarchive allocates
  MaxRecord,   \* Bound: bytes of one archive, which a line of input limits
  Junk,        \* what the bytes of a new block may be
  Null         \* a NULL buffer or string

\* Growing to MaxRecord stays in the range of an int, as it does in the code:
\* a line has at most 4095 bytes.
ASSUME ArchiveAssumption ==
  /\ IntMax \in Nat
  /\ InitLen \in 1 .. IntMax
  /\ MaxRecord \in Nat
  /\ 4 * MaxRecord <= IntMax
  /\ Base \in Nat \ {0} /\ IntSize \in Nat \ {0} /\ LongSize \in Nat \ {0}
  /\ Junk \subseteq 0 .. Base - 1

VARIABLES
  len, off,    \* the fields of the out-archive's buff_struct
  block,       \* the size of the memory block at its buffer; 0: none
  buf,         \* the bytes that were copied there
  at,          \* where a serialize function is: "ready" between two of them
  piece,       \* the bytes it is to copy
  newlen,      \* the argument of resize_buffer
  ignored,     \* whether the status of this function is not looked at
  lost,        \* history: the block was lost and nobody was told
  frame,       \* the bytes of the in-archive
  size,        \* its len, which is negative if the reply's length was
  pos,         \* its off
  rc,          \* the status the serialize and deserialize functions pass on
  got          \* the values read

outVars == <<len, off, block, buf, at, piece, newlen, ignored, lost>>
inVars  == <<frame, size, pos, got>>

\* int arithmetic, for results that are off by one turn at most.
Wrap(n) ==
  IF n > IntMax THEN n - 2 * (IntMax + 1)
  ELSE IF n < -IntMax - 1 THEN n + 2 * (IntMax + 1)
  ELSE n

\* The ints of w bytes.
IntsOf(w) ==
  LET half[k \in 0..w] == IF k = 0 THEN Base \div 2 ELSE Base * half[k - 1]
  IN -half[w - 1] .. half[w - 1] - 1

\* Byte by byte from the right: what is left of n once k bytes are gone.
Encode(n, w) ==
  LET rest[k \in 0..w] == IF k = 0 THEN n ELSE rest[k - 1] \div Base
  IN [i \in 1..w |-> rest[w - i] % Base]

\* And back, from the left: the first byte has the sign.
Decode(bytes) ==
  LET value[i \in 0..Len(bytes)] ==
        IF i = 0 THEN (IF bytes[1] >= Base \div 2 THEN -1 ELSE 0)
                 ELSE value[i - 1] * Base + bytes[i]
  IN value[Len(bytes)]

-----------------------------------------------------------------------------
(* The out-archive.                                                        *)

\* Fault: the archive starts with no memory, and twice nothing is nothing.
NewBlockEmpty ==
  /\ len = 0 /\ off = 0 /\ block = 0
  /\ buf = <<>> /\ piece = <<>>
  /\ at = "ready" /\ newlen = 0 /\ ignored = FALSE /\ lost = FALSE

\* create_buffer_oarchive.
NewBlock ==
  /\ len = InitLen /\ off = 0 /\ block = InitLen
  /\ buf = <<>> /\ piece = <<>>
  /\ at = "ready" /\ newlen = 0 /\ ignored = FALSE /\ lost = FALSE

\* Fault: the room is compared off by one.
PutTight(bytes) ==
  /\ at = "ready"
  /\ off + Len(bytes) <= MaxRecord
  /\ piece' = bytes
  /\ IF len - off + 1 < Len(bytes)
       THEN at' = "resize" /\ newlen' = Wrap(len + Len(bytes))
       ELSE at' = "copy" /\ UNCHANGED newlen
  /\ UNCHANGED <<len, off, block, buf, lost>>

\* Fault: the room is not looked at, every field makes the buffer grow.
PutGrowing(bytes) ==
  /\ at = "ready"
  /\ off + Len(bytes) <= MaxRecord
  /\ piece' = bytes
  /\ at' = "resize" /\ newlen' = Wrap(len + Len(bytes))
  /\ UNCHANGED <<len, off, block, buf, lost>>

\* A serialize function, up to its copy: it looks at the room that is left.
Put(bytes) ==
  /\ at = "ready"
  /\ off + Len(bytes) <= MaxRecord
  /\ piece' = bytes
  /\ IF len - off < Len(bytes)
       THEN at' = "resize" /\ newlen' = Wrap(len + Len(bytes))
       ELSE at' = "copy" /\ UNCHANGED newlen
  /\ UNCHANGED <<len, off, block, buf, lost>>

PutInt(n)  == Put(Encode(n, IntSize))
PutLong(n) == Put(Encode(n, LongSize))

\* Fault: a bool goes out as an int, as a comment in the code would have it.
PutBoolAsInt(n) == PutInt(n)

PutBool(n) == Put(<<IF n = 0 THEN 0 ELSE 1>>)

\* An iteration of the loop of resize_buffer.
Double ==
  /\ at = "resize" /\ len < newlen
  /\ len' = Wrap(2 * len)
  /\ UNCHANGED <<off, block, buf, at, piece, newlen, ignored, lost, rc, inVars>>

\* The bytes move to the larger block.  When the block was lost, there are
\* none to move.
Realloc ==
  /\ at = "resize" /\ len >= newlen
  /\ block' = len
  /\ at' = "copy"
  /\ IF block = 0 THEN buf' \in [1..off -> Junk] ELSE UNCHANGED buf
  /\ UNCHANGED <<len, off, piece, newlen, ignored, lost, rc, inVars>>

\* The block is lost; oa_serialize_string does not look at the status of the
\* length that it writes for a NULL string.
NoMemory ==
  /\ at = "resize" /\ len >= newlen
  /\ block' = 0
  /\ at' = "ready"
  /\ rc' = IF ignored THEN rc ELSE "ENOMEM"
  /\ lost' = (lost \/ ignored)
  /\ UNCHANGED <<len, off, buf, piece, newlen, ignored, inVars>>

\* There is memory for the bytes, or there are no bytes.
Somewhere == block # 0 \/ piece = <<>>

\* Fault: off steps back over the bytes.
CopyBackwards ==
  /\ at = "copy" /\ Somewhere
  /\ buf' = SubSeq(buf, 1, off) \o piece
  /\ off' = off - Len(piece)
  /\ at' = "ready"
  /\ UNCHANGED <<len, block, piece, newlen, ignored, lost, rc, inVars>>

\* memcpy, and the step of off.
Copy ==
  /\ at = "copy" /\ Somewhere
  /\ buf' = SubSeq(buf, 1, off) \o piece
  /\ off' = off + Len(piece)
  /\ at' = "ready"
  /\ UNCHANGED <<len, block, piece, newlen, ignored, lost, rc, inVars>>

-----------------------------------------------------------------------------
(* The in-archive.                                                         *)

\* create_buffer_iarchive on the bytes that arrived, and the length that was
\* announced: of a negative length recv_response reads nothing.
NewFrame(bytes, n) ==
  /\ frame' = bytes
  /\ size' = n
  /\ pos' = 0
  /\ got' = <<>>

Left == size - pos
Ahead(n) == SubSeq(frame, pos + 1, pos + n)

\* The compares of ints and longs are with a size_t, where a negative number of
\* bytes left is a huge one: it is not short, and the copy leaves the frame.
Short(n)   == Left \in 0 .. n - 1
Outside(n) == ~Short(n) /\ pos + n > Len(frame)

Fail(err) == rc' = err /\ UNCHANGED got

\* Fault: off steps on before the room is looked at.
GetIntStepping(n) ==
  /\ ~Outside(n)
  /\ pos' = pos + n
  /\ IF Short(n)
       THEN Fail("E2BIG")
       ELSE got' = Append(got, Decode(Ahead(n))) /\ UNCHANGED rc

GetInt(n) ==
  /\ ~Outside(n)
  /\ IF Short(n)
       THEN Fail("E2BIG") /\ UNCHANGED pos
       ELSE /\ got' = Append(got, Decode(Ahead(n)))
            /\ pos' = pos + n
            /\ UNCHANGED rc

\* The compare of a bool is one of ints.
GetBool ==
  IF Left < 1
    THEN Fail("E2BIG") /\ UNCHANGED pos
    ELSE /\ got' = Append(got, frame[pos + 1])
         /\ pos' = pos + 1
         /\ UNCHANGED rc

\* The length in front of a string or buffer, and whether as many bytes follow.
Count == Decode(Ahead(IntSize))

AllThere == Left >= IntSize /\ Left - IntSize >= Count

\* The length is read even if what it counts is cut off.
CutOff ==
  /\ ~AllThere
  /\ Fail("E2BIG")
  /\ pos' = IF Short(IntSize) THEN pos ELSE pos + IntSize

Data(n) ==
  /\ got' = Append(got, SubSeq(frame, pos + IntSize + 1, pos + IntSize + n))
  /\ pos' = pos + IntSize + n
  /\ UNCHANGED rc

GetBuffer ==
  /\ ~Outside(IntSize)
  /\ \/ CutOff
     \/ AllThere /\ Count \in Nat /\ Data(Count)
     \/ /\ AllThere /\ Count = -1
        /\ got' = Append(got, Null)
        /\ pos' = pos + IntSize
        /\ UNCHANGED rc
     \/ AllThere /\ Count < -1 /\ Fail("ENOMEM") /\ pos' = pos + IntSize

GetString ==
  /\ ~Outside(IntSize)
  /\ \/ CutOff
     \/ AllThere /\ Count \in Nat /\ Data(Count)
     \/ AllThere /\ Count < 0 /\ Fail("EINVAL") /\ pos' = pos + IntSize
=============================================================================
