--------------------------------- MODULE Words ---------------------------------
(***************************************************************************)
(* sdssplitlen of util.c, which takes the servers of new_client apart at   *)
(* commas and the line the user typed at spaces: the array of tokens grows *)
(* while the line is scanned, and malloc and realloc may fail.  A token is *)
(* the pair of indices of its first character and of the one past its      *)
(* last.                                                                   *)
(***************************************************************************)
EXTENDS Integers, Sequences

CONSTANT MaxLen   \* Bound: the length of a line

ASSUME WordsAssumption == MaxLen \in Nat

VARIABLES
  len,      \* of the line
  line,     \* "sep" or "char" at each index
  pc,       \* "idle", "loop", "cleanup", "done", "crash"
  j, start, \* of the loop
  tokens,   \* the elements of the array that are set
  slots,    \* its size
  count,    \* what is returned in *count
  heap      \* history: strings that were allocated and not freed

lineVars == <<len, line>>
vars == <<lineVars, pc, j, start, tokens, slots, count, heap>>

NoLine == [i \in 0..-1 |-> "sep"]

Init ==
  /\ len = 0 /\ line = NoLine
  /\ pc = "idle" /\ j = 0 /\ start = 0 /\ tokens = << >> /\ slots = 0
  /\ count = 0 /\ heap = 0

\* sdssplitlen is called, of a line without characters as well.  Without
\* memory for the array it returns NULL and leaves *count alone: narg of main
\* is not initialised or that of the line before, so main skips the line, or
\* takes its command from NULL.
Enter(n, l) ==
  /\ pc = "idle"
  /\ len' = n /\ line' = l
  /\ j' = 0 /\ start' = 0 /\ tokens' = << >> /\ UNCHANGED heap
  /\ \/ slots' = 5 /\ n = 0 /\ count' = 0 /\ pc' = "done"
     \/ slots' = 5 /\ n > 0 /\ pc' = "loop" /\ UNCHANGED count
     \/ slots' = 0 /\ pc' = "crash" /\ UNCHANGED count

\* Fault: room is looked for when the array is already too small.
RoomLate == slots >= Len(tokens)

\* Room for the next element and the final one.
Room == slots >= Len(tokens) + 2

\* realloc gives the array twice the room, or fails.
Grow ==
  /\ pc = "loop" /\ j < len /\ ~Room
  /\ \/ slots' = 2 * slots /\ UNCHANGED pc
     \/ pc' = "cleanup" /\ UNCHANGED slots
  /\ UNCHANGED <<lineVars, j, start, tokens, count, heap>>

\* Fault: two separators in a row give an empty token.
AddEmpty(past) ==
  /\ tokens' = Append(tokens, <<start, past>>) /\ heap' = heap + 1

\* A token that is not empty is copied.
Add(past) ==
  IF past - start > 0
    THEN tokens' = Append(tokens, <<start, past>>) /\ heap' = heap + 1
    ELSE UNCHANGED <<tokens, heap>>

Scan ==
  /\ pc = "loop" /\ j < len /\ Room
  /\ IF line[j] = "sep" THEN Add(j) /\ start' = j + 1
                        ELSE UNCHANGED <<tokens, heap, start>>
  /\ j' = j + 1
  /\ UNCHANGED <<lineVars, pc, slots, count>>

\* The final element.
Last ==
  /\ pc = "loop" /\ j >= len
  /\ Add(len)
  /\ count' = Len(tokens') /\ pc' = "done"
  /\ UNCHANGED <<lineVars, j, start, slots>>

\* Without memory for a token its characters are copied to NULL.
CopyToNull ==
  /\ pc = "loop"
  /\ \/ j < len /\ Room /\ line[j] = "sep" /\ j - start > 0
     \/ j >= len /\ len - start > 0
  /\ pc' = "crash"
  /\ UNCHANGED <<lineVars, j, start, tokens, slots, count, heap>>

\* The frame of the call is gone.
Gone ==
  /\ len' = 0 /\ line' = NoLine /\ pc' = "idle"
  /\ j' = 0 /\ start' = 0 /\ tokens' = << >> /\ slots' = 0 /\ count' = 0

\* Fault: the array is freed, its elements are not.
CleanupArray == pc = "cleanup" /\ Gone /\ UNCHANGED heap

\* Fault: every slot of the array is freed, set or not.
CleanupSlots == pc = "cleanup" /\ Gone /\ heap' = heap - slots

\* The elements and the array are freed; NULL is returned, with no elements.
Cleanup == pc = "cleanup" /\ Gone /\ heap' = heap - Len(tokens)

\* The caller is done with the tokens: sdsfreesplitres.
Free == pc = "done" /\ Gone /\ heap' = heap - count

Next ==
  \/ \E n \in 0..MaxLen : \E l \in [0..(n - 1) -> {"sep", "char"}] : Enter(n, l)
  \/ Grow \/ Scan \/ Last \/ CopyToNull \/ Cleanup \/ Free

Spec == Init /\ [][Next]_vars

-----------------------------------------------------------------------------
(* Properties.                                                             *)

\* Types.
TypeOK ==
  /\ len \in 0..MaxLen /\ line \in [0..(len - 1) -> {"sep", "char"}]
  /\ pc \in {"idle", "loop", "cleanup", "done", "crash"}
  /\ j \in 0..MaxLen /\ start \in 0..MaxLen
  /\ tokens \in Seq(Nat \X Nat)
  /\ slots \in Nat /\ count \in Nat /\ heap \in Nat

\* No token is written past the end of the array: "We are sure there is room
\* in the tokens array", for the final element too, which no check precedes.
InRoom == Len(tokens) <= slots

Word(t) ==
  /\ 0 <= t[1] /\ t[1] < t[2] /\ t[2] <= len
  /\ \A i \in t[1]..(t[2] - 1) : line[i] # "sep"
  /\ t[1] = 0 \/ line[t[1] - 1] = "sep"
  /\ t[2] = len \/ line[t[2]] = "sep"

\* The tokens that are returned are the words of the line, all of them, in
\* order, whatever separators lead, trail or follow one another.
Split ==
  pc = "done" =>
    /\ count = Len(tokens)
    /\ \A k \in 1..Len(tokens) : Word(tokens[k])
    /\ \A k, m \in 1..Len(tokens) : k < m => tokens[k][2] < tokens[m][1]
    /\ \A i \in 0..(len - 1) : line[i] # "sep" =>
         \E k \in 1..Len(tokens) : tokens[k][1] <= i /\ i < tokens[k][2]

\* Every string is freed, once: by the caller, or by the cleanup after a
\* realloc that failed half way through the line.
Freed == heap = Len(tokens)
=============================================================================
