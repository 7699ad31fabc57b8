------------------------------ MODULE LinesProofs ------------------------------
(***************************************************************************)
(* sdssplitlen, for lines of any length: the array of tokens is never too  *)
(* small, the tokens are the words, and no string is lost or freed twice.  *)
(* Then the prompt, for any letters, commands and names: the indices of    *)
(* path_completion, what it leaves of the line, and the path that is run.  *)
(***************************************************************************)
EXTENDS Lines, FiniteSetTheorems, TLAPS

USE WordsAssumption

Pair == Nat \X Nat

Types ==
  /\ len \in 0..MaxLen /\ line \in [0..(len - 1) -> {"sep", "char"}]
  /\ pc \in {"idle", "loop", "cleanup", "done", "crash"}
  /\ j \in Nat /\ start \in Nat /\ start <= j /\ j <= len
  /\ tokens \in Seq(Pair)
  /\ slots \in Nat /\ count \in Nat /\ heap \in Nat /\ heap = Len(tokens)
  /\ pc = "idle" => tokens = << >>

\* The tokens before index past are the words that end before it.
WordsTo(past) ==
  /\ \A k \in 1..Len(tokens) : Word(tokens[k]) /\ tokens[k][2] < past
  /\ \A k, m \in 1..Len(tokens) : k < m => tokens[k][2] < tokens[m][1]
  /\ \A i \in 0..(len - 1) : i < past /\ line[i] # "sep" =>
       \E k \in 1..Len(tokens) : tokens[k][1] <= i /\ i < tokens[k][2]

\* Where the loop is: a word may have begun at start.
Scanned ==
  pc = "loop" =>
    /\ WordsTo(start)
    /\ \A i \in start..(j - 1) : line[i] # "sep"
    /\ start = 0 \/ line[start - 1] = "sep"

\* One element is always left, for the final one.
Roomy ==
  /\ pc = "loop" => slots >= 5 /\ Len(tokens) + 1 <= slots
  /\ InRoom

WordsInv == Types /\ Scanned /\ Roomy /\ Split

LEMMA WordsInit == Init => WordsInv
<1> SUFFICES ASSUME Init PROVE WordsInv
  OBVIOUS
<1>1. /\ len = 0 /\ line = NoLine /\ pc = "idle" /\ j = 0 /\ start = 0 /\ tokens = << >>
      /\ slots = 0 /\ count = 0 /\ heap = 0
  BY DEF Init
<1>2. NoLine \in [0..(0 - 1) -> {"sep", "char"}]
  BY DEF NoLine
<1>3. << >> \in Seq(Pair) /\ Len(<< >>) = 0
  OBVIOUS
<1> QED BY <1>1, <1>2, <1>3 DEF WordsInv, Types, Scanned, Roomy, InRoom, Split

\* A token is added at the end of a word.
LEMMA AddWord ==
  ASSUME Types, NEW past \in Nat, WordsTo(start), start < past, past <= len,
         \A i \in start..(past - 1) : line[i] # "sep",
         start = 0 \/ line[start - 1] = "sep",
         past = len \/ line[past] = "sep",
         Add(past), UNCHANGED <<len, line>>
  PROVE  /\ tokens' \in Seq(Pair) /\ Len(tokens') = Len(tokens) + 1
         /\ heap' = heap + 1
         /\ \A k \in 1..Len(tokens') : Word(tokens[k])' /\ tokens'[k][2] <= past
         /\ \A k, m \in 1..Len(tokens') : k < m => tokens'[k][2] < tokens'[m][1]
         /\ \A i \in 0..(len - 1) : i < past /\ line[i] # "sep" =>
              \E k \in 1..Len(tokens') : tokens'[k][1] <= i /\ i < tokens'[k][2]
<1> DEFINE n == Len(tokens)
           e == <<start, past>>
<1>1. /\ tokens' = Append(tokens, e) /\ heap' = heap + 1 /\ e \in Pair /\ n \in Nat
      /\ tokens \in Seq(Pair) /\ start \in Nat /\ len \in Nat
  BY DEF Add, Types, Pair
<1>2. /\ tokens' \in Seq(Pair) /\ Len(tokens') = n + 1 /\ tokens'[n + 1] = e
      /\ \A k \in 1..n : tokens'[k] = tokens[k]
  BY <1>1
<1>3. e[1] = start /\ e[2] = past
  OBVIOUS
<1>4. Word(e)
  BY <1>1, <1>3 DEF Word
<1> HIDE DEF e, n
<1>5. \A k \in 1..(n + 1) : k \in 1..n \/ k = n + 1
  BY <1>1
<1>6. ASSUME NEW k \in 1..(n + 1) PROVE Word(tokens[k])' /\ tokens'[k][2] <= past
  <2>1. CASE k \in 1..n
    <3>1. Word(tokens[k]) /\ tokens[k][2] < start /\ tokens[k] \in Pair
      BY <1>1, <2>1 DEF WordsTo, n
    <3>2. tokens'[k] = tokens[k] /\ tokens[k][2] \in Nat
      BY <1>2, <2>1, <3>1 DEF Pair
    <3> QED BY <1>1, <3>1, <3>2 DEF Word
  <2>2. CASE k = n + 1
    BY <1>2, <1>3, <1>4, <2>2 DEF Word
  <2> QED BY <1>5, <2>1, <2>2
<1>7. ASSUME NEW k \in 1..(n + 1), NEW m \in 1..(n + 1), k < m
      PROVE  tokens'[k][2] < tokens'[m][1]
  <2>1. k \in 1..n
    BY <1>1, <1>7
  <2>2. CASE m \in 1..n
    BY <1>2, <1>7, <2>1, <2>2 DEF WordsTo, n
  <2>3. CASE m = n + 1
    BY <1>2, <1>3, <2>1, <2>3 DEF WordsTo, n
  <2> QED BY <1>5, <2>2, <2>3
<1>8. ASSUME NEW i \in 0..(len - 1), i < past, line[i] # "sep"
      PROVE  \E k \in 1..(n + 1) : tokens'[k][1] <= i /\ i < tokens'[k][2]
  <2>1. CASE i < start
    <3>1. PICK k \in 1..n : tokens[k][1] <= i /\ i < tokens[k][2]
      BY <1>8, <2>1 DEF WordsTo, n
    <3>2. k \in 1..(n + 1) /\ tokens'[k] = tokens[k]
      BY <1>1, <1>2, <3>1
    <3> QED BY <3>1, <3>2
  <2>2. CASE i >= start
    <3>1. n + 1 \in 1..(n + 1) /\ tokens'[n + 1][1] <= i /\ i < tokens'[n + 1][2]
      BY <1>1, <1>2, <1>3, <1>8, <2>2
    <3> QED BY <3>1
  <2>3. i < start \/ i >= start
    BY <1>1
  <2> QED BY <2>1, <2>2, <2>3
<1> QED BY <1>1, <1>2, <1>6, <1>7, <1>8 DEF n

\* A separator after a separator, or at the end of the line, adds nothing.
LEMMA AddNothing ==
  ASSUME Types, NEW past \in Nat, WordsTo(start), start = past, Add(past),
         UNCHANGED <<len, line>>
  PROVE  UNCHANGED <<tokens, heap>> /\ WordsTo(past)
BY DEF Add, Types

LEMMA Scans ==
  ASSUME WordsInv, Scan
  PROVE  WordsInv'
<1>1. /\ pc = "loop" /\ j < len /\ slots >= Len(tokens) + 2 /\ j' = j + 1
      /\ UNCHANGED <<len, line, pc, slots, count>>
  BY DEF Scan, Room, lineVars
<1>2. /\ Types /\ len \in Nat /\ j \in Nat /\ start \in Nat /\ start <= j
      /\ line[j] \in {"sep", "char"} /\ len <= MaxLen /\ Len(tokens) \in Nat
      /\ slots \in Nat /\ slots >= 5
  BY <1>1 DEF WordsInv, Types, Roomy
<1>3. WordsTo(start) /\ (\A i \in start..(j - 1) : line[i] # "sep")
      /\ (start = 0 \/ line[start - 1] = "sep")
  BY <1>1 DEF WordsInv, Scanned
<1>4. CASE line[j] # "sep"
  <2>1. UNCHANGED <<tokens, heap, start>>
    BY <1>4 DEF Scan
  <2>2. Types'
    BY <1>1, <1>2, <2>1 DEF Types
  <2>3. WordsTo(start)'
    BY <1>1, <1>3, <2>1 DEF WordsTo, Word
  <2>4. \A i \in start..j : line[i] # "sep"
    <3>1. \A i \in start..j : i \in start..(j - 1) \/ i = j
      BY <1>2
    <3> QED BY <1>3, <1>4, <3>1
  <2>5. Scanned'
    BY <1>1, <1>2, <1>3, <2>1, <2>3, <2>4 DEF Scanned
  <2>6. Roomy' /\ Split'
    BY <1>1, <1>2, <2>1 DEF Roomy, InRoom, Split
  <2> QED BY <2>2, <2>5, <2>6 DEF WordsInv
<1>5. CASE line[j] = "sep" /\ start < j
  <2>1. Add(j) /\ start' = j + 1
    BY <1>5 DEF Scan
  <2>2. /\ tokens' \in Seq(Pair) /\ Len(tokens') = Len(tokens) + 1 /\ heap' = heap + 1
        /\ \A k \in 1..Len(tokens') : Word(tokens[k])' /\ tokens'[k][2] <= j
        /\ \A k, m \in 1..Len(tokens') : k < m => tokens'[k][2] < tokens'[m][1]
        /\ \A i \in 0..(len - 1) : i < j /\ line[i] # "sep" =>
             \E k \in 1..Len(tokens') : tokens'[k][1] <= i /\ i < tokens'[k][2]
    BY <1>1, <1>2, <1>3, <1>5, <2>1, AddWord
  <2>3. Types'
    BY <1>1, <1>2, <2>1, <2>2 DEF Types
  <2>4. WordsTo(start)'
    <3>1. \A k \in 1..Len(tokens') : tokens'[k][2] < j + 1
      <4>1. \A k \in 1..Len(tokens') : tokens'[k] \in Pair
        BY <2>2
      <4> QED BY <1>2, <2>2, <4>1 DEF Pair
    <3>2. \A i \in 0..(len - 1) : i < j + 1 /\ line[i] # "sep" => i < j
      BY <1>2, <1>5
    <3> QED BY <1>1, <2>1, <2>2, <3>1, <3>2 DEF WordsTo
  <2>5. Scanned'
    BY <1>1, <1>2, <1>5, <2>1, <2>4 DEF Scanned
  <2>6. Roomy' /\ Split'
    BY <1>1, <1>2, <2>2 DEF Roomy, InRoom, Split
  <2> QED BY <2>3, <2>5, <2>6 DEF WordsInv
<1>6. CASE line[j] = "sep" /\ start = j
  <2>1. Add(j) /\ start' = j + 1
    BY <1>6 DEF Scan
  <2>2. UNCHANGED <<tokens, heap>>
    BY <1>1, <1>2, <1>3, <1>6, <2>1, AddNothing
  <2>3. Types'
    BY <1>1, <1>2, <2>1, <2>2 DEF Types
  <2>4. WordsTo(start)'
    <3>1. \A k \in 1..Len(tokens) : Word(tokens[k]) /\ tokens[k] \in Pair /\ tokens[k][2] < j
      BY <1>2, <1>3, <1>6 DEF WordsTo, Types
    <3>2. \A k \in 1..Len(tokens) : tokens[k][2] < j + 1
      BY <1>2, <3>1 DEF Pair
    <3>3. \A i \in 0..(len - 1) : i < j + 1 /\ line[i] # "sep" => i < j
      BY <1>2, <1>6
    <3>4. \A i \in 0..(len - 1) : i < j + 1 /\ line[i] # "sep" =>
            \E k \in 1..Len(tokens) : tokens[k][1] <= i /\ i < tokens[k][2]
      BY <1>3, <1>6, <3>3 DEF WordsTo
    <3>5. \A k, m \in 1..Len(tokens) : k < m => tokens[k][2] < tokens[m][1]
      BY <1>3 DEF WordsTo
    <3> QED BY <1>1, <2>1, <2>2, <3>1, <3>2, <3>4, <3>5 DEF WordsTo, Word
  <2>5. Scanned'
    BY <1>1, <1>2, <1>6, <2>1, <2>4 DEF Scanned
  <2>6. Roomy' /\ Split'
    BY <1>1, <1>2, <2>2 DEF Roomy, InRoom, Split
  <2> QED BY <2>3, <2>5, <2>6 DEF WordsInv
<1> QED BY <1>2, <1>4, <1>5, <1>6

\* The final element: the rest of the line, unless it ends in a separator.
LEMMA Lasts ==
  ASSUME WordsInv, Last
  PROVE  WordsInv'
<1>1. /\ pc = "loop" /\ j >= len /\ Add(len) /\ count' = Len(tokens') /\ pc' = "done"
      /\ UNCHANGED <<len, line, j, start, slots>>
  BY DEF Last, lineVars
<1>2. /\ Types /\ len \in Nat /\ j = len /\ start \in Nat /\ start <= len
      /\ Len(tokens) \in Nat /\ slots \in Nat /\ Len(tokens) + 1 <= slots
      /\ tokens \in Seq(Pair)
  BY <1>1 DEF WordsInv, Types, Roomy
<1>3. WordsTo(start) /\ (\A i \in start..(len - 1) : line[i] # "sep")
      /\ (start = 0 \/ line[start - 1] = "sep")
  BY <1>1, <1>2 DEF WordsInv, Scanned
<1>4. CASE start < len
  <2>2. /\ tokens' \in Seq(Pair) /\ Len(tokens') = Len(tokens) + 1 /\ heap' = heap + 1
        /\ \A k \in 1..Len(tokens') : Word(tokens[k])' /\ tokens'[k][2] <= len
        /\ \A k, m \in 1..Len(tokens') : k < m => tokens'[k][2] < tokens'[m][1]
        /\ \A i \in 0..(len - 1) : i < len /\ line[i] # "sep" =>
             \E k \in 1..Len(tokens') : tokens'[k][1] <= i /\ i < tokens'[k][2]
    BY <1>1, <1>2, <1>3, <1>4, AddWord
  <2>3. Types'
    BY <1>1, <1>2, <2>2 DEF Types
  <2>4. \A i \in 0..(len - 1) : i < len
    BY <1>2
  <2>5. Split'
    BY <1>1, <2>2, <2>4 DEF Split
  <2>6. Roomy' /\ Scanned'
    BY <1>1, <1>2, <2>2 DEF Roomy, InRoom, Scanned
  <2> QED BY <2>3, <2>5, <2>6 DEF WordsInv
<1>5. CASE start = len
  <2>1. UNCHANGED <<tokens, heap>>
    BY <1>1, <1>2, <1>3, <1>5, AddNothing
  <2>3. Types'
    BY <1>1, <1>2, <2>1 DEF Types
  <2>4. \A i \in 0..(len - 1) : i < start
    BY <1>2, <1>5
  <2>5. Split'
    BY <1>1, <1>3, <2>1, <2>4 DEF Split, WordsTo, Word
  <2>6. Roomy' /\ Scanned'
    BY <1>1, <1>2, <2>1 DEF Roomy, InRoom, Scanned
  <2> QED BY <2>3, <2>5, <2>6 DEF WordsInv
<1> QED BY <1>2, <1>4, <1>5

LEMMA WordsStep == WordsInv /\ [Next]_vars => WordsInv'
<1> SUFFICES ASSUME WordsInv, [Next]_vars PROVE WordsInv'
  OBVIOUS
<1>1. ASSUME NEW n \in 0..MaxLen, NEW l \in [0..(n - 1) -> {"sep", "char"}], Enter(n, l)
      PROVE  WordsInv'
  <2>1. /\ pc = "idle" /\ len' = n /\ line' = l /\ j' = 0 /\ start' = 0 /\ tokens' = << >>
        /\ slots' \in {0, 5} /\ heap' = heap /\ pc' \in {"done", "loop", "crash"}
        /\ (pc' = "done" => n = 0 /\ count' = 0) /\ (pc' = "loop" => slots' = 5)
        /\ count' \in {0, count}
    BY <1>1 DEF Enter
  <2>2. << >> \in Seq(Pair) /\ Len(<< >>) = 0
    OBVIOUS
  <2>3. heap = 0
    <3>1. WordsInv /\ pc = "idle"
      BY <2>1
    <3> QED BY <3>1 DEF WordsInv, Types
  <2>4. Types'
    BY <2>1, <2>2, <2>3 DEF WordsInv, Types
  <2> QED BY <2>1, <2>2, <2>4 DEF WordsInv, Scanned, WordsTo, Roomy, InRoom, Split
<1>2. CASE Grow
  <2>1. /\ pc = "loop" /\ slots' \in {slots, 2 * slots} /\ pc' \in {"loop", "cleanup"}
        /\ (pc' = "loop" => slots' = 2 * slots)
        /\ UNCHANGED <<len, line, j, start, tokens, count, heap>>
    BY <1>2 DEF Grow, lineVars
  <2>2. slots \in Nat /\ slots >= 5 /\ Len(tokens) + 1 <= slots /\ Len(tokens) \in Nat
    BY <2>1 DEF WordsInv, Types, Roomy
  <2>3. Types'
    BY <2>1, <2>2 DEF WordsInv, Types
  <2>4. Scanned'
    BY <2>1 DEF WordsInv, Scanned, WordsTo, Word
  <2>5. Roomy' /\ Split'
    BY <2>1, <2>2 DEF Roomy, InRoom, Split
  <2> QED BY <2>3, <2>4, <2>5 DEF WordsInv
<1>3. CASE Scan
  BY <1>3, Scans
<1>4. CASE Last
  BY <1>4, Lasts
<1>5. CASE Cleanup \/ Free
  <2>1. /\ pc \in {"cleanup", "done"} /\ Gone
        /\ (pc = "cleanup" => heap' = heap - Len(tokens))
        /\ (pc = "done" => heap' = heap - count)
    BY <1>5 DEF Cleanup, Free
  <2>2. heap = Len(tokens) /\ heap \in Nat /\ (pc = "done" => count = Len(tokens))
    BY DEF WordsInv, Types, Split
  <2>3. heap' = 0
    BY <2>1, <2>2
  <2>4. /\ len' = 0 /\ line' = NoLine /\ pc' = "idle" /\ j' = 0 /\ start' = 0
        /\ tokens' = << >> /\ slots' = 0 /\ count' = 0
    BY <2>1 DEF Gone
  <2>5. NoLine \in [0..(0 - 1) -> {"sep", "char"}]
    BY DEF NoLine
  <2>6. << >> \in Seq(Pair) /\ Len(<< >>) = 0
    OBVIOUS
  <2> QED BY <2>3, <2>4, <2>5, <2>6 DEF WordsInv, Types, Scanned, Roomy, InRoom, Split
<1>6. CASE CopyToNull
  <2>1. pc' = "crash" /\ UNCHANGED <<len, line, j, start, tokens, slots, count, heap>>
    BY <1>6 DEF CopyToNull, lineVars
  <2>2. Types' /\ InRoom'
    BY <2>1 DEF WordsInv, Types, Roomy, InRoom
  <2> QED BY <2>1, <2>2 DEF WordsInv, Scanned, Roomy, Split
<1>7. CASE UNCHANGED vars
  BY <1>7 DEF vars, lineVars, WordsInv, Types, Scanned, WordsTo, Word, Roomy, InRoom, Split
<1> QED BY <1>1, <1>2, <1>3, <1>4, <1>5, <1>6, <1>7 DEF Next

LEMMA WordsInvariant == Spec => []WordsInv
BY WordsInit, WordsStep, PTL DEF Spec

LEMMA TypesMean == WordsInv => TypeOK
<1> SUFFICES ASSUME Types PROVE TypeOK
  BY DEF WordsInv
<1>1. j \in 0..MaxLen /\ start \in 0..MaxLen
  BY DEF Types
<1>2. tokens \in Seq(Nat \X Nat)
  BY DEF Types, Pair
<1> QED BY <1>1, <1>2 DEF Types, TypeOK

\* The indices stay in the line and the counters are not negative.
THEOREM WordsTypes == Spec => []TypeOK
BY TypesMean, WordsInvariant, PTL

\* The comment of sdssplitlen is right: there is room for every element, the
\* final one included.
THEOREM RoomForTokens == Spec => []InRoom
<1>1. WordsInv => InRoom
  BY DEF WordsInv, Roomy
<1> QED BY <1>1, WordsInvariant, PTL

\* What is returned are the words of the line.
THEOREM TokensAreWords == Spec => []Split
<1>1. WordsInv => Split
  BY DEF WordsInv
<1> QED BY <1>1, WordsInvariant, PTL

\* Whichever realloc fails, every string of the call is freed, and no more.
THEOREM TokensFreed == Spec => []Freed
<1>1. WordsInv => Freed
  BY DEF WordsInv, Types, Freed
<1> QED BY <1>1, WordsInvariant, PTL

-----------------------------------------------------------------------------
(* Sequences and names.                                                    *)

HIDE WordsAssumption

\* Sequences of characters.
LEMMA Bounded ==
  ASSUME NEW S, NEW n \in Nat, NEW t \in C!BoundedSeq(S, n)
  PROVE  t \in Seq(S) /\ Len(t) <= n
BY DEF C!BoundedSeq, C!SeqOf

LEMMA Piece ==
  ASSUME NEW S, NEW s \in Seq(S), NEW a \in 1..(Len(s) + 1), NEW b \in 0..Len(s)
  PROVE  /\ SubSeq(s, a, b) \in Seq(S)
         /\ Len(SubSeq(s, a, b)) = IF a <= b THEN b - a + 1 ELSE 0
         /\ \A k \in 1..(b - a + 1) : SubSeq(s, a, b)[k] = s[a + k - 1]
OBVIOUS

LEMMA Beginning ==
  ASSUME NEW S, NEW s \in Seq(S), NEW m \in 0..Len(s)
  PROVE  /\ SubSeq(s, 1, m) \in Seq(S) /\ Len(SubSeq(s, 1, m)) = m
         /\ \A k \in 1..m : SubSeq(s, 1, m)[k] = s[k]
OBVIOUS

LEMMA Suffix ==
  ASSUME NEW S, NEW s \in Seq(S), NEW f \in 0..Len(s)
  PROVE  /\ SubSeq(s, f + 1, Len(s)) \in Seq(S)
         /\ Len(SubSeq(s, f + 1, Len(s))) = Len(s) - f
         /\ \A k \in 1..(Len(s) - f) : SubSeq(s, f + 1, Len(s))[k] = s[f + k]
OBVIOUS

LEMMA Joined ==
  ASSUME NEW S, NEW s \in Seq(S), NEW t \in Seq(S)
  PROVE  /\ s \o t \in Seq(S)
         /\ Len(s \o t) = Len(s) + Len(t)
         /\ \A i \in 1..Len(s) : (s \o t)[i] = s[i]
         /\ \A i \in Len(s) + 1 .. Len(s) + Len(t) : (s \o t)[i] = t[i - Len(s)]
OBVIOUS

LEMMA JoinedAt ==
  ASSUME NEW S, NEW s \in Seq(S), NEW t \in Seq(S), NEW m \in Nat, m = Len(s)
  PROVE  /\ s \o t \in Seq(S)
         /\ Len(s \o t) = m + Len(t)
         /\ \A i \in 1..m : (s \o t)[i] = s[i]
         /\ \A i \in m + 1 .. m + Len(t) : (s \o t)[i] = t[i - m]
OBVIOUS

LEMMA Prefixes ==
  ASSUME NEW S, NEW s \in Seq(S), NEW t \in Seq(S)
  PROVE  C!IsPrefix(s, t) <=> Len(s) <= Len(t) /\ \A k \in 1..Len(s) : s[k] = t[k]
<1>1. CASE Len(s) <= Len(t)
  <2>1. /\ SubSeq(s, 1, Len(s)) \in Seq(S) /\ Len(SubSeq(s, 1, Len(s))) = Len(s)
        /\ SubSeq(t, 1, Len(s)) \in Seq(S) /\ Len(SubSeq(t, 1, Len(s))) = Len(s)
        /\ \A k \in 1..Len(s) : SubSeq(s, 1, Len(s))[k] = s[k]
        /\ \A k \in 1..Len(s) : SubSeq(t, 1, Len(s))[k] = t[k]
    BY <1>1, Piece
  <2> DEFINE a == SubSeq(s, 1, Len(s))
             b == SubSeq(t, 1, Len(s))
  <2>2. a = b <=> \A k \in 1..Len(s) : a[k] = b[k]
    <3> HIDE DEF a, b
    <3>1. a \in Seq(S) /\ b \in Seq(S) /\ Len(a) = Len(s) /\ Len(b) = Len(s)
      BY <2>1 DEF a, b
    <3> QED BY <3>1
  <2> QED BY <1>1, <2>1, <2>2 DEF C!IsPrefix
<1>2. CASE ~(Len(s) <= Len(t))
  BY <1>2 DEF C!IsPrefix
<1> QED BY <1>1, <1>2

\* The part of the line that completion looks at.
LEMMA Buf ==
  ASSUME typed \in Seq(C!Chars), first \in 0..Len(typed)
  PROVE  /\ C!buf \in Seq(C!Chars) /\ C!len = Len(typed) - first /\ C!len \in Nat
         /\ Len(C!buf) = C!len
         /\ \A k \in 0..(C!len - 1) : C!At(k) = typed[first + k + 1] /\ C!At(k) \in C!Chars
<1> DEFINE S == C!Chars
<1>0. typed \in Seq(S) /\ Len(typed) \in Nat /\ first + 1 \in 1..(Len(typed) + 1)
      /\ Len(typed) \in 0..Len(typed)
  OBVIOUS
<1> HIDE DEF S
<1>1. /\ SubSeq(typed, first + 1, Len(typed)) \in Seq(S)
      /\ Len(SubSeq(typed, first + 1, Len(typed))) = Len(typed) - first
      /\ \A k \in 1..(Len(typed) - first) :
           SubSeq(typed, first + 1, Len(typed))[k] = typed[first + k]
  BY <1>0, Suffix
<1>2. C!buf = SubSeq(typed, first + 1, Len(typed))
  BY DEF C!buf
<1>3. C!buf \in Seq(S) /\ Len(C!buf) = Len(typed) - first
      /\ \A k \in 1..(Len(typed) - first) : C!buf[k] = typed[first + k]
  BY <1>1, <1>2
<1>4. C!len = Len(typed) - first
  BY <1>3 DEF C!len
<1>5. ASSUME NEW k \in 0..(C!len - 1) PROVE C!At(k) = typed[first + k + 1] /\ C!At(k) \in S
  <2>1. k + 1 \in 1..(Len(typed) - first) /\ first + (k + 1) = first + k + 1
        /\ first + k + 1 \in 1..Len(typed)
    BY <1>4, <1>0
  <2>2. C!At(k) = C!buf[k + 1]
    BY DEF C!At
  <2> QED BY <2>1, <2>2, <1>3, <1>0
<1> QED BY <1>0, <1>3, <1>4, <1>5 DEF S

LEMMA Bounds == MaxTyped \in Nat /\ MaxLen \in Nat
BY LinesAssumption, WordsAssumption, Zenon

\* The letters of a name are characters of a line.
LEMMA NameChars ==
  ASSUME NEW name \in Commands \cup Names
  PROVE  /\ name \in Seq(C!Chars) /\ Len(name) \in Nat /\ Len(name) > 0
         /\ MaxTyped + Len(name) <= MaxLen
         /\ \A k \in 1..Len(name) : name[k] \notin {" ", "/"}
<1>1. name \in Seq(Letters) /\ name # << >> /\ MaxTyped + Len(name) <= MaxLen
  BY LinesAssumption
<1>2. \A c \in Letters : c \notin {" ", "/"}
  BY LinesAssumption, Zenon
<1>3. Letters \subseteq C!Chars
  BY DEF C!Chars
<1> DEFINE S == C!Chars
<1> HIDE DEF S
<1>4. name \in Seq(S)
  <2>1. Letters \subseteq S
    BY <1>3 DEF S
  <2> QED BY <1>1, <2>1
<1>5. \A k \in 1..Len(name) : name[k] \in Letters
  BY <1>1
<1>6. \A k \in 1..Len(name) : name[k] \notin {" ", "/"}
  BY <1>2, <1>5, Zenon
<1>7. Len(name) \in Nat /\ Len(name) > 0
  BY <1>1
<1> QED BY <1>1, <1>4, <1>6, <1>7 DEF S

-----------------------------------------------------------------------------
(* Completion.                                                             *)

LEMMA SameBuf ==
  ASSUME UNCHANGED <<typed, first>>
  PROVE  C!buf' = C!buf /\ C!len' = C!len /\ \A k : C!At(k)' = C!At(k)
<1>1. C!buf' = C!buf
  BY DEF C!buf
<1> QED BY <1>1 DEF C!len, C!At

LEMMA TrimmedChars ==
  ASSUME NEW p \in Seq(C!Chars)
  PROVE  C!Trimmed(p) \in Seq(C!Chars)
<1> DEFINE S == C!Chars
<1> HIDE DEF S
<1>0. p \in Seq(S)
  BY DEF S
<1>1. CASE Len(p) > 1 /\ C!Last(p) = "/"
  <2>1. C!Trimmed(p) = SubSeq(p, 1, Len(p) - 1)
    BY <1>1 DEF C!Trimmed, C!Front
  <2>2. SubSeq(p, 1, Len(p) - 1) \in Seq(S)
    BY <1>0, <1>1
  <2> QED BY <2>1, <2>2 DEF S
<1>2. CASE ~(Len(p) > 1 /\ C!Last(p) = "/")
  BY <1>2 DEF C!Trimmed
<1> QED BY <1>1, <1>2

LEMMA TabMeans == TabInv => IndicesInLine
BY DEF TabInv, TabTypes, InBuf, IndicesInLine, C!TypeOK

LEMMA TabInvInit == C!Init => TabInv
<1> SUFFICES ASSUME C!Init PROVE TabInv
  OBVIOUS
<1>1. /\ typed = << >> /\ tpc = "edit" /\ first = 0 /\ path = << >> /\ kids = {} /\ lc = {}
      /\ shown = << >>
  BY DEF C!Init
<1> DEFINE S == C!Chars
<1>2. << >> \in Seq(S) /\ Len(<< >>) = 0
  OBVIOUS
<1>3. TabTypes
  BY <1>1, <1>2, Bounds DEF TabTypes
<1>4. Extends
  BY <1>1 DEF Extends, C!Extends
<1> QED BY <1>1, <1>3, <1>4 DEF TabInv

\* The line that is shown is the line before the name, and a name that was
\* found.
LEMMA Shows ==
  ASSUME NEW before \in Seq(C!Chars), Len(before) <= MaxTyped,
         NEW found \in SUBSET (Commands \cup Names), C!Show(before, found), TabTypes
  PROVE  /\ lc' \subseteq Commands \cup Names /\ tpc' = "shown"
         /\ shown' = shown \/ \E name \in found : shown' = before \o name
         /\ shown' \in Seq(C!Chars) /\ Len(shown') <= MaxLen
<1>1. /\ lc' = found /\ tpc' = "shown"
      /\ C!Cardinality(found) # 1 => shown' = shown
  BY DEF C!Show
<1>2. CASE C!Cardinality(found) = 1
  <2>1. PICK name \in found : shown' = before \o name
    BY <1>2 DEF C!Show
  <2>2. name \in Seq(C!Chars) /\ MaxTyped + Len(name) <= MaxLen
    BY NameChars
  <2> DEFINE S == C!Chars
  <2> HIDE DEF S
  <2>3. before \in Seq(S) /\ name \in Seq(S)
    BY <2>2 DEF S
  <2>4. shown' \in Seq(S) /\ Len(shown') = Len(before) + Len(name)
    BY <2>1, <2>3, Joined
  <2>5. Len(before) \in Nat /\ Len(name) \in Nat /\ MaxTyped \in Nat /\ MaxLen \in Nat
    BY <2>3, Bounds
  <2>6. Len(shown') <= MaxLen
    BY <2>2, <2>4, <2>5
  <2>7. \E n \in found : shown' = before \o n
    BY <2>1
  <2>8. lc' \subseteq Commands \cup Names
    BY <1>1
  <2> QED BY <1>1, <2>4, <2>6, <2>7, <2>8 DEF S
<1>3. CASE C!Cardinality(found) # 1
  BY <1>1, <1>3 DEF TabTypes
<1> QED BY <1>2, <1>3

\* A part of the line and a name that goes on with the rest of it.
LEMMA GoesOn ==
  ASSUME NEW S, NEW s \in Seq(S), NEW m \in 0..Len(s), NEW name \in Seq(S),
         C!IsPrefix(SubSeq(s, m + 1, Len(s)), name)
  PROVE  C!IsPrefix(s, SubSeq(s, 1, m) \o name)
<1> DEFINE a == SubSeq(s, 1, m)
           b == SubSeq(s, m + 1, Len(s))
<1>1. b \in Seq(S) /\ Len(b) = Len(s) - m /\ \A k \in 1..(Len(s) - m) : b[k] = s[m + k]
  BY Suffix
<1>2. a \in Seq(S) /\ Len(a) = m /\ \A k \in 1..m : a[k] = s[k]
  BY Beginning
<1>p. C!IsPrefix(b, name)
  OBVIOUS
<1> HIDE DEF a, b
<1>3. Len(b) <= Len(name) /\ \A k \in 1..Len(b) : b[k] = name[k]
  BY <1>1, <1>p, Prefixes
<1>4. /\ a \o name \in Seq(S) /\ Len(a \o name) = m + Len(name)
      /\ \A i \in 1..m : (a \o name)[i] = a[i]
      /\ \A i \in m + 1 .. m + Len(name) : (a \o name)[i] = name[i - m]
  BY <1>2, JoinedAt
<1>5. Len(s) \in Nat /\ m \in Nat /\ Len(name) \in Nat /\ Len(s) <= m + Len(name)
  BY <1>1, <1>3
<1>6. ASSUME NEW k \in 1..Len(s) PROVE s[k] = (a \o name)[k]
  <2>1. CASE k \in 1..m
    BY <1>2, <1>4, <2>1
  <2>2. CASE k \in m + 1 .. Len(s)
    <3>1. k - m \in 1..Len(b) /\ m + (k - m) = k /\ k \in m + 1 .. m + Len(name)
      BY <1>1, <1>5, <2>2
    <3>2. b[k - m] = s[k] /\ b[k - m] = name[k - m]
      BY <1>1, <1>3, <3>1
    <3> QED BY <1>4, <3>1, <3>2
  <2>3. k \in 1..m \/ k \in m + 1 .. Len(s)
    BY <1>5
  <2> QED BY <2>1, <2>2, <2>3
<1>7. C!IsPrefix(s, a \o name)
  BY <1>4, <1>5, <1>6, Prefixes
<1> QED BY <1>7 DEF a

LEMMA TabInvStep ==
  ASSUME TabInv, [C!Next]_tabVars
  PROVE  TabInv'
<1>0. /\ TabTypes /\ Extends
      /\ tpc \in {"blank", "slash", "ask", "match"} => InBuf
      /\ tpc = "edit" => first = 0
      /\ tpc = "blank" => \E k \in 0..ti : C!At(k) \in C!Blanks
      /\ tpc # "shown" => shown = << >>
  BY DEF TabInv
<1>b. /\ C!buf \in Seq(C!Chars) /\ C!len = Len(typed) - first /\ C!len \in Nat
      /\ Len(C!buf) = C!len /\ C!len <= MaxTyped /\ Len(typed) \in Nat
  <2>1. typed \in Seq(C!Chars) /\ first \in 0..Len(typed) /\ Len(typed) <= MaxTyped
    BY <1>0 DEF TabTypes
  <2>2. Len(typed) \in Nat
    BY <2>1
  <2>3. /\ C!buf \in Seq(C!Chars) /\ C!len = Len(typed) - first /\ C!len \in Nat
        /\ Len(C!buf) = C!len
    BY <2>1, Buf
  <2> QED BY <2>1, <2>2, <2>3, Bounds
<1>1. ASSUME NEW t \in C!BoundedSeq(C!Chars, MaxTyped), C!Tab(t) PROVE TabInv'
  <2>1. /\ tpc = "edit" /\ tpc' = "skip" /\ typed' = t /\ first' = 0
        /\ UNCHANGED <<path, kids, lc, shown>>
    BY <1>0, <1>1 DEF C!Tab
  <2>2. t \in Seq(C!Chars) /\ Len(t) <= MaxTyped
    BY Bounds, Bounded
  <2>3. TabTypes'
    <3>1. 0 \in 0..Len(t)
      BY <2>2
    <3> QED BY <1>0, <2>1, <2>2, <3>1 DEF TabTypes
  <2>4. Extends'
    BY <1>0, <2>1 DEF Extends, C!Extends
  <2> QED BY <1>0, <2>1, <2>3, <2>4 DEF TabInv
<1>2. CASE C!Skip
  <2>1. /\ tpc = "skip" /\ tpc' = "skip" /\ first < Len(typed) /\ first' = first + 1
        /\ UNCHANGED <<typed, path, kids, lc, shown>>
    BY <1>2 DEF C!Skip
  <2>2. TabTypes'
    BY <1>0, <1>b, <2>1 DEF TabTypes
  <2>3. Extends'
    BY <1>0, <2>1 DEF Extends, C!Extends
  <2> QED BY <1>0, <2>1, <2>2, <2>3 DEF TabInv
<1>3. CASE C!NothingTyped
  <2>1. /\ tpc = "skip" /\ tpc' = "shown" /\ UNCHANGED <<typed, first, path, kids, lc, shown>>
    BY <1>3 DEF C!NothingTyped, C!Skipped
  <2> QED BY <1>0, <2>1 DEF TabInv, TabTypes, Extends, C!Extends
<1>4. CASE C!CompleteCommand
  <2> DEFINE found == {name \in Commands : C!IsPrefix(C!buf, name)}
  <2>1. /\ tpc = "skip" /\ C!Show(<< >>, found) /\ UNCHANGED <<typed, first, path, kids>>
    BY <1>4 DEF C!CompleteCommand, C!Skipped
  <2>2. /\ lc' \subseteq Commands \cup Names /\ tpc' = "shown"
        /\ shown' = shown \/ \E name \in found : shown' = << >> \o name
        /\ shown' \in Seq(C!Chars) /\ Len(shown') <= MaxLen
    <3>1. << >> \in Seq(C!Chars) /\ Len(<< >>) <= MaxTyped
      BY Bounds
    <3>2. found \in SUBSET (Commands \cup Names)
      OBVIOUS
    <3> QED BY <1>0, <2>1, <3>1, <3>2, Shows
  <2>3. TabTypes'
    BY <1>0, <2>1, <2>2 DEF TabTypes
  <2>4. ASSUME shown' # << >> PROVE C!IsPrefix(C!buf, shown')
    <3>1. PICK name \in found : shown' = << >> \o name
      BY <1>0, <2>1, <2>2, <2>4
    <3>2. name \in Seq(C!Chars)
      BY NameChars
    <3>3. shown' = name
      BY <3>1, <3>2
    <3> QED BY <3>1, <3>3
  <2>5. Extends'
    BY <2>1, <2>4, SameBuf DEF Extends, C!Extends
  <2> QED BY <2>2, <2>3, <2>5 DEF TabInv
<1>5. CASE C!CompletePath
  <2>1. /\ tpc = "skip" /\ tpc' = "blank" /\ ti' = C!len - 1 /\ tj' = C!len - 1
        /\ UNCHANGED <<typed, first, path, kids, lc, shown>>
    BY <1>5 DEF C!CompletePath, C!Skipped
  <2>2. PICK k \in 0..(C!len - 1) : C!At(k) \in C!Blanks
    BY <1>5, Zenon DEF C!CompletePath, C!Blanks
  <2>3. InBuf'
    BY <1>b, <2>1, <2>2, SameBuf DEF InBuf
  <2>4. \E m \in 0..ti' : C!At(m)' \in C!Blanks
    BY <2>1, <2>2, SameBuf
  <2> QED BY <1>0, <2>1, <2>3, <2>4, SameBuf DEF TabInv, TabTypes, Extends, C!Extends
<1>6. CASE C!BackToBlank
  <2>1. /\ tpc = "blank" /\ tpc' = "blank" /\ ti' = ti - 1 /\ tj' = tj
        /\ ti >= 0 /\ C!At(ti) \notin C!Blanks
        /\ UNCHANGED <<typed, first, path, kids, lc, shown>>
    BY <1>6 DEF C!BackToBlank
  <2>2. PICK k \in 0..ti : C!At(k) \in C!Blanks
    BY <1>0, <2>1
  <2>3. k \in 0..(ti - 1) /\ InBuf
    <3>1. k # ti
      BY <2>1, <2>2
    <3> QED BY <1>0, <2>1, <2>2, <3>1 DEF InBuf
  <2>4. InBuf'
    BY <1>b, <2>1, <2>3, SameBuf DEF InBuf
  <2> QED BY <1>0, <2>1, <2>2, <2>3, <2>4, SameBuf DEF TabInv, TabTypes, Extends, C!Extends
<1>7. CASE C!AtBlank \/ C!BackToSlash
  <2>1. /\ \/ tpc = "blank" /\ tpc' \in {"shown", "slash"} /\ UNCHANGED <<ti, tj>>
           \/ tpc = "slash" /\ tpc' = "slash" /\ tj > 0 /\ tj' = tj - 1 /\ ti' = ti
        /\ UNCHANGED <<typed, first, path, kids, lc, shown>>
    BY <1>7 DEF C!AtBlank, C!BackToSlash
  <2>2. InBuf /\ InBuf'
    <3>1. InBuf
      BY <1>0, <2>1
    <3> QED BY <1>b, <2>1, <3>1, SameBuf DEF InBuf
  <2> QED BY <1>0, <2>1, <2>2, SameBuf DEF TabInv, TabTypes, Extends, C!Extends
<1>8. CASE C!AtSlash
  <2>1. /\ tpc = "slash" /\ tpc' \in {"shown", "ask"}
        /\ path' = path \/ path' = C!Trimmed(C!Directory)
        /\ UNCHANGED <<typed, first, ti, tj, kids, lc, shown>>
    BY <1>8 DEF C!AtSlash
  <2>2. InBuf /\ InBuf'
    <3>1. InBuf
      BY <1>0, <2>1
    <3> QED BY <2>1, <3>1, SameBuf DEF InBuf
  <2>3. C!Directory \in Seq(C!Chars)
    <3>1. ti + 2 \in 1..(Len(C!buf) + 1) /\ tj + 1 \in 0..Len(C!buf)
      BY <1>b, <2>2 DEF InBuf
    <3> QED BY <1>b, <3>1, Piece DEF C!Directory
  <2>4. path' \in Seq(C!Chars)
    BY <1>0, <2>1, <2>3, TrimmedChars DEF TabTypes
  <2> QED BY <1>0, <2>1, <2>2, <2>4, SameBuf DEF TabInv, TabTypes, Extends, C!Extends
<1>9. CASE C!Ask
  <2>1. /\ tpc = "ask" /\ tpc' \in {"shown", "match"} /\ (kids' = kids \/ kids' \subseteq Names)
        /\ UNCHANGED <<typed, first, ti, tj, path, lc, shown>>
    BY <1>9 DEF C!Ask
  <2>2. InBuf'
    BY <1>0, <2>1, SameBuf DEF InBuf
  <2> QED BY <1>0, <2>1, <2>2, SameBuf DEF TabInv, TabTypes, Extends, C!Extends
<1>10. CASE C!Match
  <2> DEFINE before == SubSeq(C!buf, 1, tj + 1)
             found  == {name \in kids : C!IsPrefix(SubSeq(C!buf, tj + 2, C!len), name)}
  <2>1. /\ tpc = "match" /\ C!Show(before, found) /\ UNCHANGED <<typed, first, ti, tj, path, kids>>
    BY <1>10 DEF C!Match
  <2>2. tj + 1 \in 0..Len(C!buf) /\ tj + 1 <= MaxTyped /\ tj \in Nat
    BY <1>0, <1>b, <2>1, Bounds DEF InBuf
  <2>3. before \in Seq(C!Chars) /\ Len(before) <= MaxTyped
    <3>1. 1 \in 1..(Len(C!buf) + 1)
      BY <1>b
    <3>2. before \in Seq(C!Chars) /\ Len(before) = IF 1 <= tj + 1 THEN tj + 1 - 1 + 1 ELSE 0
      BY <1>b, <2>2, <3>1, Piece
    <3> QED BY <2>2, <3>2
  <2>4. found \in SUBSET (Commands \cup Names)
    BY <1>0 DEF TabTypes
  <2> HIDE DEF before
  <2>5. /\ lc' \subseteq Commands \cup Names /\ tpc' = "shown"
        /\ shown' = shown \/ \E name \in found : shown' = before \o name
        /\ shown' \in Seq(C!Chars) /\ Len(shown') <= MaxLen
    BY <1>0, <2>1, <2>3, <2>4, Shows
  <2>6. TabTypes'
    BY <1>0, <2>1, <2>5 DEF TabTypes
  <2>7. ASSUME shown' # << >> PROVE C!IsPrefix(C!buf, shown')
    <3>1. PICK name \in found : shown' = before \o name
      BY <1>0, <2>1, <2>5, <2>7
    <3>2. name \in Seq(C!Chars)
      BY <2>4, NameChars
    <3>3. C!IsPrefix(SubSeq(C!buf, (tj + 1) + 1, Len(C!buf)), name)
      <4>1. (tj + 1) + 1 = tj + 2 /\ Len(C!buf) = C!len
        BY <1>b, <2>2
      <4> QED BY <3>1, <4>1
    <3> QED BY <1>b, <2>2, <3>1, <3>2, <3>3, GoesOn DEF before
  <2>8. Extends'
    BY <2>1, <2>7, SameBuf DEF Extends, C!Extends
  <2> QED BY <2>5, <2>6, <2>8 DEF TabInv
<1>11. CASE C!Leave
  <2>1. /\ tpc' = "edit" /\ typed' = << >> /\ first' = 0 /\ path' = << >> /\ kids' = {} /\ lc' = {}
        /\ shown' = << >>
    BY <1>11 DEF C!Leave
  <2>2. TabTypes'
    BY <2>1, Bounds DEF TabTypes
  <2>3. Extends'
    BY <2>1 DEF Extends, C!Extends
  <2> QED BY <2>1, <2>2, <2>3 DEF TabInv
<1>12. CASE UNCHANGED tabVars
  <2>1. UNCHANGED <<typed, tpc, first, ti, tj, path, kids, lc, shown>>
    BY <1>12 DEF tabVars
  <2> QED BY <1>0, <2>1, SameBuf DEF TabInv, TabTypes, InBuf, Extends, C!Extends
<1> QED
  BY <1>1, <1>2, <1>3, <1>4, <1>5, <1>6, <1>7, <1>8, <1>9, <1>10, <1>11, <1>12 DEF C!Next

LEMMA PathInvInit == C!Init => PathInv
BY DEF C!Init, PathInv, Asked

\* Nothing of the line or the indices in it changes.
LEMMA SamePlace ==
  ASSUME UNCHANGED <<typed, first, ti, tj>>
  PROVE  /\ LastBlank => LastBlank'
         /\ C!Directory' = C!Directory /\ C!At(tj)' = C!At(tj)
BY SameBuf DEF LastBlank, InBuf, C!Directory, C!At

\* Before a path is asked for, or when none is.
LEMMA NoPath ==
  ASSUME path' = << >>, tpc' \in {"edit", "skip", "shown"}
  PROVE  PathInv'
BY DEF PathInv, Asked

LEMMA PathInvStep ==
  ASSUME TabInv, PathInv, [C!Next]_tabVars
  PROVE  PathInv'
<1>1. ASSUME NEW t \in C!BoundedSeq(C!Chars, MaxTyped), C!Tab(t) PROVE PathInv'
  <2>1. tpc = "edit" /\ tpc' = "skip" /\ path' = path
    BY <1>1 DEF C!Tab
  <2> QED BY <2>1, NoPath DEF PathInv
<1>2. CASE C!Skip \/ C!NothingTyped \/ C!CompleteCommand
  <2>1. tpc = "skip" /\ tpc' \in {"skip", "shown"} /\ path' = path
    BY <1>2 DEF C!Skip, C!NothingTyped, C!CompleteCommand, C!Skipped, C!Show
  <2> QED BY <2>1, NoPath DEF PathInv
<1>3. CASE C!CompletePath
  <2>1. /\ tpc = "skip" /\ tpc' = "blank" /\ ti' = C!len - 1 /\ tj' = C!len - 1
        /\ UNCHANGED <<typed, first, path, kids, lc, shown>>
    BY <1>3 DEF C!CompletePath, C!Skipped
  <2>2. path' = << >>
    BY <2>1 DEF PathInv
  <2>3. tj' = C!len' - 1 /\ ti' + 1 .. C!len' - 1 = {}
    <3>1. C!len \in Nat
      BY Buf DEF TabInv, TabTypes
    <3> QED BY <2>1, <3>1, SameBuf
  <2> QED BY <2>1, <2>2, <2>3 DEF PathInv, Asked
<1>4. CASE C!BackToBlank
  <2>1. /\ tpc = "blank" /\ tpc' = "blank" /\ ti' = ti - 1 /\ tj' = tj
        /\ C!At(ti) \notin C!Blanks
        /\ UNCHANGED <<typed, first, path, kids, lc, shown>>
    BY <1>4 DEF C!BackToBlank
  <2>2. /\ path = << >> /\ tj = C!len - 1 /\ InBuf
        /\ \A k \in ti + 1 .. C!len - 1 : C!At(k) \notin C!Blanks
    BY <2>1 DEF PathInv, TabInv
  <2>3. C!len \in Nat
    BY Buf DEF TabInv, TabTypes
  <2>4. ASSUME NEW k \in ti .. C!len - 1 PROVE C!At(k) \notin C!Blanks
    <3>1. k = ti \/ k \in ti + 1 .. C!len - 1
      BY <2>2, <2>3 DEF InBuf
    <3> QED BY <2>1, <2>2, <3>1
  <2>5. ti' + 1 = ti
    BY <2>1, <2>2, <2>3 DEF InBuf
  <2>6. \A k \in ti' + 1 .. C!len' - 1 : C!At(k)' \notin C!Blanks
    BY <2>1, <2>4, <2>5, SameBuf
  <2> QED BY <2>1, <2>2, <2>6, SameBuf DEF PathInv, Asked
<1>5. CASE C!AtBlank
  <2>1. /\ tpc = "blank" /\ tpc' \in {"shown", "slash"}
        /\ ti >= 0 => C!At(ti) \in C!Blanks
        /\ UNCHANGED <<typed, first, ti, tj, path, kids, lc, shown>>
    BY <1>5 DEF C!AtBlank
  <2>2. /\ path = << >> /\ InBuf
        /\ \A k \in ti + 1 .. C!len - 1 : C!At(k) \notin C!Blanks
    BY <2>1 DEF PathInv, TabInv
  <2>3. LastBlank
    BY <2>1, <2>2 DEF InBuf, LastBlank
  <2>4. LastBlank'
    BY <2>1, <2>3, SamePlace
  <2> QED BY <2>1, <2>2, <2>4 DEF PathInv, Asked
<1>6. CASE C!BackToSlash
  <2>1. /\ tpc = "slash" /\ tpc' = "slash" /\ tj > 0 /\ tj' = tj - 1
        /\ UNCHANGED <<typed, first, ti, path, kids, lc, shown>>
    BY <1>6 DEF C!BackToSlash
  <2>2. path = << >> /\ LastBlank
    BY <2>1 DEF PathInv
  <2>3. C!len \in Nat
    BY Buf DEF TabInv, TabTypes
  <2>4. LastBlank'
    BY <2>1, <2>2, <2>3, SameBuf DEF LastBlank, InBuf
  <2> QED BY <2>1, <2>2, <2>4 DEF PathInv, Asked
<1>7. CASE C!AtSlash
  <2>1. /\ tpc = "slash" /\ ~(tj > 0 /\ C!At(tj) # "/")
        /\ IF tj - ti <= 0 THEN tpc' = "shown" /\ UNCHANGED path
                           ELSE tpc' = "ask" /\ path' = C!Trimmed(C!Directory)
        /\ UNCHANGED <<typed, first, ti, tj, kids, lc, shown>>
    BY <1>7 DEF C!AtSlash
  <2>2. path = << >> /\ LastBlank /\ shown = << >>
    BY <2>1 DEF PathInv, TabInv
  <2>3. CASE tj - ti <= 0
    BY <2>1, <2>2, <2>3, NoPath
  <2>4. CASE ~(tj - ti <= 0)
    <3>1. C!len \in Nat
      BY Buf DEF TabInv, TabTypes
    <3>2. ti < tj /\ tj > 0
      BY <2>2, <2>4, <3>1 DEF LastBlank, InBuf
    <3>3. C!At(tj) = "/" /\ tpc' = "ask" /\ path' = C!Trimmed(C!Directory)
      BY <2>1, <2>4, <3>2
    <3> QED BY <2>1, <2>2, <3>2, <3>3, SamePlace DEF PathInv, Asked
  <2> QED BY <2>3, <2>4
<1>8. CASE C!Ask
  <2>1. /\ tpc = "ask" /\ tpc' \in {"shown", "match"}
        /\ UNCHANGED <<typed, first, ti, tj, path, lc, shown>>
    BY <1>8 DEF C!Ask
  <2>2. /\ LastBlank /\ ti < tj /\ C!At(tj) = "/" /\ path = C!Trimmed(C!Directory)
        /\ shown = << >>
    BY <2>1 DEF PathInv, Asked, TabInv
  <2> QED BY <2>1, <2>2, SamePlace DEF PathInv, Asked
<1>9. CASE C!Match
  <2> DEFINE before == SubSeq(C!buf, 1, tj + 1)
             found  == {name \in kids : C!IsPrefix(SubSeq(C!buf, tj + 2, C!len), name)}
  <2>1. /\ tpc = "match" /\ C!Show(before, found) /\ UNCHANGED <<typed, first, ti, tj, path, kids>>
    BY <1>9 DEF C!Match
  <2>2. /\ LastBlank /\ ti < tj /\ C!At(tj) = "/" /\ path = C!Trimmed(C!Directory)
        /\ shown = << >>
    BY <2>1 DEF PathInv, Asked, TabInv
  <2>3. /\ tpc' = "shown"
        /\ shown' = shown \/ \E name \in found : shown' = before \o name
    BY <2>1 DEF C!Show
  <2>4. shown' # << >> => \E name \in kids' : shown' = before \o name
    BY <2>1, <2>2, <2>3
  <2>5. before = SubSeq(C!buf', 1, tj' + 1)
    BY <2>1, SameBuf
  <2> HIDE DEF before, found
  <2> QED BY <2>1, <2>2, <2>3, <2>4, <2>5, SamePlace DEF PathInv, Asked
<1>10. CASE C!Leave
  <2>1. tpc' = "edit" /\ path' = << >>
    BY <1>10 DEF C!Leave
  <2> QED BY <2>1, NoPath
<1>11. CASE UNCHANGED tabVars
  <2>1. UNCHANGED <<typed, tpc, first, ti, tj, path, kids, lc, shown>>
    BY <1>11 DEF tabVars
  <2> QED BY <2>1, SamePlace, SameBuf DEF PathInv, Asked
<1> QED
  BY <1>1, <1>2, <1>3, <1>4, <1>5, <1>6, <1>7, <1>8, <1>9, <1>10, <1>11 DEF C!Next

-----------------------------------------------------------------------------
(* The prompt.                                                             *)

\* The line that is entered is one sdssplitlen takes.
LEMMA ShownIsALine ==
  ASSUME TabInv
  PROVE  /\ Len(shown) \in 0..MaxLen
         /\ Separators(shown) \in [0..(Len(shown) - 1) -> {"sep", "char"}]
<1>1. shown \in Seq(C!Chars) /\ Len(shown) <= MaxLen
  BY DEF TabInv, TabTypes
<1>2. Len(shown) \in Nat
  BY <1>1
<1>3. Separators(shown) \in [0..(Len(shown) - 1) -> {"sep", "char"}]
  BY Zenon DEF Separators
<1> QED BY <1>1, <1>2, <1>3, Bounds

PromptInv == WordsInv /\ TabInv /\ PathInv /\ EnteredInv

LEMMA PromptInit == Start => PromptInv
<1>1. Init => EnteredInv
  BY DEF Init, EnteredInv
<1> QED BY <1>1, WordsInit, TabInvInit, PathInvInit DEF Start, PromptInv

LEMMA PromptStep == PromptInv /\ [Step]_<<vars, tabVars>> => PromptInv'
<1> SUFFICES ASSUME PromptInv, [Step]_<<vars, tabVars>> PROVE PromptInv'
  OBVIOUS
<1>0. WordsInv /\ TabInv /\ PathInv /\ EnteredInv
  BY DEF PromptInv
<1>w. ASSUME [Next]_vars, UNCHANGED tabVars PROVE WordsInv' /\ TabInv' /\ PathInv'
  BY <1>0, <1>w, WordsStep, TabInvStep, PathInvStep
<1>1. CASE Edit
  <2>1. pc' = "idle" /\ UNCHANGED vars /\ pc = "idle"
    BY <1>1 DEF Edit, vars
  <2>2. WordsInv' /\ TabInv' /\ PathInv'
    BY <1>0, <1>1, <2>1, WordsStep, TabInvStep, PathInvStep DEF Edit
  <2> QED BY <2>1, <2>2 DEF EnteredInv, PromptInv
<1>2. CASE EnterShown
  <2>1. /\ tpc = "shown" /\ shown # << >>
        /\ Enter(Len(shown), Separators(shown)) /\ UNCHANGED tabVars
    BY <1>2 DEF EnterShown
  <2>2. Next
    BY <1>0, <2>1, ShownIsALine DEF Next
  <2>3. EnteredInv'
    <3>1. len' = Len(shown) /\ line' = Separators(shown) /\ shown' = shown
      BY <2>1 DEF Enter, tabVars
    <3> QED BY <2>1, <3>1 DEF EnteredInv, Separators
  <2> QED BY <1>w, <2>1, <2>2, <2>3 DEF PromptInv
<1>3. CASE EnterTyped
  <2>1. Next /\ UNCHANGED tabVars /\ tpc = "edit"
    BY <1>3 DEF EnterTyped, Next
  <2>2. EnteredInv'
    BY <2>1 DEF EnteredInv, tabVars
  <2> QED BY <1>w, <2>1, <2>2 DEF PromptInv
<1>4. CASE Process
  <2>1. Next /\ UNCHANGED tabVars
    BY <1>4 DEF Process, Next
  <2>2. pc' = "idle" \/ (pc # "idle" /\ UNCHANGED <<len, line>>)
    BY <1>4 DEF Process, Grow, Scan, Last, CopyToNull, Cleanup, Free, Gone, lineVars
  <2>3. EnteredInv'
    BY <1>0, <2>1, <2>2 DEF EnteredInv, tabVars, Separators
  <2> QED BY <1>w, <2>1, <2>3 DEF PromptInv
<1>5. CASE UNCHANGED <<vars, tabVars>>
  <2>1. UNCHANGED vars /\ UNCHANGED tabVars
    BY <1>5
  <2>2. EnteredInv'
    BY <1>0, <2>1 DEF EnteredInv, vars, lineVars, tabVars, Separators
  <2> QED BY <1>w, <2>1, <2>2 DEF PromptInv
<1> QED BY <1>1, <1>2, <1>3, <1>4, <1>5 DEF Step

LEMMA PromptInvariant == Prompt => []PromptInv
BY PromptInit, PromptStep, PTL DEF Prompt

LEMMA SameSeq ==
  ASSUME NEW S, NEW s \in Seq(S), NEW t \in Seq(S), Len(s) = Len(t),
         \A k \in 1..Len(s) : s[k] = t[k]
  PROVE  s = t
OBVIOUS

\* A path that ends in a letter is not stripped.
LEMMA NothingStripped ==
  ASSUME NEW S, NEW p \in Seq(S), p # << >>, p[Len(p)] # "/"
  PROVE  Stripped(p) = p
<1> DEFINE keep == {k \in 1..Len(p) : k = 1 \/ \E m \in k..Len(p) : p[m] # "/"}
<1>1. Len(p) \in Nat /\ Len(p) >= 1
  OBVIOUS
<1>2. keep = 1..Len(p)
  <2>1. \A k \in 1..Len(p) : Len(p) \in k..Len(p)
    BY <1>1
  <2> QED BY <2>1, Zenon
<1>3. Cardinality(keep) = Len(p)
  <2>1. Cardinality(1..Len(p)) = Len(p)
    BY <1>1, FS_Interval
  <2> HIDE DEF keep
  <2> QED BY <1>2, <2>1
<1>4. SubSeq(p, 1, Len(p)) = p
  BY <1>1
<1>5. Stripped(p) = SubSeq(p, 1, Cardinality(keep))
  BY Zenon DEF Stripped
<1> HIDE DEF keep
<1> QED BY <1>3, <1>4, <1>5

LEMMA OneOrMore ==
  ASSUME NEW n \in Nat, n >= 1
  PROVE  n = 1 \/ n > 1
OBVIOUS

\* What is put together again of a path that was trimmed.
LEMMA Untrimmed ==
  ASSUME NEW S, NEW d \in Seq(S), d # << >>, d[Len(d)] = "/",
         Len(d) = 2 => d[1] # "/"
  PROVE  (IF C!Trimmed(d) = <<"/">> THEN C!Trimmed(d) ELSE Append(C!Trimmed(d), "/")) = d
<1>1. Len(d) \in Nat /\ Len(d) >= 1
  OBVIOUS
<1>0. Len(d) = 1 \/ Len(d) > 1
  BY <1>1, OneOrMore
<1>2. CASE Len(d) = 1
  <2>1. C!Trimmed(d) = d
    BY <1>2 DEF C!Trimmed
  <2>2. d = <<"/">>
    BY <1>2
  <2> QED BY <2>1, <2>2
<1>3. CASE Len(d) > 1
  <2> DEFINE q == SubSeq(d, 1, Len(d) - 1)
  <2>1. C!Trimmed(d) = q
    BY <1>3 DEF C!Trimmed, C!Front, C!Last
  <2>2. q \in Seq(S) /\ Len(q) = Len(d) - 1 /\ \A k \in 1..(Len(d) - 1) : q[k] = d[k]
    BY <1>1, <1>3, Beginning
  <2>3. q # <<"/">>
    <3> HIDE DEF q
    <3> SUFFICES ASSUME q = <<"/">> PROVE FALSE
      OBVIOUS
    <3>1. Len(q) = 1 /\ q[1] = "/"
      OBVIOUS
    <3>2. Len(d) = 2 /\ d[1] = "/"
      BY <1>1, <2>2, <3>1
    <3> QED BY <3>2
  <2>4. Append(q, "/") = d
    <3> HIDE DEF q
    <3>1. d[Len(d)] \in S
      BY <1>1
    <3>2. "/" \in S
      BY <3>1
    <3>3. /\ Append(q, "/") \in Seq(S) /\ Len(Append(q, "/")) = Len(d)
          /\ \A k \in 1..(Len(d) - 1) : Append(q, "/")[k] = q[k]
          /\ Append(q, "/")[Len(d)] = "/"
      BY <1>1, <2>2, <3>2
    <3>4. \A k \in 1..Len(d) : Append(q, "/")[k] = d[k]
      <4>1. \A k \in 1..Len(d) : k \in 1..(Len(d) - 1) \/ k = Len(d)
        BY <1>1
      <4> QED BY <2>2, <3>3, <4>1
    <3> QED BY <3>3, <3>4, SameSeq
  <2> QED BY <2>1, <2>3, <2>4
<1> QED BY <1>0, <1>2, <1>3, Zenon

\* The last token is what follows the last separator.
LEMMA LastToken ==
  ASSUME WordsInv, pc = "done", NEW b \in Nat, b + 1 < len,
         line[b] = "sep", \A k \in b + 1 .. len - 1 : line[k] # "sep"
  PROVE  count \in 1..Len(tokens) /\ tokens[count][1] = b + 1 /\ tokens[count][2] = len
<1>1. /\ count = Len(tokens) /\ len \in Nat /\ tokens \in Seq(Pair) /\ Len(tokens) \in Nat
      /\ \A k \in 1..Len(tokens) : Word(tokens[k])
      /\ \A k, m \in 1..Len(tokens) : k < m => tokens[k][2] < tokens[m][1]
      /\ \A i \in 0..(len - 1) : line[i] # "sep" =>
           \E k \in 1..Len(tokens) : tokens[k][1] <= i /\ i < tokens[k][2]
  BY DEF WordsInv, Types, Split
<1>2. PICK k \in 1..Len(tokens) : tokens[k][1] <= len - 1 /\ len - 1 < tokens[k][2]
  <2>1. len - 1 \in 0..(len - 1) /\ len - 1 \in b + 1 .. len - 1
    BY <1>1
  <2> QED BY <1>1, <2>1
<1>3. \A m \in 1..Len(tokens) : /\ tokens[m][1] \in Nat /\ tokens[m][2] \in Nat
                                /\ tokens[m][1] < tokens[m][2] /\ tokens[m][2] <= len
  <2>1. \A m \in 1..Len(tokens) : tokens[m] \in Pair
    BY <1>1
  <2> QED BY <1>1, <2>1 DEF Pair, Word
<1>4. tokens[k][2] = len
  BY <1>1, <1>2, <1>3
<1>5. k = count
  <2> SUFFICES ASSUME k # count PROVE FALSE
    OBVIOUS
  <2>1. count \in 1..Len(tokens) /\ k < count
    BY <1>1, <1>2
  <2>2. tokens[k][2] < tokens[count][1]
    BY <1>1, <2>1
  <2> QED BY <1>1, <1>3, <1>4, <2>1, <2>2
<1>6. tokens[k][1] = b + 1
  <2> DEFINE t == tokens[k]
  <2>1. /\ \A i \in t[1]..(t[2] - 1) : line[i] # "sep"
        /\ t[1] = 0 \/ line[t[1] - 1] = "sep"
    BY <1>1 DEF Word
  <2>2. t[1] \in Nat /\ t[1] <= len - 1 /\ t[2] = len
    BY <1>2, <1>3, <1>4
  <2> HIDE DEF t
  <2>3. ~(t[1] <= b)
    <3> SUFFICES ASSUME t[1] <= b PROVE FALSE
      OBVIOUS
    <3>1. b \in t[1]..(t[2] - 1)
      BY <1>1, <2>2
    <3> QED BY <2>1, <3>1
  <2>4. ~(t[1] > b + 1)
    <3> SUFFICES ASSUME t[1] > b + 1 PROVE FALSE
      OBVIOUS
    <3>1. t[1] # 0 /\ t[1] - 1 \in b + 1 .. len - 1
      BY <1>1, <2>2
    <3> QED BY <2>1, <3>1
  <2>5. t[1] = b + 1
    BY <2>2, <2>3, <2>4
  <2> QED BY <2>5 DEF t
<1> QED BY <1>4, <1>5, <1>6

LEMMA Middle ==
  ASSUME NEW S, NEW s \in Seq(S), NEW a \in Nat, NEW b \in Nat, a + 2 <= b + 1, b + 1 <= Len(s)
  PROVE  /\ SubSeq(s, a + 2, b + 1) \in Seq(S) /\ Len(SubSeq(s, a + 2, b + 1)) = b - a
         /\ \A k \in 1..(b - a) : SubSeq(s, a + 2, b + 1)[k] = s[a + 1 + k]
<1>1. /\ a + 2 \in 1..(Len(s) + 1) /\ b + 1 \in 0..Len(s)
      /\ (b + 1) - (a + 2) + 1 = b - a /\ \A k \in 1..(b - a) : (a + 2) + k - 1 = a + 1 + k
  OBVIOUS
<1> DEFINE m == SubSeq(s, a + 2, b + 1)
<1>2. /\ m \in Seq(S) /\ Len(m) = IF a + 2 <= b + 1 THEN (b + 1) - (a + 2) + 1 ELSE 0
      /\ \A k \in 1..((b + 1) - (a + 2) + 1) : m[k] = s[(a + 2) + k - 1]
  BY <1>1, Piece
<1> HIDE DEF m
<1>3. m \in Seq(S) /\ Len(m) = b - a
  BY <1>1, <1>2
<1>4. ASSUME NEW k \in 1..(b - a) PROVE m[k] = s[a + 1 + k]
  <2>1. m[k] = s[(a + 2) + k - 1]
    BY <1>1, <1>2
  <2> QED BY <1>1, <2>1
<1> QED BY <1>3, <1>4 DEF m

\* A part of a part of a line, and a name after it.
LEMMA PartAndName ==
  ASSUME NEW S, NEW s \in Seq(S), NEW a \in Nat, NEW b \in Nat, a + 2 <= b + 1, b + 1 <= Len(s),
         NEW name \in Seq(S), NEW w, w = SubSeq(s, 1, b + 1) \o name
  PROVE  /\ w \in Seq(S) /\ Len(w) = b + 1 + Len(name)
         /\ \A k \in 1..(b + 1) : w[k] = s[k]
         /\ \A k \in b + 2 .. Len(w) : w[k] = name[k - (b + 1)]
         /\ SubSeq(w, a + 2, Len(w)) = SubSeq(s, a + 2, b + 1) \o name
<1> DEFINE front == SubSeq(s, 1, b + 1)
           d == SubSeq(s, a + 2, b + 1)
           e == SubSeq(w, a + 2, Len(w))
<1>0. Len(s) \in Nat /\ b + 1 \in 0..Len(s) /\ Len(name) \in Nat
  OBVIOUS
<1>1. front \in Seq(S) /\ Len(front) = b + 1 /\ \A k \in 1..(b + 1) : front[k] = s[k]
  BY <1>0, Beginning
<1>2. /\ d \in Seq(S) /\ Len(d) = b - a
      /\ \A k \in 1..(b - a) : d[k] = s[a + 1 + k]
  BY Middle
<1>w. w = front \o name
  OBVIOUS
<1> HIDE DEF front, d
<1>3. /\ w \in Seq(S) /\ Len(w) = b + 1 + Len(name)
      /\ \A k \in 1..(b + 1) : w[k] = front[k]
      /\ \A k \in b + 2 .. b + 1 + Len(name) : w[k] = name[k - (b + 1)]
  <2>0. b + 1 \in Nat /\ (b + 1) + 1 = b + 2
    OBVIOUS
  <2>1. /\ front \o name \in Seq(S) /\ Len(front \o name) = b + 1 + Len(name)
        /\ \A k \in 1..(b + 1) : (front \o name)[k] = front[k]
        /\ \A k \in (b + 1) + 1 .. b + 1 + Len(name) : (front \o name)[k] = name[k - (b + 1)]
    BY <1>1, <2>0, JoinedAt
  <2> QED BY <1>w, <2>0, <2>1
<1>4. /\ e \in Seq(S) /\ Len(e) = Len(w) - (a + 1)
      /\ \A k \in 1..(Len(w) - (a + 1)) : e[k] = w[a + 1 + k]
  <2>1. a + 1 \in 0..Len(w) /\ (a + 1) + 1 = a + 2
    BY <1>0, <1>3
  <2> QED BY <1>3, <2>1, Suffix
<1>5. /\ d \o name \in Seq(S) /\ Len(d \o name) = b - a + Len(name)
      /\ \A k \in 1..(b - a) : (d \o name)[k] = d[k]
      /\ \A k \in b - a + 1 .. b - a + Len(name) : (d \o name)[k] = name[k - (b - a)]
  <2> DEFINE c == b - a
  <2>1. c \in Nat
    OBVIOUS
  <2>2. d \in Seq(S) /\ c = Len(d)
    BY <1>2
  <2> HIDE DEF c
  <2>3. /\ d \o name \in Seq(S) /\ Len(d \o name) = c + Len(name)
        /\ \A k \in 1..c : (d \o name)[k] = d[k]
        /\ \A k \in c + 1 .. c + Len(name) : (d \o name)[k] = name[k - c]
    BY <2>1, <2>2, JoinedAt
  <2> QED BY <2>3 DEF c
<1> HIDE DEF e
<1>6. Len(e) = Len(d \o name)
  BY <1>0, <1>3, <1>4, <1>5
<1>7. ASSUME NEW k \in 1..Len(e) PROVE e[k] = (d \o name)[k]
  <2>a. Len(e) = b - a + Len(name) /\ Len(w) - (a + 1) = b - a + Len(name)
    BY <1>0, <1>3, <1>4
  <2>b. k \in 1..(b - a + Len(name))
    BY <2>a
  <2>c. e[k] = w[a + 1 + k]
    BY <1>4, <2>a, <2>b
  <2>d. k \in Nat /\ k >= 1 /\ k <= b - a + Len(name)
    BY <1>0, <2>b
  <2>0. k \in Nat /\ k >= 1 /\ k <= b - a + Len(name) /\ e[k] = w[a + 1 + k]
    BY <2>c, <2>d
  <2>1. CASE k <= b - a
    <3>1. a + 1 + k \in 1..(b + 1) /\ k \in 1..(b - a)
      BY <2>0, <2>1
    <3> QED BY <1>1, <1>2, <1>3, <1>5, <2>0, <3>1
  <2>2. CASE ~(k <= b - a)
    <3>1. /\ a + 1 + k \in b + 2 .. b + 1 + Len(name)
          /\ k \in b - a + 1 .. b - a + Len(name)
          /\ a + 1 + k - (b + 1) = k - (b - a)
      BY <1>0, <2>0, <2>2
    <3>2. w[a + 1 + k] = name[a + 1 + k - (b + 1)]
      BY <1>3, <3>1
    <3>3. (d \o name)[k] = name[k - (b - a)]
      BY <1>5, <3>1
    <3> QED BY <2>0, <3>1, <3>2, <3>3
  <2> QED BY <2>1, <2>2
<1>8. e = d \o name
  BY <1>4, <1>5, <1>6, <1>7, SameSeq
<1> QED BY <1>1, <1>3, <1>8 DEF e, d

LEMMA Blank ==
  /\ \A c \in C!Blanks : c = " " \/ c = "\t"
  /\ " " \in C!Blanks
BY Zenon DEF C!Blanks

\* What the indices say of the characters of an ordinary line.
LEMMA Ordinary ==
  ASSUME TabInv, PathInv, Asked, ~Odd(typed)
  PROVE  /\ ti \in Nat /\ tj \in Nat /\ ti < tj /\ tj + 1 <= Len(C!buf)
         /\ C!buf \in Seq(C!Chars)
         /\ C!buf[ti + 1] = " " /\ C!buf[tj + 1] = "/"
         /\ \A k \in ti + 2 .. tj + 1 : C!buf[k] # " "
         /\ (tj = ti + 2 => C!buf[ti + 2] # "/")
<1>0. LastBlank /\ ti < tj
  BY DEF PathInv
<1>s. C!At(tj) = "/"
  BY DEF PathInv
<1>1. /\ C!buf \in Seq(C!Chars) /\ C!len = Len(typed) - first /\ C!len \in Nat
      /\ Len(C!buf) = C!len
      /\ \A k \in 0..(C!len - 1) : C!At(k) = typed[first + k + 1]
      /\ first \in Nat /\ Len(typed) \in Nat
  <2>1. typed \in Seq(C!Chars) /\ first \in 0..Len(typed)
    BY DEF TabInv, TabTypes
  <2>2. first \in Nat /\ Len(typed) \in Nat
    BY <2>1
  <2> QED BY <2>1, <2>2, Buf
<1>2. ti \in 0..(C!len - 1) /\ tj \in 0..(C!len - 1)
  BY <1>0 DEF LastBlank, InBuf
<1>3. ti \in Nat /\ tj \in Nat /\ tj + 1 <= Len(C!buf)
  BY <1>1, <1>2
<1>4. /\ \A k \in 1..Len(typed) : typed[k] # "\t"
      /\ \A k \in 1..Len(typed) : k > 1 /\ typed[k] = "/" => typed[k - 1] # "/"
  BY Zenon DEF Odd
<1>5. C!At(ti) = " "
  <2>1. first + ti + 1 \in 1..Len(typed)
    BY <1>1, <1>2
  <2>2. C!At(ti) = typed[first + ti + 1]
    BY <1>1, <1>2
  <2>3. C!At(ti) # "\t"
    BY <1>4, <2>1, <2>2, Zenon
  <2>4. C!At(ti) \in C!Blanks
    BY <1>0 DEF LastBlank
  <2> QED BY <2>3, <2>4, Blank, Zenon
<1>6. ASSUME NEW k \in ti + 2 .. tj + 1 PROVE C!buf[k] # " "
  <2>1. k - 1 \in ti + 1 .. C!len - 1 /\ (k - 1) + 1 = k
    BY <1>1, <1>2
  <2>2. C!At(k - 1) \notin C!Blanks
    BY <1>0, <2>1 DEF LastBlank
  <2>3. C!At(k - 1) = C!buf[(k - 1) + 1]
    BY DEF C!At
  <2> QED BY <2>1, <2>2, <2>3, Blank
<1>7. ASSUME tj = ti + 2 PROVE C!buf[ti + 2] # "/"
  <2>1. /\ ti + 1 \in 0..(C!len - 1) /\ first + tj + 1 \in 1..Len(typed)
        /\ first + tj + 1 > 1 /\ (first + tj + 1) - 1 = first + (ti + 1) + 1
        /\ (ti + 1) + 1 = ti + 2
    BY <1>0, <1>1, <1>2, <1>7
  <2>2. C!At(ti + 1) = typed[first + (ti + 1) + 1] /\ C!At(tj) = typed[first + tj + 1]
    BY <1>1, <1>2, <2>1
  <2>3. typed[(first + tj + 1) - 1] # "/"
    BY <1>4, <1>s, <2>1, <2>2
  <2>4. C!At(ti + 1) = C!buf[(ti + 1) + 1]
    BY DEF C!At
  <2> QED BY <2>1, <2>2, <2>3, <2>4
<1> QED BY <1>0, <1>1, <1>3, <1>s, <1>5, <1>6, <1>7 DEF C!At

\* The last token of the line that is shown is the directory and the name.
LEMMA LastIsThePath ==
  ASSUME PromptInv, tpc = "shown", pc = "done", path # << >>, ~Odd(typed)
  PROVE  \E name \in kids : /\ Token(count) = C!Directory \o name
                            /\ name \in Seq(C!Chars) /\ Len(name) > 0
                            /\ name[Len(name)] # "/"
<1>1. /\ WordsInv /\ TabInv /\ PathInv /\ Asked
      /\ shown # << >> /\ len = Len(shown) /\ line = Separators(shown)
  BY DEF PromptInv, Asked, EnteredInv
<1>2. PICK name \in kids : shown = SubSeq(C!buf, 1, tj + 1) \o name
  BY <1>1 DEF PathInv
<1>m. name \in Commands \cup Names
  BY <1>1, <1>2 DEF TabInv, TabTypes
<1>3. name \in Seq(C!Chars) /\ Len(name) \in Nat /\ Len(name) > 0
  BY <1>m, NameChars
<1>c. \A k \in 1..Len(name) : name[k] # " " /\ name[k] # "/"
  BY <1>m, NameChars
<1>4. /\ ti \in Nat /\ tj \in Nat /\ ti < tj /\ tj + 1 <= Len(C!buf)
      /\ C!buf \in Seq(C!Chars)
  BY <1>1, Ordinary
<1>b. C!buf[ti + 1] = " " /\ \A k \in ti + 2 .. tj + 1 : C!buf[k] # " "
  BY <1>1, Ordinary
<1> DEFINE S == C!Chars
           s == C!buf
<1> HIDE DEF S, s
<1>5. /\ Len(shown) = tj + 1 + Len(name)
      /\ \A k \in 1..(tj + 1) : shown[k] = s[k]
      /\ \A k \in tj + 2 .. Len(shown) : shown[k] = name[k - (tj + 1)]
      /\ SubSeq(shown, ti + 2, Len(shown)) = SubSeq(s, ti + 2, tj + 1) \o name
  <2>1. ti + 2 <= tj + 1
    BY <1>1, <1>4
  <2>2. s \in Seq(S) /\ name \in Seq(S) /\ tj + 1 <= Len(s)
    BY <1>3, <1>4 DEF s, S
  <2>3. shown = SubSeq(s, 1, tj + 1) \o name
    BY <1>2 DEF s
  <2> QED BY <1>4, <2>1, <2>2, <2>3, PartAndName
<1>6. shown[ti + 1] = " "
  <2>1. ti + 1 \in 1..(tj + 1)
    BY <1>1, <1>4
  <2> QED BY <1>b, <1>5, <2>1 DEF s
<1>7. ASSUME NEW k \in ti + 1 .. Len(shown) - 1 PROVE shown[k + 1] # " "
  <2>0. k + 1 \in ti + 2 .. tj + 1 \/ k + 1 \in tj + 2 .. Len(shown)
    BY <1>3, <1>4, <1>5
  <2>1. CASE k + 1 \in ti + 2 .. tj + 1
    <3>1. k + 1 \in 1..(tj + 1)
      BY <1>4, <2>1
    <3>2. shown[k + 1] = s[k + 1] /\ s[k + 1] # " "
      BY <1>b, <1>5, <2>1, <3>1 DEF s
    <3> QED BY <3>2
  <2>2. CASE k + 1 \in tj + 2 .. Len(shown)
    <3>1. (k + 1) - (tj + 1) \in 1..Len(name)
      BY <1>3, <1>4, <1>5, <2>2
    <3>2. shown[k + 1] = name[(k + 1) - (tj + 1)]
      <4>1. \A m \in tj + 2 .. Len(shown) : shown[m] = name[m - (tj + 1)]
        BY <1>5
      <4> QED BY <2>2, <4>1, Zenon
    <3> QED BY <1>c, <3>1, <3>2
  <2> QED BY <2>0, <2>1, <2>2
<1>8. /\ ti + 1 < Len(shown) /\ ti \in 0..(Len(shown) - 1)
      /\ \A k \in ti + 1 .. Len(shown) - 1 : k \in 0..(Len(shown) - 1)
  BY <1>1, <1>3, <1>4, <1>5
<1>9. line[ti] = "sep" /\ \A k \in ti + 1 .. len - 1 : line[k] # "sep"
  <2>1. \A k \in 0..(Len(shown) - 1) : line[k] = IF shown[k + 1] = " " THEN "sep" ELSE "char"
    BY <1>1 DEF Separators
  <2>2. line[ti] = "sep"
    BY <1>6, <1>8, <2>1
  <2>3. ASSUME NEW k \in ti + 1 .. len - 1 PROVE line[k] # "sep"
    <3>1. k \in ti + 1 .. Len(shown) - 1
      BY <1>1
    <3> QED BY <1>7, <1>8, <2>1, <3>1
  <2> QED BY <2>2, <2>3
<1>10. tokens[count][1] = ti + 1 /\ tokens[count][2] = len
  BY <1>1, <1>4, <1>8, <1>9, LastToken
<1>11. Token(count) = C!Directory \o name
  <2>1. (ti + 1) + 1 = ti + 2
    BY <1>4
  <2>2. Token(count) = SubSeq(shown, ti + 2, Len(shown))
    BY <1>1, <1>10, <2>1 DEF Token
  <2> QED BY <1>5, <2>2 DEF s, C!Directory
<1>12. name[Len(name)] # "/"
  <2>1. Len(name) \in 1..Len(name)
    BY <1>3
  <2> QED BY <1>c, <2>1
<1> QED BY <1>3, <1>11, <1>12

\* What is asked for and what was cut off make the directory.
LEMMA PathAndSlash ==
  ASSUME TabInv, PathInv, Asked, ~Odd(typed)
  PROVE  /\ C!Directory \in Seq(C!Chars) /\ C!Directory # << >>
         /\ (IF path = <<"/">> THEN path ELSE Append(path, "/")) = C!Directory
<1> DEFINE S == C!Chars
           s == C!buf
           d == C!Directory
<1>1. ti \in Nat /\ tj \in Nat /\ ti < tj /\ tj + 1 <= Len(s) /\ s \in Seq(S)
  BY Ordinary
<1>s. s[tj + 1] = "/" /\ (tj = ti + 2 => s[ti + 2] # "/")
  BY Ordinary
<1>2. d = SubSeq(s, ti + 2, tj + 1)
  BY DEF C!Directory
<1>p. path = C!Trimmed(d)
  BY DEF PathInv
<1> HIDE DEF S, s, d
<1>3. /\ d \in Seq(S) /\ Len(d) = tj - ti
      /\ \A k \in 1..(tj - ti) : d[k] = s[ti + 1 + k]
  <2>1. ti + 2 <= tj + 1
    BY <1>1
  <2> QED BY <1>1, <1>2, <2>1, Middle
<1>4. Len(d) >= 1 /\ d # << >>
  BY <1>1, <1>3
<1>5. d[Len(d)] = "/"
  <2>1. tj - ti \in 1..(tj - ti) /\ ti + 1 + (tj - ti) = tj + 1
    BY <1>1
  <2> QED BY <1>s, <1>3, <2>1
<1>6. ASSUME Len(d) = 2 PROVE d[1] # "/"
  <2>0. tj - ti = 2
    BY <1>3, <1>6
  <2>1. tj = ti + 2 /\ 1 \in 1..(tj - ti) /\ ti + 1 + 1 = ti + 2
    BY <1>1, <2>0
  <2>2. d[1] = s[ti + 2]
    BY <1>3, <2>1
  <2> QED BY <1>s, <2>1, <2>2
<1>7. (IF C!Trimmed(d) = <<"/">> THEN C!Trimmed(d) ELSE Append(C!Trimmed(d), "/")) = d
  BY <1>3, <1>4, <1>5, <1>6, Untrimmed
<1>8. (IF path = <<"/">> THEN path ELSE Append(path, "/")) = d
  BY <1>p, <1>7
<1> QED BY <1>3, <1>4, <1>8 DEF d, S

LEMMA PathsAgree == PromptInv => NamesChild
<1> SUFFICES ASSUME PromptInv, tpc = "shown", pc = "done", path # << >>, ~Odd(typed)
             PROVE  \E name \in kids :
                      Stripped(Token(count)) =
                        (IF path = <<"/">> THEN path ELSE Append(path, "/")) \o name
  BY DEF NamesChild
<1>1. PICK name \in kids : /\ Token(count) = C!Directory \o name
                           /\ name \in Seq(C!Chars) /\ Len(name) > 0
                           /\ name[Len(name)] # "/"
  BY LastIsThePath
<1>2. TabInv /\ PathInv /\ Asked
  BY DEF PromptInv, Asked
<1> DEFINE S == C!Chars
           d == C!Directory
           p == d \o name
<1>3. /\ d \in Seq(S)
      /\ (IF path = <<"/">> THEN path ELSE Append(path, "/")) = d
  BY <1>2, PathAndSlash
<1>4. name \in Seq(S)
  BY <1>1
<1> HIDE DEF S, d
<1>5. p \in Seq(S) /\ p # << >> /\ p[Len(p)] # "/"
  <2>1. /\ p \in Seq(S) /\ Len(p) = Len(d) + Len(name)
        /\ \A i \in Len(d) + 1 .. Len(d) + Len(name) : p[i] = name[i - Len(d)]
    BY <1>3, <1>4, Joined
  <2>2. Len(d) \in Nat /\ Len(name) \in Nat
    BY <1>3, <1>4
  <2> HIDE DEF p
  <2>3. /\ Len(p) \in Len(d) + 1 .. Len(d) + Len(name) /\ Len(p) - Len(d) = Len(name)
        /\ Len(p) > 0
    BY <1>1, <2>1, <2>2
  <2>4. p[Len(p)] = name[Len(name)]
    BY <2>1, <2>3
  <2>5. p # << >>
    BY <2>3
  <2> QED BY <1>1, <2>1, <2>4, <2>5
<1>6. Stripped(p) = p
  <2> HIDE DEF p
  <2> QED BY <1>5, NothingStripped
<1>7. Stripped(Token(count)) = d \o name
  BY <1>1, <1>6 DEF d
<1> QED BY <1>3, <1>7

-----------------------------------------------------------------------------
(* What the user meets at the prompt.                                      *)

\* A line that was completed is split like any other one: sdssplitlen has room
\* for its tokens, they are its words, and each is freed once.
THEOREM PromptSplits == Prompt => [](TypeOK /\ InRoom /\ Split /\ Freed)
<1>1. WordsInv => InRoom
  BY DEF WordsInv, Roomy
<1>2. WordsInv => Freed
  BY DEF WordsInv, Types, Freed
<1>3. PromptInv => TypeOK /\ InRoom /\ Split /\ Freed
  BY <1>1, <1>2, TypesMean DEF PromptInv, WordsInv
<1> QED BY <1>3, PromptInvariant, PTL

\* completion and path_completion look at no character before or after the
\* line (main.c): there is a blank where path_completion looks back for one.
THEOREM IndicesStay == Prompt => []IndicesInLine
<1>1. PromptInv => IndicesInLine
  BY TabMeans DEF PromptInv
<1> QED BY <1>1, PromptInvariant, PTL

\* The line that a completion puts in place of the one typed goes on from it:
\* what path_completion writes before the name is what was typed before it.
THEOREM CompletionExtends == Prompt => []Extends
<1>1. PromptInv => Extends
  BY DEF PromptInv, TabInv
<1> QED BY <1>1, PromptInvariant, PTL

\* The command that is run after a completion is on a child of the node that
\* path_completion asked for: it, sdssplitlen and processCommand find the same
\* path in the line.
THEOREM ChildNamed == Prompt => []NamesChild
BY PathsAgree, PromptInvariant, PTL
=============================================================================
