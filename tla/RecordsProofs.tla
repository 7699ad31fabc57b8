--------------------------- MODULE RecordsProofs ---------------------------
(***************************************************************************)
(* No serialize function writes outside of the block it has, the int       *)
(* arithmetic of resize_buffer does not overflow, and no deserialize       *)
(* function reads outside of the frame: for records of any schema, values  *)
(* of any size up to MaxRecord, and replies of any kind and length.        *)
(* Ints and longs of any width are read from the bytes they were written   *)
(* to; so every record that arrives whole is read back, and one that is    *)
(* cut is not taken for a whole one.                                       *)
(***************************************************************************)
EXTENDS Records, TLAPS
LOCAL INSTANCE WellFoundedInduction
LOCAL INSTANCE SequencesExt

-----------------------------------------------------------------------------
(* Induction over the indices of a sequence.                               *)

\* A set of naturals has a least element.
LEMMA Least ==
  ASSUME NEW T \in SUBSET Nat, T # {}
  PROVE  \E m \in T : \A k \in T : m <= k
<1> DEFINE R == {ss \in Nat \X Nat : ss[1] < ss[2]}
<1>1. IsWellFoundedOn(R, Nat)
  BY NatLessThanWellFounded DEF OpToRel
<1> HIDE DEF R
<1>2. \E x \in T : \A y \in T : ~ (<<y, x>> \in R)
  BY <1>1, WFMin
<1>3. PICK m \in T : \A k \in T : ~ (<<k, m>> \in R)
  BY <1>2
<1>4. \A k \in T : m <= k
  <2> TAKE k \in T
  <2>1. ~ (<<k, m>> \in R)
    BY <1>3
  <2>2. k \in Nat /\ m \in Nat
    OBVIOUS
  <2> QED BY <2>1, <2>2 DEF R
<1> QED BY <1>4

\* Induction over the indices of a finite iteration: a set that has 0 and,
\* with each index, the next one has them all.
LEMMA Induction ==
  ASSUME NEW w \in Nat, NEW S, 0 \in S,
         \A k \in 1..w : k - 1 \in S => k \in S
  PROVE  0..w \subseteq S
<1> DEFINE T == {k \in 0..w : k \notin S}
<1> SUFFICES ASSUME T # {} PROVE FALSE
  OBVIOUS
<1>1. T \in SUBSET Nat
  OBVIOUS
<1> HIDE DEF T
<1>2. PICK m \in T : \A k \in T : m <= k
  BY <1>1, Least
<1>3. m \in 0..w /\ m \notin S
  BY DEF T
<1>4. m # 0
  BY <1>3
<1>5. m - 1 \in 0..w /\ m - 1 \notin T
  BY <1>2, <1>3, <1>4
<1>6. m - 1 \in S
  BY <1>5 DEF T
<1> QED BY <1>3, <1>4, <1>6

\* A function is defined by its first value and by each of the following
\* values from the one before.
LEMMA Iteration ==
  ASSUME NEW v \in Int, NEW w \in Nat, NEW F \in [1..w -> [Int -> Int]]
  PROVE  \E g \in [0..w -> Int] : g[0] = v /\ \A k \in 1..w : g[k] = F[k][g[k - 1]]
<1> DEFINE Defined(n, g) == g[0] = v /\ \A k \in 1..n : g[k] = F[k][g[k - 1]]
           S == {n \in 0..w : \E g \in [0..n -> Int] : Defined(n, g)}
<1>1. 0 \in S
  <2> DEFINE g == [k \in 0..0 |-> v]
  <2>1. g \in [0..0 -> Int] /\ g[0] = v
    OBVIOUS
  <2> HIDE DEF g
  <2>2. Defined(0, g)
    BY <2>1
  <2> QED BY <2>1, <2>2
<1>2. ASSUME NEW n \in 1..w, n - 1 \in S PROVE n \in S
  <2>1. PICK g \in [0..(n - 1) -> Int] : Defined(n - 1, g)
    BY <1>2
  <2>a. n \in Nat /\ n - 1 \in 0..(n - 1)
    OBVIOUS
  <2>b. g[n - 1] \in Int /\ F[n] \in [Int -> Int]
    BY <2>a
  <2> DEFINE h == [k \in 0..n |-> IF k = n THEN F[n][g[n - 1]] ELSE g[k]]
  <2>2. h \in [0..n -> Int]
    <3> SUFFICES ASSUME NEW k \in 0..n PROVE h[k] \in Int
      OBVIOUS
    <3>1. CASE k = n
      BY <3>1, <2>b
    <3>2. CASE k # n
      BY <3>2, <2>a
    <3> QED BY <3>1, <3>2
  <2>3. \A k \in 0..(n - 1) : h[k] = g[k]
    BY <2>a
  <2>4. h[n] = F[n][g[n - 1]]
    BY <2>a
  <2> HIDE DEF h
  <2>5. h[0] = v
    BY <2>1, <2>2, <2>3, <2>a
  <2>6. ASSUME NEW k \in 1..n PROVE h[k] = F[k][h[k - 1]]
    <3>1. h[k - 1] = g[k - 1]
      BY <2>2, <2>3, <2>a
    <3>2. CASE k = n
      BY <3>1, <3>2, <2>2, <2>4
    <3>3. CASE k # n
      BY <3>1, <3>3, <2>1, <2>2, <2>3, <2>a
    <3> QED BY <3>2, <3>3
  <2>7. Defined(n, h)
    BY <2>5, <2>6
  <2> HIDE DEF Defined
  <2>8. \E f \in [0..n -> Int] : Defined(n, f)
    BY <2>2, <2>7
  <2> QED BY <2>8, <2>a
<1>3. w \in S
  <2> HIDE DEF S
  <2>1. 0..w \subseteq S
    BY <1>1, <1>2, Induction
  <2> QED BY <2>1
<1> QED BY <1>3

\* A function with the same recursion has the same values.
LEMMA Determined ==
  ASSUME NEW w \in Nat, NEW g \in [0..w -> Int], NEW f, f = [k \in 0..w |-> f[k]],
         f[0] = g[0], \A k \in 1..w : f[k - 1] = g[k - 1] => f[k] = g[k]
  PROVE  f \in [0..w -> Int]
<1> DEFINE S == {k \in 0..w : f[k] = g[k]}
<1>1. 0 \in S /\ \A k \in 1..w : k - 1 \in S => k \in S
  OBVIOUS
<1> HIDE DEF S
<1>2. 0..w \subseteq S
  BY <1>1, Induction
<1>3. \A k \in 0..w : f[k] \in Int
  BY <1>2 DEF S
<1> QED BY <1>3

-----------------------------------------------------------------------------
(* Ints and their bytes.                                                   *)

\* Quotient and remainder.
LEMMA DivMod ==
  ASSUME NEW b \in Nat \ {0}, NEW x \in Int
  PROVE  /\ x \div b \in Int /\ x % b \in 0..(b - 1)
         /\ x = b * (x \div b) + (x % b)
OBVIOUS

\* A product is smaller because its factor is.
LEMMA Smaller ==
  ASSUME NEW b \in Nat \ {0}, NEW x \in Int, NEW y \in Int, b * x < b * y
  PROVE  x < y
<1> SUFFICES ASSUME y <= x PROVE b * y <= b * x
  OBVIOUS
<1>1. x - y \in Nat
  OBVIOUS
<1>2. b * (x - y) >= 0
  BY <1>1
<1> QED BY <1>2

\* A quotient stays in a range that is as much smaller.
LEMMA Divided ==
  ASSUME NEW b \in Nat \ {0}, NEW x \in Int, NEW y \in Int, -(b * y) <= x, x <= b * y - 1
  PROVE  -y <= x \div b /\ x \div b <= y - 1
<1> DEFINE q == x \div b
           m == x % b
<1>1. q \in Int /\ m \in 0..(b - 1) /\ x = b * q + m
  BY DivMod
<1> HIDE DEF q, m
<1>2. b * q < b * y
  BY <1>1
<1>3. q < y
  BY <1>1, <1>2, Smaller
<1>4. b * (-y) < b * (q + 1)
  BY <1>1
<1>5. -y < q + 1
  BY <1>1, <1>4, Smaller
<1> QED BY <1>1, <1>3, <1>5 DEF q

\* What is left of n after each byte, as Encode has it.
Rest(n, w) ==
  CHOOSE rest : rest = [k \in 0..w |-> IF k = 0 THEN n ELSE rest[k - 1] \div Base]

\* The recursion of Encode.
LEMMA RestDef ==
  ASSUME NEW n \in Int, NEW w \in Nat, Base \in Nat \ {0}
  PROVE  /\ Rest(n, w) \in [0..w -> Int]
         /\ Rest(n, w)[0] = n
         /\ \A k \in 1..w : Rest(n, w)[k] = Rest(n, w)[k - 1] \div Base
         /\ Encode(n, w) = [i \in 1..w |-> Rest(n, w)[w - i] % Base]
<1> DEFINE F == [k \in 1..w |-> [r \in Int |-> r \div Base]]
<1>1. F \in [1..w -> [Int -> Int]] /\ \A k \in 1..w, r \in Int : F[k][r] = r \div Base
  OBVIOUS
<1> HIDE DEF F
<1>2. PICK g \in [0..w -> Int] : g[0] = n /\ \A k \in 1..w : g[k] = F[k][g[k - 1]]
  BY <1>1, Iteration, ZenonT(30)
<1>3. \A k \in 1..w : g[k] = g[k - 1] \div Base
  <2> TAKE k \in 1..w
  <2>1. g[k - 1] \in Int
    BY <1>2
  <2> QED BY <1>1, <1>2, <2>1
<1>4. g = [k \in 0..w |-> IF k = 0 THEN n ELSE g[k - 1] \div Base]
  BY <1>2, <1>3
<1> DEFINE r == Rest(n, w)
<1>5. r = [k \in 0..w |-> IF k = 0 THEN n ELSE r[k - 1] \div Base]
  BY <1>4, Zenon DEF Rest
<1>6. Encode(n, w) = [i \in 1..w |-> r[w - i] % Base]
  BY Zenon DEF Encode, Rest
<1> HIDE DEF r
<1>7. r[0] = n
  BY <1>5
<1>8. \A k \in 1..w : r[k] = r[k - 1] \div Base
  BY <1>5
<1>9. r = [k \in 0..w |-> r[k]]
  BY <1>5
<1>10. r[0] = g[0] /\ \A k \in 1..w : r[k - 1] = g[k - 1] => r[k] = g[k]
  BY <1>2, <1>3, <1>7, <1>8
<1>11. r \in [0..w -> Int]
  BY <1>9, <1>10, Determined
<1> QED BY <1>6, <1>7, <1>8, <1>11 DEF r

\* How many ints of k + 1 bytes are not negative.
Half(w) ==
  CHOOSE half : half = [k \in 0..w |-> IF k = 0 THEN Base \div 2 ELSE Base * half[k - 1]]

\* The recursion of IntsOf.
LEMMA HalfDef ==
  ASSUME NEW w \in Nat, Base \in Nat \ {0}
  PROVE  /\ Half(w) \in [0..w -> Int]
         /\ Half(w)[0] = Base \div 2
         /\ \A k \in 1..w : Half(w)[k] = Base * Half(w)[k - 1]
         /\ IntsOf(w) = -Half(w)[w - 1] .. Half(w)[w - 1] - 1
<1> DEFINE F == [k \in 1..w |-> [r \in Int |-> Base * r]]
<1>1. F \in [1..w -> [Int -> Int]] /\ \A k \in 1..w, r \in Int : F[k][r] = Base * r
  OBVIOUS
<1>a. Base \div 2 \in Int
  OBVIOUS
<1> HIDE DEF F
<1>2. PICK g \in [0..w -> Int] : g[0] = Base \div 2 /\ \A k \in 1..w : g[k] = F[k][g[k - 1]]
  BY <1>1, <1>a, Iteration, ZenonT(30)
<1>3. \A k \in 1..w : g[k] = Base * g[k - 1]
  <2> TAKE k \in 1..w
  <2>1. g[k - 1] \in Int
    BY <1>2
  <2> QED BY <1>1, <1>2, <2>1
<1>4. g = [k \in 0..w |-> IF k = 0 THEN Base \div 2 ELSE Base * g[k - 1]]
  BY <1>2, <1>3
<1> DEFINE h == Half(w)
<1>5. h = [k \in 0..w |-> IF k = 0 THEN Base \div 2 ELSE Base * h[k - 1]]
  BY <1>4, Zenon DEF Half
<1>6. IntsOf(w) = -h[w - 1] .. h[w - 1] - 1
  BY Zenon DEF IntsOf, Half
<1> HIDE DEF h
<1>7. h[0] = Base \div 2
  BY <1>5
<1>8. \A k \in 1..w : h[k] = Base * h[k - 1]
  <2> TAKE k \in 1..w
  <2>1. k \in 0..w /\ k # 0
    OBVIOUS
  <2> QED BY <1>5, <2>1, Zenon
<1>9. h = [k \in 0..w |-> h[k]]
  BY <1>5
<1>10. h[0] = g[0] /\ \A k \in 1..w : h[k - 1] = g[k - 1] => h[k] = g[k]
  BY <1>2, <1>3, <1>7, <1>8
<1>11. h \in [0..w -> Int]
  BY <1>9, <1>10, Determined
<1> QED BY <1>6, <1>7, <1>8, <1>11 DEF h

\* What is left of an int of w bytes are ints of fewer bytes, down to one.
LEMMA RestInRange ==
  ASSUME NEW w \in Nat \ {0}, Base \in Nat \ {0}, NEW n \in IntsOf(w)
  PROVE  n \in Int /\ Rest(n, w)[w - 1] \in -(Base \div 2) .. (Base \div 2) - 1
<1> DEFINE h == Half(w)
           r == Rest(n, w)
           S == {k \in 0..(w - 1) : -h[w - 1 - k] <= r[k] /\ r[k] <= h[w - 1 - k] - 1}
<1>1. /\ h \in [0..w -> Int] /\ h[0] = Base \div 2
      /\ \A k \in 1..w : h[k] = Base * h[k - 1]
      /\ n \in -h[w - 1] .. h[w - 1] - 1
  BY HalfDef
<1>2. n \in Int
  BY <1>1
<1>3. /\ r \in [0..w -> Int] /\ r[0] = n
      /\ \A k \in 1..w : r[k] = r[k - 1] \div Base
  BY <1>2, RestDef
<1> HIDE DEF h, r
<1>4. 0 \in S
  BY <1>1, <1>3
<1>5. ASSUME NEW k \in 1..(w - 1), k - 1 \in S PROVE k \in S
  <2>1. r[k] = r[k - 1] \div Base /\ r[k] \in Int /\ r[k - 1] \in Int
    BY <1>3
  <2>2. w - k \in 1..w /\ w - 1 - k \in 0..w /\ (w - k) - 1 = w - 1 - k
    OBVIOUS
  <2>3. h[w - k] = Base * h[w - 1 - k] /\ h[w - k] \in Int /\ h[w - 1 - k] \in Int
    BY <1>1, <2>2
  <2>4. w - 1 - (k - 1) = w - k
    OBVIOUS
  <2>5. -h[w - k] <= r[k - 1] /\ r[k - 1] <= h[w - k] - 1
    BY <1>5, <2>4
  <2>6. -h[w - 1 - k] <= r[k] /\ r[k] <= h[w - 1 - k] - 1
    BY <2>1, <2>3, <2>5, Divided
  <2> QED BY <2>6
<1> HIDE DEF S
<1>6. w - 1 \in Nat
  OBVIOUS
<1>7. 0..(w - 1) \subseteq S
  BY <1>4, <1>5, <1>6, Induction
<1>8. w - 1 \in S
  BY <1>6, <1>7
<1> QED BY <1>1, <1>2, <1>3, <1>8 DEF S, r

\* The values of Decode after each byte.
Value(bytes) ==
  CHOOSE value : value =
    [i \in 0..Len(bytes) |->
       IF i = 0 THEN (IF bytes[1] >= Base \div 2 THEN -1 ELSE 0)
                ELSE value[i - 1] * Base + bytes[i]]

\* htonl and ntohl, and their counterparts for a long (recordio.c): an int of w
\* bytes, negative ones included, is read from the bytes it was written to.
THEOREM EncodeDecode ==
  ASSUME NEW w \in Nat \ {0}, Base \in Nat \ {0}, NEW n \in IntsOf(w)
  PROVE  /\ Encode(n, w) \in Seq(Int) /\ Len(Encode(n, w)) = w
         /\ Decode(Encode(n, w)) = n
<1> DEFINE r == Rest(n, w)
           b == Encode(n, w)
           g == [i \in 0..w |-> r[w - i]]
           v == Value(b)
<1>1. n \in Int /\ r[w - 1] \in -(Base \div 2) .. (Base \div 2) - 1
  BY RestInRange
<1>2. /\ r \in [0..w -> Int] /\ r[0] = n
      /\ \A k \in 1..w : r[k] = r[k - 1] \div Base
      /\ b = [i \in 1..w |-> r[w - i] % Base]
  BY <1>1, RestDef
<1> HIDE DEF r, b
<1>3. b \in Seq(Int) /\ Len(b) = w
  <2>1. ASSUME NEW i \in 1..w PROVE r[w - i] % Base \in Int
    <3>1. r[w - i] \in Int
      BY <1>2
    <3> HIDE DEF g, v
    <3> QED BY <3>1, DivMod, SMTT(30)
  <2> QED BY <1>2, <2>1
<1>4. g \in [0..w -> Int] /\ \A i \in 0..w : g[i] = r[w - i]
  BY <1>2
<1> HIDE DEF g
<1>5. g[0] = IF b[1] >= Base \div 2 THEN -1 ELSE 0
  <2>1. g[0] = r[w - 1] \div Base /\ b[1] = r[w - 1] % Base /\ r[w - 1] \in Int
    BY <1>2, <1>4
  <2> DEFINE x == r[w - 1]
  <2>2. x \in Int /\ -(Base \div 2) <= x /\ x <= (Base \div 2) - 1
    BY <1>1, <2>1
  <2> HIDE DEF x
  <2>3. x = Base * (x \div Base) + (x % Base) /\ x % Base \in 0..(Base - 1) /\ x \div Base \in Int
    BY <2>2, DivMod
  <2>4. Base = 2 * (Base \div 2) + (Base % 2) /\ Base % 2 \in 0..1 /\ Base \div 2 \in Int
    BY DivMod
  <2>5. CASE x >= 0
    <3>1. x \div Base = 0 /\ x % Base = x
      BY <2>2, <2>4, <2>5
    <3> QED BY <2>1, <2>2, <3>1 DEF x
  <2>6. CASE x < 0
    <3>1. x \div Base = -1 /\ x % Base = x + Base
      BY <2>2, <2>4, <2>6
    <3>2. x + Base >= Base \div 2
      BY <2>2, <2>4
    <3> QED BY <2>1, <2>2, <3>1, <3>2 DEF x
  <2> QED BY <2>2, <2>5, <2>6
<1>6. \A i \in 1..w : g[i] = g[i - 1] * Base + b[i]
  <2> TAKE i \in 1..w
  <2>1. g[i] = r[w - i] /\ g[i - 1] = r[w - i + 1] /\ b[i] = r[w - i] % Base
    BY <1>2, <1>4
  <2>2. r[w - i + 1] = r[w - i] \div Base /\ r[w - i] \in Int
    BY <1>2
  <2>3. r[w - i] = Base * (r[w - i] \div Base) + (r[w - i] % Base)
    BY <2>2, DivMod
  <2> QED BY <2>1, <2>2, <2>3
<1>7. g = [i \in 0..Len(b) |->
             IF i = 0 THEN (IF b[1] >= Base \div 2 THEN -1 ELSE 0)
                      ELSE g[i - 1] * Base + b[i]]
  <2> DEFINE F(i) == IF i = 0 THEN (IF b[1] >= Base \div 2 THEN -1 ELSE 0)
                              ELSE g[i - 1] * Base + b[i]
  <2>1. ASSUME NEW i \in 0..w PROVE g[i] = F(i)
    <3>1. CASE i = 0
      BY <1>5, <3>1
    <3>2. CASE i # 0
      <4>1. i \in 1..w
        BY <3>2
      <4> QED BY <1>6, <3>2, <4>1
    <3> QED BY <3>1, <3>2
  <2> HIDE DEF F
  <2>2. g = [i \in 0..w |-> F(i)]
    BY <1>4, <2>1
  <2> QED BY <1>3, <2>2 DEF F
<1>8. v = [i \in 0..Len(b) |->
             IF i = 0 THEN (IF b[1] >= Base \div 2 THEN -1 ELSE 0)
                      ELSE v[i - 1] * Base + b[i]]
  BY <1>7, ZenonT(30) DEF Value
<1>9. Decode(b) = v[Len(b)]
  BY Zenon DEF Decode, Value
<1> HIDE DEF v
<1> DEFINE S == {i \in 0..w : v[i] = g[i]}
<1>10. 0 \in S
  BY <1>3, <1>5, <1>8
<1>11. \A i \in 1..w : i - 1 \in S => i \in S
  BY <1>3, <1>6, <1>8
<1> HIDE DEF S
<1>12. w \in S
  BY <1>10, <1>11, Induction
<1> QED BY <1>2, <1>3, <1>4, <1>9, <1>12 DEF S, b

-----------------------------------------------------------------------------
(* What is true of the model's operators.                                  *)

\* The bytes of an int are IntSize many.
LEMMA EncodeLen ==
  ASSUME NEW n, NEW w \in Nat
  PROVE  Len(Encode(n, w)) = w
BY DEF Encode

\* The first bytes of a sequence.
LEMMA PrefixLen ==
  ASSUME NEW s, NEW n \in Nat
  PROVE  Len(SubSeq(s, 1, n)) = n
OBVIOUS

\* And none of them.
LEMMA EmptyPrefix ==
  ASSUME NEW s, NEW n \in Int, n < 0
  PROVE  SubSeq(s, 1, n) = <<>>
OBVIOUS

-----------------------------------------------------------------------------
(* The out-archive.                                                        *)

LEMMA InitOut == Init => OutInv /\ DriverInv /\ FrameInv
BY ArchiveAssumption
   DEF Init, NewBlock, OutInv, DriverInv, FrameInv, WithinFrame

\* A serialize function before its copy keeps the block in order.
LEMMA PutOut ==
  ASSUME OutInv, NEW bytes, Len(bytes) \in Nat, Put(bytes),
         phase = "write", rc = "OK", UNCHANGED <<phase, rc>>
  PROVE  OutInv'
<1>1. /\ at = "ready" /\ piece' = bytes
      /\ off + Len(bytes) <= MaxRecord
      /\ len' = len /\ off' = off /\ block' = block /\ lost' = lost
  BY DEF Put
<1>2. /\ len \in Int /\ off \in Nat /\ newlen \in Int /\ off <= len
      /\ block \in {0, len} /\ (block = 0 => lost)
  BY <1>1, ArchiveAssumption DEF OutInv
<1>3. CASE len - off < Len(bytes)
  <2>1. at' = "resize" /\ newlen' = Wrap(len + Len(bytes))
    BY <1>3 DEF Put
  <2>2. len + Len(bytes) <= 2 * MaxRecord
    BY <1>1, <1>2, <1>3, ArchiveAssumption
  <2>3. newlen' = len + Len(bytes)
    BY <2>1, <2>2, <1>2, ArchiveAssumption DEF Wrap
  <2> QED
    BY <1>1, <1>2, <2>1, <2>2, <2>3, ArchiveAssumption DEF OutInv
<1>4. CASE ~(len - off < Len(bytes))
  <2>1. at' = "copy" /\ newlen' = newlen
    BY <1>4 DEF Put
  <2> QED
    BY <1>1, <1>2, <1>4, <2>1, ArchiveAssumption DEF OutInv
<1> QED BY <1>3, <1>4

\* Nothing outside of the archive's functions disturbs it.
LEMMA IdleOut ==
  ASSUME OutInv, UNCHANGED outVars, at = "ready",
         phase' \in {"idle", "write"} /\ rc' = "OK" =>
           phase \in {"idle", "write"} /\ rc = "OK"
  PROVE  OutInv'
BY DEF OutInv, outVars

LEMMA DoubleOut == OutInv /\ Double /\ UNCHANGED driver => OutInv'
<1> SUFFICES ASSUME OutInv, Double, UNCHANGED driver
             PROVE  OutInv'
  OBVIOUS
<1>1. /\ at = "resize" /\ len < newlen /\ len' = Wrap(2 * len) /\ lost' = lost
      /\ off' = off /\ block' = block /\ at' = at /\ piece' = piece
      /\ newlen' = newlen /\ rc' = rc /\ phase' = phase
  BY DEF Double, driver
<1>2. len \in Nat /\ newlen <= 2 * MaxRecord /\ newlen \in Nat /\ off \in Nat
  BY <1>1, ArchiveAssumption DEF OutInv
<1>3. len' = 2 * len
  BY <1>1, <1>2, ArchiveAssumption DEF Wrap
<1> QED
  BY <1>1, <1>2, <1>3, ArchiveAssumption DEF OutInv

LEMMA ReallocOut == OutInv /\ Realloc /\ UNCHANGED driver => OutInv'
BY ArchiveAssumption DEF OutInv, Realloc, driver

LEMMA NoMemoryOut == OutInv /\ NoMemory /\ UNCHANGED driver => OutInv'
<1> SUFFICES ASSUME OutInv, NoMemory, UNCHANGED driver PROVE OutInv'
  OBVIOUS
<1>1. /\ block' = 0 /\ at' = "ready" /\ UNCHANGED <<len, off, newlen, phase>>
      /\ rc' = "OK" => lost'
  BY DEF NoMemory, driver, OutInv
<1>2. block' \in Nat /\ block' \in {0, len'} /\ at' \in {"ready", "resize", "copy"}
  BY <1>1
<1> QED BY <1>1, <1>2 DEF OutInv

LEMMA CopyOut == OutInv /\ Copy /\ UNCHANGED driver => OutInv'
BY ArchiveAssumption DEF OutInv, Copy, driver

-----------------------------------------------------------------------------
(* Every step.                                                             *)

\* A step that leaves the frame alone.
LEMMA FrameKeeps ==
  ASSUME FrameInv, UNCHANGED <<frame, size, pos>>, result' = "no_frame" => result = "no_frame"
  PROVE  FrameInv'
BY DEF FrameInv, WithinFrame

LEMMA WriteStep ==
  ASSUME OutInv, DriverInv, FrameInv, Serialize
  PROVE  OutInv' /\ DriverInv' /\ FrameInv'
<1> USE ArchiveAssumption, RecordsAssumption
<1>a. ASSUME NEW value, NEW more, NEW body \in Strings \cup {Null}, NEW bytes,
             Len(bytes) \in Nat, Put(bytes), Written(value, body, more),
             phase = "write", rc = "OK"
      PROVE  OutInv' /\ DriverInv' /\ FrameInv'
  <2>1. UNCHANGED <<phase, rc, frame, size, pos, result>> /\ content' = body
    BY <1>a DEF Written, inVars
  <2>2. OutInv'
    BY <1>a, <2>1, PutOut
  <2>3. DriverInv' /\ FrameInv'
    BY <2>1, <1>a, FrameKeeps DEF DriverInv
  <2> QED BY <2>2, <2>3
<1>1. CASE WriteInt
  BY <1>1, <1>a, EncodeLen DEF WriteInt, Writing, PutInt
<1>2. CASE WriteLong
  BY <1>2, <1>a, EncodeLen DEF WriteLong, Writing, PutLong
<1>3. CASE WriteBool
  BY <1>3, <1>a DEF WriteBool, Writing, PutBool
<1>4. CASE WriteString
  BY <1>4, <1>a, EncodeLen DEF WriteString, Writing, PutInt
<1>5. CASE WriteBuffer
  BY <1>5, <1>a, EncodeLen DEF WriteBuffer, Writing, PutInt
<1>6. CASE WriteContent
  <2>1. /\ phase = "write" /\ rc = "OK" /\ Put(content) /\ content' = Null
        /\ UNCHANGED <<phase, rc, frame, size, pos, result>>
    BY <1>6 DEF WriteContent, inVars
  <2>2. Len(content) \in Nat
    BY <1>6 DEF WriteContent, DriverInv
  <2>3. OutInv'
    BY <2>1, <2>2, PutOut
  <2> QED
    BY <2>1, <2>3, FrameKeeps DEF DriverInv
<1>7. CASE WriteVector
  BY <1>7, <1>a, EncodeLen DEF WriteVector, Writing, PutInt
<1>8. CASE WriteEnd \/ EndHeader
  <2>1. UNCHANGED <<outVars, inVars, phase, rc, content, result>> /\ at = "ready"
    BY <1>8 DEF WriteEnd, EndHeader
  <2>2. OutInv'
    BY <2>1, IdleOut
  <2> QED BY <2>1, <2>2, FrameKeeps DEF DriverInv, inVars
<1>9. CASE GiveUp
  <2>1. UNCHANGED <<outVars, inVars, rc, content>> /\ phase' = "done" /\ result' = rc
    BY <1>9 DEF GiveUp
  <2>2. at = "ready" /\ rc # "no_frame"
    BY <1>9 DEF GiveUp, OutInv, DriverInv
  <2>3. OutInv'
    BY <2>1, <2>2, IdleOut
  <2> QED BY <2>1, <2>2, <2>3, FrameKeeps DEF DriverInv, inVars
<1>10. CASE CopyNowhere
  <2>1. /\ phase' = "done" /\ result' = "no_block" /\ at' = "ready"
        /\ UNCHANGED <<content, rc, inVars, len, off, block, newlen>>
    BY <1>10 DEF CopyNowhere
  <2>a. at' \in {"ready", "resize", "copy"} /\ at' \notin {"resize", "copy"}
        /\ phase' \notin {"idle", "write"}
    BY <2>1
  <2>2. OutInv'
    BY <2>1, <2>a DEF OutInv
  <2> QED BY <2>1, <2>2, FrameKeeps DEF DriverInv, inVars
<1> QED
  BY <1>1, <1>2, <1>3, <1>4, <1>5, <1>6, <1>7, <1>8, <1>9, <1>10 DEF Serialize

LEMMA GrowStep ==
  ASSUME OutInv, DriverInv, FrameInv, Grow
  PROVE  OutInv' /\ DriverInv' /\ FrameInv'
<1>1. OutInv'
  BY DoubleOut, ReallocOut, NoMemoryOut, CopyOut DEF Grow
<1>2. UNCHANGED <<inVars, phase, content, result>> /\ (rc' = rc \/ rc' = "ENOMEM")
  BY DEF Grow, Double, Realloc, NoMemory, Copy, driver
<1>3. phase = "write"
  BY DEF Grow, Double, Realloc, NoMemory, Copy, OutInv
<1> QED
  BY <1>1, <1>2, <1>3, FrameKeeps DEF DriverInv, inVars

\* What is left of a frame, unless its length is negative.
LEMMA FrameLeft ==
  ASSUME FrameInv
  PROVE  /\ size >= 0 => Left = Len(frame) - pos /\ Left \in Nat /\ pos \in Nat
         /\ \A n \in Nat \ {0} : Outside(n) <=> size < 0
         /\ size < 0 => Left < 1 /\ Len(frame) = 0 /\ pos = 0
<1>1. size \in Int /\ pos \in 0 .. Len(frame) /\ Len(frame) = IF size < 0 THEN 0 ELSE size
  BY DEF FrameInv, WithinFrame
<1>2. CASE size >= 0
  <2>1. Left = Len(frame) - pos /\ Left \in Nat /\ pos \in Nat /\ Len(frame) = size
    BY <1>1, <1>2 DEF Left
  <2>2. ASSUME NEW n \in Nat \ {0} PROVE ~Outside(n)
    BY <1>1, <2>1 DEF Outside, Short
  <2> QED BY <1>1, <1>2, <2>1, <2>2
<1>3. CASE size < 0
  <2>1. Left < 0 /\ Len(frame) = 0 /\ pos = 0 /\ Left \in Int
    BY <1>1, <1>3 DEF Left
  <2>2. ASSUME NEW n \in Nat \ {0} PROVE Outside(n)
    BY <2>1 DEF Outside, Short
  <2> QED BY <1>1, <1>3, <2>1, <2>2
<1> QED BY <1>1, <1>2, <1>3

\* What the deserialize functions do to off.
LEMMA ReadFrame ==
  ASSUME FrameInv, UNCHANGED <<frame, size, result>>,
         \/ GetInt(IntSize) \/ GetInt(LongSize) \/ GetBool
         \/ GetString \/ GetBuffer
  PROVE  FrameInv' /\ (rc' = rc \/ rc' \in {"E2BIG", "EINVAL", "ENOMEM"})
<1> USE ArchiveAssumption
<1>0. CASE size < 0
  <2>1. Left < 1 /\ GetBool
    BY <1>0, FrameLeft DEF GetInt, GetString, GetBuffer
  <2>2. pos' = pos /\ rc' = "E2BIG"
    BY <2>1 DEF GetBool, Fail
  <2>3. UNCHANGED <<frame, size, pos>> /\ (result' = "no_frame" => result = "no_frame")
    BY <2>2
  <2>4. FrameInv'
    BY <2>3, FrameKeeps
  <2> QED BY <2>2, <2>4
<1>a. CASE size >= 0
  <2>0. /\ Left = Len(frame) - pos /\ Left \in Nat /\ pos \in Nat
        /\ size \in Nat /\ Len(frame) = size
    BY <1>a, FrameLeft DEF FrameInv
  <2>a. /\ pos' \in 0 .. Len(frame) => FrameInv'
        /\ \A n \in Nat \ {0} : Short(n) <=> Left < n
    BY <2>0 DEF FrameInv, WithinFrame, Short
  <2>1. CASE GetInt(IntSize) \/ GetInt(LongSize)
    BY <2>0, <2>a, <2>1 DEF GetInt, Fail
  <2>2. CASE GetBool
    BY <2>0, <2>a, <2>2 DEF GetBool, Fail
  <2>3. CASE GetString
    BY <2>0, <2>a, <2>3 DEF GetString, CutOff, AllThere, Count, Data, Fail
  <2>4. CASE GetBuffer
    BY <2>0, <2>a, <2>4 DEF GetBuffer, CutOff, AllThere, Count, Data, Fail
  <2> QED BY <2>1, <2>2, <2>3, <2>4
<1> QED BY <1>0, <1>a DEF FrameInv

LEMMA ReadStep ==
  ASSUME OutInv, DriverInv, FrameInv, Deserialize
  PROVE  OutInv' /\ DriverInv' /\ FrameInv'
<1>0. phase = "read" /\ at = "ready"
  BY DEF Deserialize, ReadInt, ReadLong, ReadBool, ReadString, ReadBuffer,
         ReadVector, Reading, ReadOutside, Skip, EndVector, DecodeReplyHeader, Finish, OutInv
<1>1. CASE ReadInt \/ ReadLong \/ ReadBool \/ ReadString \/ ReadBuffer \/ ReadVector
  <2>1. UNCHANGED <<outVars, phase, content, frame, size, result>>
    BY <1>1 DEF ReadInt, ReadLong, ReadBool, ReadString, ReadBuffer, ReadVector, ReadOn
  <2>2. \/ GetInt(IntSize) \/ GetInt(LongSize) \/ GetBool
        \/ GetString \/ GetBuffer
    BY <1>1 DEF ReadInt, ReadLong, ReadBool, ReadString, ReadBuffer, ReadVector
  <2>3. FrameInv' /\ (rc' = rc \/ rc' \in {"E2BIG", "EINVAL", "ENOMEM"})
    BY <2>1, <2>2, ReadFrame
  <2>4. OutInv'
    BY <1>0, <2>1, IdleOut
  <2> QED BY <1>0, <2>1, <2>3, <2>4 DEF DriverInv
<1>2. CASE Skip \/ EndVector \/ DecodeReplyHeader \/ Finish
  <2>1. /\ UNCHANGED <<outVars, inVars, content>>
        /\ phase' \in {"read", "done"} /\ (rc' = rc \/ rc' = "OK")
    BY <1>0, <1>2 DEF Skip, EndVector, DecodeReplyHeader, Finish, Return
  <2>2. OutInv'
    BY <1>0, <2>1, IdleOut
  <2>a. rc # "no_frame"
    BY DEF DriverInv
  <2>3. result' = "no_frame" => result = "no_frame"
    BY <1>2, <2>a DEF Skip, EndVector, DecodeReplyHeader, Finish, Return, Outcome
  <2>4. phase' # "done" => result' = "none"
    BY <1>0, <1>2 DEF Skip, EndVector, DecodeReplyHeader, Finish, Return, DriverInv
  <2>5. DriverInv'
    BY <2>1, <2>4 DEF DriverInv
  <2>6. FrameInv'
    BY <2>1, <2>3, FrameKeeps DEF inVars
  <2> QED BY <2>2, <2>5, <2>6
<1>3. CASE ReadOutside
  <2>1. UNCHANGED <<outVars, inVars, content, rc>> /\ phase' = "done"
    BY <1>3 DEF ReadOutside
  <2>2. OutInv'
    BY <1>0, <2>1, IdleOut
  <2>3. size < 0
    BY <1>3, FrameLeft, ArchiveAssumption DEF ReadOutside, Width
  <2>4. DriverInv'
    BY <2>1 DEF DriverInv
  <2>5. FrameInv'
    BY <2>1, <2>3 DEF FrameInv, WithinFrame, inVars
  <2> QED BY <2>2, <2>4, <2>5
<1> QED BY <1>1, <1>2, <1>3 DEF Deserialize

LEMMA Step ==
  OutInv /\ DriverInv /\ FrameInv /\ [Next]_vars => OutInv' /\ DriverInv' /\ FrameInv'
<1> SUFFICES ASSUME OutInv, DriverInv, FrameInv, [Next]_vars
             PROVE  OutInv' /\ DriverInv' /\ FrameInv'
  OBVIOUS
<1>1. ASSUME NEW x \in Exchanges, Begin(x)
      PROVE  OutInv' /\ DriverInv' /\ FrameInv'
  <2>1. UNCHANGED <<outVars, inVars, rc, content, result>> /\ phase = "idle" /\ phase' = "write"
    BY <1>1 DEF Begin
  <2>2. at = "ready"
    BY <2>1 DEF OutInv
  <2>3. OutInv'
    BY <2>1, <2>2, IdleOut
  <2> QED BY <2>1, <2>3, FrameKeeps DEF DriverInv, inVars
<1>2. ASSUME NEW k \in Cuts, Deliver(k)
      PROVE  OutInv' /\ DriverInv' /\ FrameInv'
  <2>1. /\ UNCHANGED <<outVars, rc, content>> /\ at = "ready" /\ phase' = "read"
        /\ frame' = SubSeq(buf, 1, off - k) /\ size' = off - k /\ pos' = 0
    BY <1>2 DEF Deliver, Complete, NewFrame
  <2>2. size' \in Int
    BY <2>1, ArchiveAssumption, RecordsAssumption DEF OutInv
  <2>3. Len(frame') = IF size' < 0 THEN 0 ELSE size'
    BY <2>1, <2>2, PrefixLen, EmptyPrefix
  <2>a. result' = result /\ result # "no_frame"
    BY <1>2 DEF Deliver, Complete, DriverInv
  <2>4. OutInv'
    BY <2>1, IdleOut
  <2>5. DriverInv'
    BY <2>1, <1>2 DEF DriverInv, Deliver, Complete
  <2>6. pos' = 0
    BY <2>1
  <2>7. FrameInv'
    BY <2>2, <2>3, <2>6, <2>a DEF FrameInv, WithinFrame
  <2> QED BY <2>4, <2>5, <2>7
<1>3. CASE Destroy
  <2>1. OutInv'
    BY <1>3, ArchiveAssumption DEF Destroy, OutInv
  <2>2. DriverInv'
    BY <1>3 DEF Destroy, DriverInv
  <2>3. frame' = <<>> /\ size' = 0 /\ pos' = 0 /\ result' = "none"
    BY <1>3 DEF Destroy
  <2>4. FrameInv'
    BY <2>3 DEF FrameInv, WithinFrame
  <2> QED BY <2>1, <2>2, <2>4
<1>4. CASE UNCHANGED vars
  BY <1>4, FrameKeeps DEF vars, outVars, inVars, driver, OutInv, DriverInv
<1> QED
  BY <1>1, <1>2, <1>3, <1>4, WriteStep, GrowStep, ReadStep DEF Next

\* The invariants hold in every behaviour.
LEMMA Invariants == Spec => [](OutInv /\ DriverInv /\ FrameInv)
BY InitOut, Step, PTL DEF Spec

\* Type correctness of the archives, with off inside of the largest record.
THEOREM ArchiveTypes == Spec => []TypeOK
<1>1. OutInv /\ DriverInv => TypeOK
  BY ArchiveAssumption DEF OutInv, DriverInv, TypeOK
<1> QED BY <1>1, Invariants, PTL

\* No serialize function copies a byte past the block that resize_buffer left
\* it, for any record, values and outcome of realloc; except that after a realloc
\* that failed for a NULL string, the next copy goes to nowhere.
THEOREM CopiesInBlock == Spec => []WithinBlock
<1>1. OutInv => WithinBlock
  BY ArchiveAssumption DEF OutInv, WithinBlock
<1> QED BY <1>1, Invariants, PTL

\* The lengths of resize_buffer stay positive ints, which is why its loop ends,
\* as long as four records fit an int.
THEOREM LengthsInRange == Spec => []NoOverflow
<1>1. OutInv => NoOverflow
  BY ArchiveAssumption DEF OutInv, NoOverflow
<1> QED BY <1>1, Invariants, PTL

\* No deserialize function moves off past the end of the frame, whatever record
\* it takes the frame for and whatever bytes it holds; and where one reads outside
\* of the frame, the frame had a negative length.
THEOREM ReadsInFrame == Spec => []WithinFrame
<1>1. FrameInv => WithinFrame
  BY DEF FrameInv
<1> QED BY <1>1, Invariants, PTL

-----------------------------------------------------------------------------
(* What is missed.                                                         *)

LEMMA RestOfFields ==
  ASSUME NEW S, NEW s \in Seq(S), NEW k \in 1..Len(s) + 1
  PROVE  SubSeq(s, k, Len(s)) \in Seq(S)
OBVIOUS

LEMMA TailOfFields ==
  ASSUME NEW S, NEW s \in Seq(S), s # <<>>
  PROVE  Head(s) \in S /\ Tail(s) \in Seq(S) /\ <<>> \o Tail(s) = Tail(s)
OBVIOUS

\* A record without a vector has no end of one.
LEMMA NoVector ==
  ASSUME MissedInv, ~HasVector, NEW f \in Fields(wanted)
  PROVE  f.kind \notin {"vector", "end"}
<1>1. PICK i \in DOMAIN wanted : f = wanted[i]
  BY DEF Fields
<1>2. f.kind # "vector"
  BY <1>1 DEF HasVector
<1>3. f.kind # "end"
  <2>1. CASE wanted = <<>>
    BY <1>1, <2>1
  <2>2. CASE wanted # <<>>
    <3>1. PICK x \in Exchanges : wanted = x.wanted
      BY <2>2 DEF MissedInv
    <3> QED BY <3>1, RecordsAssumption
  <2> QED BY <2>1, <2>2
<1> QED BY <1>2, <1>3

LEMMA WantedFields ==
  ASSUME MissedInv
  PROVE  wanted \in Seq(Fields(wanted))
<1>1. CASE wanted = <<>>
  BY <1>1
<1>2. CASE wanted # <<>>
  <2>1. PICK x \in Exchanges : wanted = x.wanted
    BY <1>2 DEF MissedInv
  <2> QED BY <2>1, RecordsAssumption
<1> QED BY <1>1, <1>2

LEMMA MissedInit == Init => MissedInv
BY DEF Init, MissedInv, SilentLoss

\* A step that neither reads nor returns.
LEMMA MissedKeeps ==
  ASSUME MissedInv, UNCHANGED <<wanted, missed, op, result>>,
         \/ phase' \in {"idle", "write"} /\ phase \in {"idle", "write"}
         \/ UNCHANGED <<phase, todo, rc>>
  PROVE  MissedInv'
BY DEF MissedInv, SilentLoss, HasVector, Fields

\* The call returns: with what the status of the record says, or without a
\* look at it.
LEMMA MissedReturns ==
  ASSUME MissedInv, NEW value, Return(value),
         missed /\ ~HasVector /\ op \notin Blind => value # "OK"
  PROVE  MissedInv'
BY DEF MissedInv, SilentLoss, Return, HasVector

LEMMA MissedWrites ==
  ASSUME MissedInv, DriverInv, OutInv, Serialize \/ Grow \/ \E x \in Exchanges : Begin(x)
  PROVE  MissedInv'
<1>1. CASE GiveUp
  <2>1. /\ phase = "write" /\ phase' = "done" /\ UNCHANGED <<wanted, missed, op>>
    BY <1>1 DEF GiveUp
  <2>2. ~missed
    BY <2>1 DEF MissedInv
  <2> QED BY <2>1, <2>2 DEF MissedInv, SilentLoss
<1>a. CASE CopyNowhere
  <2>1. /\ phase = "write" /\ phase' = "done" /\ UNCHANGED <<wanted, missed, op>>
    BY <1>a DEF CopyNowhere
  <2>2. ~missed
    BY <2>1 DEF MissedInv
  <2> QED BY <2>1, <2>2 DEF MissedInv, SilentLoss
<1>2. CASE \E x \in Exchanges : Begin(x)
  <2>1. PICK x \in Exchanges : Begin(x)
    BY <1>2
  <2>2. /\ phase = "idle" /\ phase' = "write" /\ wanted' = x.wanted /\ missed' = missed
    BY <2>1 DEF Begin
  <2> QED BY <2>2 DEF MissedInv, SilentLoss
<1>3. CASE Grow
  <2>1. UNCHANGED <<wanted, missed, op, result, phase, todo>> /\ phase = "write"
    BY <1>3 DEF Grow, driver, Double, Realloc, NoMemory, Copy, OutInv
  <2> QED BY <2>1, MissedKeeps
<1>4. CASE Serialize /\ ~GiveUp /\ ~CopyNowhere
  <2>1. UNCHANGED <<wanted, missed, op, result, phase>> /\ phase = "write"
    BY <1>4 DEF Serialize, WriteInt, WriteLong, WriteBool, WriteString, WriteBuffer,
                WriteContent, WriteVector, WriteEnd, EndHeader, Writing, Written
  <2> QED BY <2>1, MissedKeeps
<1> QED BY <1>1, <1>a, <1>2, <1>3, <1>4

\* A field is read, or missed.
LEMMA MissedReads ==
  ASSUME MissedInv, NEW more, phase = "read", rc = "OK", todo # <<>>, ReadOn(more),
         ~HasVector => more = <<>>
  PROVE  MissedInv'
<1>1. /\ UNCHANGED <<phase, op, wanted, result>> /\ todo' = more \o Tail(todo)
      /\ missed' = (missed \/ rc' # "OK")
  BY DEF ReadOn
<1>2. CASE HasVector
  BY <1>1, <1>2 DEF MissedInv, SilentLoss, HasVector
<1>3. CASE ~HasVector
  <2>1. todo \in Seq(Fields(wanted)) /\ ~missed
    BY <1>3 DEF MissedInv
  <2>2. todo' \in Seq(Fields(wanted))
    BY <1>1, <1>3, <2>1, TailOfFields
  <2>3. missed' => rc' # "OK"
    BY <1>1, <2>1
  <2> QED BY <1>1, <2>2, <2>3 DEF MissedInv, SilentLoss
<1> QED BY <1>2, <1>3

LEMMA MissedStep ==
  ASSUME MissedInv, DriverInv, OutInv, [Next]_vars
  PROVE  MissedInv'
<1>1. CASE Serialize \/ Grow \/ \E x \in Exchanges : Begin(x)
  BY <1>1, MissedWrites
<1>2. ASSUME NEW k \in Cuts, Deliver(k) PROVE MissedInv'
  <2>1. /\ phase = "write" /\ phase' = "read" /\ todo' = wanted
        /\ UNCHANGED <<op, wanted, missed, result>>
    BY <1>2 DEF Deliver, Complete
  <2>2. ~missed
    BY <2>1 DEF MissedInv
  <2> QED BY <2>1, <2>2, WantedFields DEF MissedInv, SilentLoss
<1>3. CASE ReadInt \/ ReadLong \/ ReadBool \/ ReadString \/ ReadBuffer
  <2>1. phase = "read" /\ rc = "OK" /\ todo # <<>> /\ ReadOn(<<>>)
    BY <1>3 DEF ReadInt, ReadLong, ReadBool, ReadString, ReadBuffer, Reading, Field1
  <2> QED BY <2>1, MissedReads
<1>4. CASE ReadVector
  <2>1. PICK more : ReadOn(more)
    BY <1>4 DEF ReadVector
  <2>2. phase = "read" /\ rc = "OK" /\ todo # <<>> /\ Head(todo).kind = "vector"
    BY <1>4 DEF ReadVector, Reading, Field1
  <2>3. HasVector
    <3> SUFFICES ASSUME ~HasVector PROVE FALSE
      OBVIOUS
    <3>1. todo \in Seq(Fields(wanted))
      BY <2>2 DEF MissedInv
    <3>2. Head(todo) \in Fields(wanted)
      BY <3>1, <2>2, TailOfFields
    <3> QED BY <3>2, <2>2, NoVector
  <2> QED BY <2>1, <2>2, <2>3, MissedReads
<1>5. CASE Skip
  <2>1. /\ phase = "read" /\ rc # "OK" /\ UNCHANGED <<phase, op, wanted, missed, result, rc>>
        /\ \E k \in 1..Len(todo) + 1 : todo' = SubSeq(todo, k, Len(todo))
    BY <1>5 DEF Skip
  <2>2. todo \in Seq(Fields(wanted)) => todo' \in Seq(Fields(wanted))
    BY <2>1, RestOfFields
  <2> QED BY <2>1, <2>2 DEF MissedInv, SilentLoss, HasVector
<1>6. CASE EndVector
  <2>1. /\ phase = "read" /\ todo # <<>> /\ Head(todo).kind = "end"
        /\ UNCHANGED <<phase, op, wanted, missed, result>>
    BY <1>6 DEF EndVector, Field1
  <2>2. HasVector
    <3> SUFFICES ASSUME ~HasVector PROVE FALSE
      OBVIOUS
    <3>1. todo \in Seq(Fields(wanted))
      BY <2>1 DEF MissedInv
    <3>2. Head(todo) \in Fields(wanted)
      BY <3>1, <2>1, TailOfFields
    <3> QED BY <3>2, <2>1, NoVector
  <2> QED BY <2>1, <2>2 DEF MissedInv, SilentLoss, HasVector
<1>7. CASE DecodeReplyHeader
  <2>0. phase = "read" /\ todo # <<>>
    BY <1>7 DEF DecodeReplyHeader, Field1
  <2>1. CASE Return("ZK_ERROR") \/ Return("code")
    BY <2>1, MissedReturns
  <2>2. CASE /\ rc = "OK" /\ todo' = Tail(todo)
             /\ UNCHANGED <<phase, op, wanted, missed, result, rc>>
    <3>1. todo \in Seq(Fields(wanted)) => todo' \in Seq(Fields(wanted))
      BY <2>0, <2>2, TailOfFields
    <3> QED BY <2>2, <3>1 DEF MissedInv, SilentLoss, HasVector
  <2> QED BY <1>7, <2>1, <2>2 DEF DecodeReplyHeader
<1>8. CASE Finish
  <2>1. phase = "read" /\ Return(Outcome)
    BY <1>8 DEF Finish
  <2>2. missed /\ ~HasVector /\ op \notin Blind => Outcome # "OK"
    BY <2>1 DEF MissedInv, Outcome
  <2> QED BY <2>1, <2>2, MissedReturns
<1>a. CASE ReadOutside
  BY <1>a DEF ReadOutside, MissedInv, SilentLoss
<1>9. CASE Destroy
  BY <1>9 DEF Destroy, MissedInv, SilentLoss
<1>10. CASE UNCHANGED vars
  BY <1>10, MissedKeeps DEF vars, driver
<1> QED
  BY <1>1, <1>2, <1>3, <1>4, <1>5, <1>6, <1>7, <1>8, <1>a, <1>9, <1>10 DEF Next, Deserialize

LEMMA MissedInvariant == Spec => []MissedInv
BY InitOut, Step, MissedInit, MissedStep, PTL DEF Spec

\* Whatever reply a call is answered with, and however short: when a call that
\* looks at the status says that it succeeded, it has read every field of its
\* own record, unless the record has a vector.
THEOREM LossesNoticed == Spec => []SilentLoss
<1>1. MissedInv => SilentLoss
  BY DEF MissedInv
<1> QED BY <1>1, MissedInvariant, PTL

-----------------------------------------------------------------------------
(* What a record leaves in its bytes.                                      *)

\* What a sequence has at its end, after one more value.
LEMMA Appended ==
  ASSUME NEW s, Len(s) \in Nat, NEW v
  PROVE  /\ Len(Append(s, v)) = Len(s) + 1 /\ Append(s, v)[Len(s) + 1] = v
         /\ \A i \in 1..Len(s) : Append(s, v)[i] = s[i]
         /\ Last(Append(s, v)) = v
<1>1. /\ Len(Append(s, v)) = Len(s) + 1 /\ Append(s, v)[Len(s) + 1] = v
      /\ \A i \in 1..Len(s) : Append(s, v)[i] = s[i]
  OBVIOUS
<1> QED BY <1>1 DEF Last

\* Bytes stay where they are when others follow.
LEMMA HoldsMore ==
  ASSUME NEW b, NEW c, Len(b) \in Nat, Len(c) \in Nat, Len(b) <= Len(c),
         \A i \in 1..Len(b) : c[i] = b[i],
         NEW from \in Nat, NEW image, Len(image) \in Nat, Holds(b, from, image)
  PROVE  Holds(c, from, image)
BY DEF Holds

\* The bytes of the fields.
LEMMA Images ==
  /\ \A n \in Ints \cup Counts \cup {-1} :
       /\ Encode(n, IntSize) \in Seq(Int) /\ Len(Encode(n, IntSize)) = IntSize
       /\ Decode(Encode(n, IntSize)) = n /\ n \in Int
  /\ \A n \in Longs :
       /\ Encode(n, LongSize) \in Seq(Int) /\ Len(Encode(n, LongSize)) = LongSize
       /\ Decode(Encode(n, LongSize)) = n /\ n \in Int
  /\ \A s \in Strings :
       /\ s \in Seq(Int) /\ Len(s) \in Nat
       /\ Encode(Len(s), IntSize) \in Seq(Int)
       /\ Len(Encode(Len(s), IntSize)) = IntSize
       /\ Decode(Encode(Len(s), IntSize)) = Len(s)
<1> USE ArchiveAssumption
<1>1. ASSUME NEW n \in IntsOf(IntSize)
      PROVE  /\ Encode(n, IntSize) \in Seq(Int) /\ Len(Encode(n, IntSize)) = IntSize
             /\ Decode(Encode(n, IntSize)) = n /\ n \in Int
  BY EncodeDecode, RestInRange
<1>2. ASSUME NEW n \in IntsOf(LongSize)
      PROVE  /\ Encode(n, LongSize) \in Seq(Int) /\ Len(Encode(n, LongSize)) = LongSize
             /\ Decode(Encode(n, LongSize)) = n /\ n \in Int
  BY EncodeDecode, RestInRange
<1>3. Ints \cup Counts \cup {-1} \subseteq IntsOf(IntSize) /\ Longs \subseteq IntsOf(LongSize)
  BY RecordsAssumption
<1>4. ASSUME NEW s \in Strings
      PROVE  s \in Seq(Int) /\ Len(s) \in Nat /\ Len(s) \in IntsOf(IntSize)
  <2>1. s \in Seq(0 .. Base - 1)
    BY RecordsAssumption
  <2>2. s \in Seq(Int) /\ Len(s) \in Nat
    BY <2>1
  <2>3. Len(s) \in {Len(t) : t \in Strings}
    OBVIOUS
  <2>4. Len(s) \in IntsOf(IntSize)
    BY <2>3, RecordsAssumption
  <2> QED BY <2>2, <2>4
<1> QED BY <1>1, <1>2, <1>3, <1>4

\* A field is where it was when more bytes follow.
LEMMA SpansMore ==
  ASSUME NEW b, NEW c, Len(b) \in Nat, Len(c) \in Nat, Len(b) <= Len(c),
         \A i \in 1..Len(b) : c[i] = b[i],
         NEW p, p.to \in Nat, NEW q, NEW image, Len(image) \in Nat,
         NEW value, NEW more, Spans(b, p, q, image, value, more)
  PROVE  Spans(c, p, q, image, value, more)
BY HoldsMore DEF Spans

\* And so is the next point.
LEMMA FollowsMore ==
  ASSUME NEW b, NEW c, Len(b) \in Nat, Len(c) \in Nat, Len(b) <= Len(c),
         \A i \in 1..Len(b) : c[i] = b[i],
         NEW p, p.to \in Nat, NEW q, Follows(b, p, q)
  PROVE  Follows(c, p, q)
<1>1. \A image, value, more :
        Len(image) \in Nat /\ Spans(b, p, q, image, value, more) =>
          Spans(c, p, q, image, value, more)
  BY SpansMore
<1>2. /\ \A n : Len(Encode(n, IntSize)) \in Nat /\ Len(Encode(n, LongSize)) \in Nat
      /\ \A n : Len(<<n>>) \in Nat
  BY EncodeLen, ArchiveAssumption
<1>3. \A s \in Strings : Len(Encode(Len(s), IntSize) \o s) \in Nat
  BY Images, ArchiveAssumption
<1> QED BY <1>1, <1>2, <1>3 DEF Follows

\* A trail stays one when more bytes follow.
LEMMA TrailMore ==
  ASSUME NEW b, NEW c, Len(b) \in Nat, Len(c) \in Nat, Len(b) <= Len(c),
         \A i \in 1..Len(b) : c[i] = b[i],
         NEW t, NEW fields, IsTrail(t, fields, b)
  PROVE  IsTrail(t, fields, c)
<1>1. /\ Len(t) \in Nat \ {0} /\ t[1] = Point(fields, <<>>, 0)
      /\ \A k \in 1..Len(t) : Len(t[k].sent) \in Nat /\ t[k].to \in 0..Len(c)
  BY DEF IsTrail
<1>2. \A k \in 1..Len(t) - 1 : Follows(c, t[k], t[k + 1])
  <2> TAKE k \in 1..Len(t) - 1
  <2>1. k \in 1..Len(t)
    BY <1>1
  <2>2. t[k].to \in Nat /\ Follows(b, t[k], t[k + 1])
    BY <2>1 DEF IsTrail
  <2> QED BY <2>2, FollowsMore
<1> QED BY <1>1, <1>2 DEF IsTrail

\* A trail goes on to a point that follows its last one.
LEMMA TrailAppend ==
  ASSUME NEW t, NEW fields, NEW b, Len(b) \in Nat, IsTrail(t, fields, b), NEW q,
         Follows(b, t[Len(t)], q), Len(q.sent) \in Nat, q.to \in 0..Len(b)
  PROVE  IsTrail(Append(t, q), fields, b) /\ Append(t, q)[Len(Append(t, q))] = q
<1> DEFINE u == Append(t, q)
<1>1. Len(t) \in Nat \ {0} /\ t[1] = Point(fields, <<>>, 0)
  BY DEF IsTrail
<1>2. Len(u) = Len(t) + 1 /\ u[Len(t) + 1] = q /\ \A i \in 1..Len(t) : u[i] = t[i]
  BY <1>1, Appended
<1> HIDE DEF u
<1>3. u[1] = Point(fields, <<>>, 0)
  BY <1>1, <1>2
<1>4. \A k \in 1..Len(u) : Len(u[k].sent) \in Nat /\ u[k].to \in 0..Len(b)
  <2> TAKE k \in 1..Len(u)
  <2>1. CASE k = Len(t) + 1
    BY <1>2, <2>1
  <2>2. CASE k # Len(t) + 1
    <3>1. k \in 1..Len(t)
      BY <1>1, <1>2, <2>2
    <3> QED BY <1>2, <3>1 DEF IsTrail
  <2> QED BY <2>1, <2>2
<1>5. \A k \in 1..Len(u) - 1 : Follows(b, u[k], u[k + 1])
  <2> TAKE k \in 1..Len(u) - 1
  <2>1. k \in 1..Len(t) /\ u[k] = t[k]
    BY <1>1, <1>2
  <2>2. CASE k = Len(t)
    BY <1>2, <2>1, <2>2
  <2>3. CASE k # Len(t)
    <3>1. k \in 1..Len(t) - 1 /\ k + 1 \in 1..Len(t)
      BY <1>1, <2>1, <2>3
    <3>2. u[k + 1] = t[k + 1]
      BY <1>2, <3>1
    <3> QED BY <2>1, <3>1, <3>2 DEF IsTrail
  <2> QED BY <2>2, <2>3
<1>6. IsTrail(u, fields, b) /\ u[Len(u)] = q
  BY <1>1, <1>2, <1>3, <1>4, <1>5 DEF IsTrail
<1> QED BY <1>6 DEF u

-----------------------------------------------------------------------------
(* The writer adds point after point.                                      *)

\* Two sequences of bytes, one after the other.
LEMMA Joined ==
  ASSUME NEW s \in Seq(Int), NEW t \in Seq(Int)
  PROVE  /\ Len(s) \in Nat /\ Len(t) \in Nat
         /\ s \o t \in Seq(Int) /\ Len(s \o t) = Len(s) + Len(t)
         /\ \A i \in 1..Len(s) : (s \o t)[i] = s[i]
         /\ \A i \in 1..Len(t) : (s \o t)[Len(s) + i] = t[i]
         /\ s \o <<>> = s
OBVIOUS

\* It does not matter where three sequences are joined first.
LEMMA JoinedThrice ==
  ASSUME NEW s \in Seq(Int), NEW t \in Seq(Int), NEW u \in Seq(Int)
  PROVE  (s \o t) \o u = s \o (t \o u)
OBVIOUS

\* Between two functions, the stream is what the buffer holds.
LEMMA StreamReady ==
  ASSUME buf \in Seq(Int), at = "ready", content = Null
  PROVE  Stream = buf
BY DEF Stream

\* The image of a field comes to the end of the stream, and the point after it
\* to the end of the trail.
LEMMA TrailGrows ==
  ASSUME BytesInv, WriterInv, phase = "write", rc = "OK", op = "record", ~lost,
         at = "ready", content = Null, off \in Nat,
         NEW image \in Seq(Int), NEW value, NEW more,
         \A b, p, q : p.todo = todo /\ Spans(b, p, q, image, value, more) => Follows(b, p, q),
         NEW q, q = Point(more \o Tail(todo), Append(sent, value), off + Len(image))
  PROVE  /\ IsTrail(Append(trail, q), wanted, buf \o image)
         /\ Append(trail, q)[Len(Append(trail, q))] = q
<1> DEFINE b == buf \o image
           p == trail[Len(trail)]
<1>1. buf \in Seq(Int) /\ Len(buf) = off /\ Stream = buf
  BY StreamReady DEF BytesInv
<1>2. IsTrail(trail, wanted, buf) /\ p = Point(todo, sent, off)
  BY <1>1 DEF WriterInv
<1>3. /\ Len(buf) \in Nat /\ Len(b) \in Nat /\ Len(buf) <= Len(b) /\ Len(b) = off + Len(image)
      /\ \A i \in 1..Len(buf) : b[i] = buf[i]
      /\ \A i \in 1..Len(image) : b[off + i] = image[i]
  <2>1. /\ Len(buf) \in Nat /\ Len(image) \in Nat
        /\ b \in Seq(Int) /\ Len(b) = Len(buf) + Len(image)
        /\ \A i \in 1..Len(buf) : b[i] = buf[i]
        /\ \A i \in 1..Len(image) : b[Len(buf) + i] = image[i]
    BY <1>1, Joined
  <2> HIDE DEF b
  <2> QED BY <1>1, <2>1
<1> HIDE DEF b
<1>4. IsTrail(trail, wanted, b)
  BY <1>2, <1>3, TrailMore
<1>5. p.todo = todo /\ p.sent = sent /\ p.to = off
  BY <1>2 DEF Point
<1>6. Len(sent) \in Nat
  BY <1>4, <1>5 DEF IsTrail
<1>7. Holds(b, off, image)
  <2>1. off + Len(image) <= Len(b)
    BY <1>3, Joined
  <2> QED BY <1>3, <2>1 DEF Holds
<1>8. Spans(b, p, q, image, value, more)
  BY <1>5, <1>7 DEF Spans
<1>9. Follows(b, p, q)
  BY <1>5, <1>8
<1>10. q.sent = Append(sent, value) /\ q.to = off + Len(image)
  BY DEF Point
<1>11. Len(q.sent) \in Nat /\ q.to \in 0..Len(b)
  BY <1>3, <1>6, <1>10, Appended
<1>12. /\ IsTrail(Append(trail, q), wanted, b)
       /\ Append(trail, q)[Len(Append(trail, q))] = q
  BY <1>3, <1>4, <1>9, <1>11, TrailAppend
<1> QED BY <1>12 DEF b

\* A serialize function of a field, with what it puts there and then: the field,
\* or its length, and the content that is to follow.
LEMMA FieldWritten ==
  ASSUME BytesInv, WriterInv, OutInv, phase = "write", rc = "OK", content = Null,
         NEW e \in Seq(Int), NEW body \in Strings \cup {Null}, NEW value, NEW more,
         Put(e), Written(value, body, more),
         NEW image, image = (IF body = Null THEN e ELSE e \o body),
         \A b, p, q : p.todo = todo /\ Spans(b, p, q, image, value, more) => Follows(b, p, q)
  PROVE  BytesInv' /\ WriterInv'
<1>1. /\ at = "ready" /\ at' # "ready" /\ piece' = e
      /\ UNCHANGED <<buf, off, phase, rc, wanted, op, cut, lost>>
      /\ content' = body /\ sent' = Append(sent, value) /\ todo' = more \o Tail(todo)
  BY DEF Put, Written
<1>2. off \in Nat /\ buf \in Seq(Int) /\ Len(buf) = off
  BY ArchiveAssumption DEF OutInv, BytesInv
<1>3. BytesInv'
  BY <1>1 DEF BytesInv
<1>4. image \in Seq(Int) /\ Len(image) = Len(e) + (IF body = Null THEN 0 ELSE Len(body))
      /\ Stream' = buf \o image
  <2>1. CASE body = Null
    <3>1. Stream' = (buf \o e) \o <<>>
      BY <1>1, <2>1 DEF Stream
    <3>2. buf \o e \in Seq(Int)
      BY <1>2, Joined
    <3> QED BY <2>1, <3>1, <3>2, Joined
  <2>2. CASE body # Null
    <3>1. Stream' = (buf \o e) \o body
      BY <1>1, <2>2 DEF Stream
    <3>2. body \in Seq(Int)
      BY <2>2, Images
    <3>3. image = e \o body
      BY <2>2
    <3>4. (buf \o e) \o body = buf \o (e \o body)
      BY <1>2, <3>2, JoinedThrice
    <3>5. e \o body \in Seq(Int) /\ Len(e \o body) = Len(e) + Len(body)
      BY <3>2, Joined
    <3> QED BY <2>2, <3>1, <3>3, <3>4, <3>5
  <2> QED BY <2>1, <2>2
<1> DEFINE q == Point(more \o Tail(todo), Append(sent, value), off + Len(image))
<1>5. trail' = Append(trail, q)
  <2>1. trail' = Append(trail, Point(todo', sent', off + Len(piece') +
                                     IF body = Null THEN 0 ELSE Len(body)))
    BY DEF Written
  <2>2. off + Len(piece') + (IF body = Null THEN 0 ELSE Len(body)) = off + Len(image)
    <3>1. Len(e) \in Nat /\ piece' = e
      BY <1>1
    <3>2. CASE body = Null
      BY <1>2, <1>4, <3>1, <3>2
    <3>3. CASE body # Null
      <4>1. Len(body) \in Nat
        BY <3>3, Images
      <4> QED BY <1>2, <1>4, <3>1, <3>3, <4>1
    <3> QED BY <3>2, <3>3
  <2> QED BY <1>1, <2>1, <2>2
<1>6. Len(Stream') = off + Len(image)
  BY <1>2, <1>4, Joined
<1>7. WriterInv'
  <2> SUFFICES ASSUME op = "record", ~lost
               PROVE  /\ IsTrail(trail', wanted, Stream')
                      /\ trail'[Len(trail')] = Point(todo', sent', Len(Stream'))
    BY <1>1 DEF WriterInv
  <2>1. /\ IsTrail(Append(trail, q), wanted, buf \o image)
        /\ Append(trail, q)[Len(Append(trail, q))] = q
    BY <1>1, <1>2, <1>4, TrailGrows
  <2> QED BY <1>1, <1>4, <1>5, <1>6, <2>1
<1> QED BY <1>3, <1>7

\* Each serialize function of a field.
LEMMA FieldsWritten ==
  ASSUME BytesInv, WriterInv, OutInv,
         \/ WriteInt \/ WriteLong \/ WriteBool \/ WriteString \/ WriteBuffer \/ WriteVector
  PROVE  BytesInv' /\ WriterInv'
<1>0. phase = "write" /\ rc = "OK" /\ content = Null /\ todo # <<>>
  BY DEF WriteInt, WriteLong, WriteBool, WriteString, WriteBuffer, WriteVector, Writing, Field1
<1>a. ASSUME NEW e \in Seq(Int), NEW value, NEW more, Put(e), Written(value, Null, more),
             \A b, p, q : p.todo = todo /\ Spans(b, p, q, e, value, more) => Follows(b, p, q)
      PROVE  BytesInv' /\ WriterInv'
  BY <1>0, <1>a, FieldWritten
<1>b. ASSUME NEW s \in Strings, Head(todo).kind \in {"string", "buffer"},
             PutInt(Len(s)), Written(s, s, <<>>)
      PROVE  BytesInv' /\ WriterInv'
  <2> DEFINE e == Encode(Len(s), IntSize)
  <2>1. e \in Seq(Int) /\ Put(e) /\ s # Null /\ s \in Strings \cup {Null}
    BY <1>b, Images, RecordsAssumption DEF PutInt
  <2>2. \A b, p, q : p.todo = todo /\ Spans(b, p, q, e \o s, s, <<>>) => Follows(b, p, q)
    BY <1>0, <1>b DEF Follows
  <2>3. e \o s = IF s = Null THEN e ELSE e \o s
    BY <2>1
  <2> HIDE DEF e
  <2> QED BY <1>0, <1>b, <2>1, <2>2, <2>3, FieldWritten
<1>1. CASE WriteInt
  <2>1. PICK n \in Ints : PutInt(n) /\ Written(n, Null, <<>>)
    BY <1>1 DEF WriteInt
  <2>2. \A b, p, q : p.todo = todo /\ Spans(b, p, q, Encode(n, IntSize), n, <<>>) =>
            Follows(b, p, q)
    BY <1>0, <1>1 DEF Follows, WriteInt, Writing, Field1
  <2> QED BY <1>a, <2>1, <2>2, Images DEF PutInt
<1>2. CASE WriteLong
  <2>1. PICK n \in Longs : PutLong(n) /\ Written(n, Null, <<>>)
    BY <1>2 DEF WriteLong
  <2>2. \A b, p, q : p.todo = todo /\ Spans(b, p, q, Encode(n, LongSize), n, <<>>) =>
            Follows(b, p, q)
    BY <1>0, <1>2 DEF Follows, WriteLong, Writing, Field1
  <2> QED BY <1>a, <2>1, <2>2, Images DEF PutLong
<1>3. CASE WriteBool
  <2>1. PICK n \in {0, 1} : PutBool(n) /\ Written(n, Null, <<>>)
    BY <1>3 DEF WriteBool
  <2>2. \A b, p, q : p.todo = todo /\ Spans(b, p, q, <<n>>, n, <<>>) => Follows(b, p, q)
    BY <1>0, <1>3 DEF Follows, WriteBool, Writing, Field1
  <2>3. <<n>> \in Seq(Int) /\ Put(<<n>>)
    BY <2>1 DEF PutBool
  <2> QED BY <1>a, <2>1, <2>2, <2>3
<1>4. CASE WriteString \/ WriteBuffer
  <2>1. Head(todo).kind \in {"string", "buffer"}
    BY <1>4 DEF WriteString, WriteBuffer, Writing, Field1
  <2>2. CASE PutInt(-1) /\ Written(Null, Null, <<>>)
    <3>1. \A b, p, q : p.todo = todo /\ Spans(b, p, q, Encode(-1, IntSize), Null, <<>>) =>
              Follows(b, p, q)
      BY <1>0, <2>1 DEF Follows
    <3> QED BY <1>a, <2>2, <3>1, Images DEF PutInt
  <2>3. CASE \E s \in Strings : PutInt(Len(s)) /\ Written(s, s, <<>>)
    BY <1>b, <2>1, <2>3
  <2> QED BY <1>4, <2>2, <2>3 DEF WriteString, WriteBuffer
<1>6. CASE WriteVector
  <2> DEFINE more(n) == Copies(n, Head(todo).of) \o <<VectorEnd>>
  <2>1. PICK n \in Counts : PutInt(n) /\ Written(n, Null, more(n))
    BY <1>6 DEF WriteVector
  <2>2. \A b, p, q : p.todo = todo /\ Spans(b, p, q, Encode(n, IntSize), n, more(n)) =>
            Follows(b, p, q)
    BY <1>0, <1>6 DEF Follows, WriteVector, Writing, Field1
  <2> HIDE DEF more
  <2> QED BY <1>a, <2>1, <2>2, Images DEF PutInt
<1> QED BY <1>1, <1>2, <1>3, <1>4, <1>6

\* The content that follows a length was part of the stream already.
LEMMA ContentWritten ==
  ASSUME BytesInv, WriterInv, DriverInv, WriteContent
  PROVE  BytesInv' /\ WriterInv'
<1>1. /\ at = "ready" /\ at' # "ready" /\ piece' = content /\ content # Null /\ content' = Null
      /\ UNCHANGED <<buf, off, phase, rc, wanted, op, cut, todo, sent, trail, lost>>
      /\ phase = "write" /\ rc = "OK"
  BY DEF WriteContent, Put
<1>2. content \in Seq(Int) /\ buf \in Seq(Int)
  BY <1>1, Images DEF DriverInv, BytesInv
<1>3. BytesInv'
  BY <1>1, <1>2 DEF BytesInv
<1>4. Stream' = Stream
  <2>1. Stream' = (buf \o content) \o <<>> /\ Stream = (buf \o <<>>) \o content
    BY <1>1 DEF Stream
  <2> QED BY <1>2, <2>1, Joined
<1> QED BY <1>1, <1>3, <1>4 DEF WriterInv

\* The end of a vector adds a point, and no bytes.
LEMMA EndWritten ==
  ASSUME BytesInv, WriterInv, OutInv, WriteEnd
  PROVE  BytesInv' /\ WriterInv'
<1> DEFINE q == Point(Tail(todo), sent, off)
<1>1. /\ at = "ready" /\ content = Null /\ todo' = Tail(todo) /\ trail' = Append(trail, q)
      /\ UNCHANGED <<at, piece, content, buf, off, phase, rc, wanted, op, cut, sent, lost>>
      /\ phase = "write" /\ rc = "OK" /\ todo # <<>> /\ Head(todo).kind = "end"
  BY DEF WriteEnd, Writing, Field1, outVars
<1>2. buf \in Seq(Int) /\ Len(buf) = off /\ off \in Nat
  BY <1>1, ArchiveAssumption DEF BytesInv, OutInv
<1>3. BytesInv'
  BY <1>1 DEF BytesInv
<1>4. Stream = buf /\ Stream' = buf
  <2>1. Stream = buf
    BY <1>1, <1>2, StreamReady
  <2> QED BY <1>1, <2>1 DEF Stream
<1>5. CASE op = "record" /\ ~lost
  <2> DEFINE p == trail[Len(trail)]
  <2>1. IsTrail(trail, wanted, buf) /\ p = Point(todo, sent, off)
    BY <1>1, <1>2, <1>4, <1>5 DEF WriterInv
  <2>2. p.todo = todo /\ p.sent = sent /\ p.to = off
    BY <2>1 DEF Point
  <2>3. Follows(buf, p, q)
    BY <1>1, <2>2 DEF Follows
  <2>4. Len(sent) \in Nat
    BY <2>1, <2>2 DEF IsTrail
  <2>5. q.sent = sent /\ q.to = off
    BY DEF Point
  <2>6. /\ IsTrail(Append(trail, q), wanted, buf)
        /\ Append(trail, q)[Len(Append(trail, q))] = q
    BY <1>2, <2>1, <2>3, <2>4, <2>5, TrailAppend
  <2>7. IsTrail(trail', wanted', Stream') /\ trail'[Len(trail')] = Point(todo', sent', Len(Stream'))
    BY <1>1, <1>2, <1>4, <2>6
  <2> QED BY <1>3, <2>7 DEF WriterInv
<1>6. CASE op # "record" \/ lost
  BY <1>1, <1>3, <1>6 DEF WriterInv
<1> QED BY <1>5, <1>6

\* Every step of the serializing.
LEMMA TrailWrites ==
  ASSUME BytesInv, WriterInv, OutInv, DriverInv, Serialize
  PROVE  BytesInv' /\ WriterInv' /\ ReaderInv' /\ ReturnInv'
<1>1. CASE GiveUp
  <2>1. /\ UNCHANGED <<buf, piece, at, content, cut, rc>> /\ phase = "write" /\ phase' = "done"
        /\ rc # "OK"
    BY <1>1 DEF GiveUp, outVars
  <2>2. rc' = "ENOMEM" /\ cut' = 0
    BY <2>1 DEF BytesInv
  <2> QED
    BY <2>1, <2>2 DEF BytesInv, WriterInv, ReaderInv, ReturnInv, RoundTrip, ShortNoticed, WasRead
<1>a. CASE CopyNowhere
  <2>1. /\ UNCHANGED <<buf, piece, content, cut, rc, lost>> /\ phase = "write" /\ phase' = "done"
        /\ block = 0 /\ (at = "copy" \/ rc = "OK")
    BY <1>a DEF CopyNowhere, Complete
  <2>2. lost'
    BY <2>1 DEF OutInv
  <2> QED
    BY <2>1, <2>2 DEF BytesInv, WriterInv, ReaderInv, ReturnInv, RoundTrip, ShortNoticed, WasRead
<1>2. CASE EndHeader
  <2>1. /\ UNCHANGED <<outVars, phase, rc, content, cut, op>> /\ phase = "write" /\ op # "record"
    BY <1>2 DEF EndHeader, Writing
  <2> QED
    BY <2>1
    DEF BytesInv, WriterInv, ReaderInv, ReturnInv, RoundTrip, ShortNoticed, WasRead, outVars
<1>3. CASE Serialize /\ ~GiveUp /\ ~EndHeader /\ ~CopyNowhere
  <2>1. phase' = "write"
    BY <1>3 DEF Serialize, WriteInt, WriteLong, WriteBool, WriteString, WriteBuffer,
                WriteContent, WriteVector, WriteEnd, Writing, Written
  <2>2. BytesInv' /\ WriterInv'
    BY <1>3, FieldsWritten, ContentWritten, EndWritten DEF Serialize
  <2> QED BY <2>1, <2>2 DEF ReaderInv, ReturnInv, RoundTrip, ShortNoticed, WasRead
<1> QED BY <1>1, <1>a, <1>2, <1>3

\* The stream is the same while the buffer grows, and when a piece of it is
\* copied.
LEMMA TrailGrow ==
  ASSUME BytesInv, WriterInv, OutInv, Grow
  PROVE  BytesInv' /\ WriterInv' /\ ReaderInv' /\ ReturnInv'
<1>1. /\ UNCHANGED <<piece, content, phase, wanted, op, cut, todo, sent, trail>>
      /\ phase = "write" /\ rc = "OK" /\ at # "ready" /\ (rc' = rc \/ rc' = "ENOMEM")
  BY DEF Grow, Double, Realloc, NoMemory, Copy, driver, OutInv
<1>2. ReaderInv' /\ ReturnInv'
  BY <1>1 DEF ReaderInv, ReturnInv, RoundTrip, ShortNoticed, WasRead
<1>3. CASE (Double \/ Realloc) /\ buf' = buf
  <2>1. UNCHANGED <<buf, off, rc, lost>> /\ at' # "ready"
    BY <1>1, <1>3 DEF Double, Realloc
  <2>2. Stream' = Stream
    BY <1>1, <2>1 DEF Stream
  <2> QED BY <1>1, <1>2, <2>1, <2>2 DEF BytesInv, WriterInv
<1>a. CASE Realloc /\ buf' # buf
  <2>1. UNCHANGED <<off, rc, lost>> /\ block = 0 /\ buf' \in [1..off -> Junk]
    BY <1>a DEF Realloc
  <2>2. lost'
    BY <1>1, <2>1 DEF OutInv
  <2>3. off \in Nat /\ Junk \subseteq Int
    BY ArchiveAssumption DEF OutInv
  <2>4. buf' \in [1..off -> Int]
    BY <2>1, <2>3
  <2>5. buf' \in Seq(Int) /\ Len(buf') = off
    BY <2>3, <2>4
  <2>6. buf' \in Seq(Int) /\ Len(buf') = off'
    BY <2>1, <2>5
  <2> QED BY <1>1, <1>2, <2>1, <2>2, <2>6 DEF BytesInv, WriterInv
<1>4. CASE NoMemory
  <2>1. UNCHANGED <<buf, off>> /\ (rc' = "ENOMEM" \/ lost')
    BY <1>4 DEF NoMemory
  <2> QED BY <1>1, <1>2, <2>1 DEF BytesInv, WriterInv
<1>5. CASE Copy
  <2>1. /\ buf' = SubSeq(buf, 1, off) \o piece /\ off' = off + Len(piece) /\ at' = "ready"
        /\ rc' = rc /\ lost' = lost
    BY <1>5 DEF Copy
  <2>2. buf \in Seq(Int) /\ piece \in Seq(Int) /\ Len(buf) = off
    BY <1>1 DEF BytesInv
  <2>3. SubSeq(buf, 1, off) = buf
    BY <2>2
  <2>4. buf' = buf \o piece /\ buf' \in Seq(Int) /\ Len(buf') = off'
    BY <2>1, <2>2, <2>3, Joined
  <2>5. BytesInv'
    BY <1>1, <2>1, <2>4 DEF BytesInv
  <2>6. Stream' = Stream
    <3>1. Stream' = (buf' \o <<>>) \o (IF content = Null THEN <<>> ELSE content)
      BY <1>1, <2>1 DEF Stream
    <3>2. Stream = (buf \o piece) \o (IF content = Null THEN <<>> ELSE content)
      BY <1>1 DEF Stream
    <3>3. buf' \o <<>> = buf \o piece
      BY <2>4, Joined
    <3> QED BY <3>1, <3>2, <3>3
  <2> QED BY <1>1, <1>2, <2>1, <2>5, <2>6 DEF WriterInv
<1>6. CASE Double \/ Realloc
  <2>1. CASE buf' = buf
    BY <1>3, <1>6, <2>1
  <2>2. CASE buf' # buf
    BY <1>a, <1>6, <2>2 DEF Double
  <2> QED BY <2>1, <2>2
<1> QED BY <1>4, <1>5, <1>6 DEF Grow

-----------------------------------------------------------------------------
(* What a deserialize function reads, of a frame that may be cut.          *)

\* Part of a sequence.
LEMMA Window ==
  ASSUME NEW s \in Seq(Int), NEW t \in Seq(Int), NEW m \in Nat,
         \A i \in 1..Len(t) : s[m + i] = t[i]
  PROVE  SubSeq(s, m + 1, m + Len(t)) = t
OBVIOUS

\* The bytes of a field in the frame: all of them, unless the frame is cut.
LEMMA FrameHolds ==
  ASSUME NEW bytes \in Seq(Int), NEW n \in Nat, n <= Len(bytes),
         frame = SubSeq(bytes, 1, n), NEW from \in Nat,
         NEW image \in Seq(Int), Holds(bytes, from, image)
  PROVE  /\ from + Len(image) > n => n < Len(bytes)
         /\ from + Len(image) <= n => SubSeq(frame, from + 1, from + Len(image)) = image
<1>1. Len(frame) = n /\ \A i \in 1..n : frame[i] = bytes[i]
  OBVIOUS
<1>2. frame \in Seq(Int) /\ Len(image) \in Nat
  OBVIOUS
<1>3. from + Len(image) <= Len(bytes) /\ \A i \in 1..Len(image) : bytes[from + i] = image[i]
  BY DEF Holds
<1>4. ASSUME from + Len(image) <= n
      PROVE  SubSeq(frame, from + 1, from + Len(image)) = image
  <2>1. \A i \in 1..Len(image) : from + i \in 1..n
    BY <1>2, <1>4
  <2>2. \A i \in 1..Len(image) : frame[from + i] = image[i]
    BY <1>1, <1>3, <2>1
  <2> QED BY <1>2, <2>2, Window
<1> QED BY <1>2, <1>3, <1>4

\* The two parts of a string or buffer.
LEMMA HoldsParts ==
  ASSUME NEW bytes, Len(bytes) \in Nat, NEW from \in Nat,
         NEW s \in Seq(Int), NEW t \in Seq(Int), Holds(bytes, from, s \o t)
  PROVE  Holds(bytes, from, s) /\ Holds(bytes, from + Len(s), t)
<1>1. /\ Len(s) \in Nat /\ Len(t) \in Nat /\ Len(s \o t) = Len(s) + Len(t)
      /\ \A i \in 1..Len(s) : (s \o t)[i] = s[i]
      /\ \A i \in 1..Len(t) : (s \o t)[Len(s) + i] = t[i]
  BY Joined
<1> DEFINE u == s \o t
<1>2. /\ from + Len(u) <= Len(bytes) /\ \A i \in 1..Len(u) : bytes[from + i] = u[i]
  BY DEF Holds
<1> HIDE DEF u
<1>3. Len(u) = Len(s) + Len(t) /\ (\A i \in 1..Len(s) : u[i] = s[i])
      /\ (\A i \in 1..Len(t) : u[Len(s) + i] = t[i])
  BY <1>1 DEF u
<1>4. Holds(bytes, from, s)
  <2>1. \A i \in 1..Len(s) : bytes[from + i] = s[i]
    BY <1>1, <1>2, <1>3
  <2>2. from + Len(s) <= Len(bytes)
    BY <1>1, <1>2, <1>3
  <2> QED BY <2>1, <2>2 DEF Holds
<1>5. Holds(bytes, from + Len(s), t)
  <2>1. ASSUME NEW i \in 1..Len(t) PROVE bytes[(from + Len(s)) + i] = t[i]
    <3>1. Len(s) + i \in 1..Len(u) /\ from + (Len(s) + i) = (from + Len(s)) + i
      BY <1>1, <1>3
    <3>2. bytes[from + (Len(s) + i)] = u[Len(s) + i]
      BY <1>2, <3>1
    <3>3. u[Len(s) + i] = t[i]
      BY <1>3
    <3> QED BY <3>1, <3>2, <3>3
  <2>2. (from + Len(s)) + Len(t) <= Len(bytes)
    BY <1>1, <1>2, <1>3
  <2> QED BY <2>1, <2>2 DEF Holds
<1> QED BY <1>4, <1>5

\* What the reader of a record knows of its frame.
Whole == /\ buf \in Seq(Int) /\ Len(buf) = off /\ off \in Nat /\ cut \in 0..off
         /\ size = off - cut /\ frame = SubSeq(buf, 1, off - cut)
         /\ pos \in 0..(off - cut) /\ rc = "OK"

\* Where a field of the whole record is in the frame.
LEMMA WholeLeft ==
  ASSUME Whole, NEW image \in Seq(Int), NEW from \in Nat, Holds(buf, from, image)
  PROVE  /\ Left = off - cut - pos /\ Left \in Nat /\ pos \in Nat /\ Len(image) \in Nat
         /\ from + Len(image) > off - cut => cut # 0
         /\ from + Len(image) <= off - cut => SubSeq(frame, from + 1, from + Len(image)) = image
<1> DEFINE whole == off - cut
<1>1. whole \in Nat /\ whole <= Len(buf) /\ frame = SubSeq(buf, 1, whole) /\ pos \in 0..whole
  BY DEF Whole
<1>2. Len(frame) = whole
  BY <1>1, PrefixLen
<1>3. /\ from + Len(image) > whole => whole < Len(buf)
      /\ from + Len(image) <= whole => SubSeq(frame, from + 1, from + Len(image)) = image
  <2>1. buf \in Seq(Int)
    BY DEF Whole
  <2> HIDE DEF whole
  <2> QED BY <1>1, <2>1, FrameHolds
<1>4. Left = whole - pos
  BY DEF Left, Whole
<1>5. whole < Len(buf) => cut # 0
  BY DEF Whole
<1>6. Len(image) \in Nat
  OBVIOUS
<1> QED BY <1>1, <1>3, <1>4, <1>5, <1>6

\* An int or a long is read as what was written, or cut off.
LEMMA IntRead ==
  ASSUME Whole, NEW w, NEW n, NEW e \in Seq(Int), Len(e) = w, Decode(e) = n,
         Holds(buf, pos, e), GetInt(w)
  PROVE  \/ rc' # "OK" /\ cut # 0
         \/ rc' = "OK" /\ got' = Append(got, n) /\ pos' = pos + w
<1>0. pos \in Nat
  BY DEF Whole
<1>a. /\ Left = off - cut - pos /\ Left \in Nat /\ w \in Nat
      /\ pos + w > off - cut => cut # 0
      /\ pos + w <= off - cut => SubSeq(frame, pos + 1, pos + w) = e
  BY <1>0, WholeLeft
<1>1. /\ Left = off - cut - pos /\ Left \in Nat /\ pos \in Nat /\ w \in Nat
      /\ pos + w > off - cut => cut # 0
      /\ pos + w <= off - cut => Ahead(w) = e
  BY <1>0, <1>a DEF Ahead
<1>2. off - cut \in Nat
  BY DEF Whole
<1>3. CASE Left < w
  <2>1. cut # 0
    BY <1>1, <1>2, <1>3
  <2>2. Short(w)
    BY <1>1, <1>3 DEF Short
  <2>3. rc' # "OK"
    BY <2>2 DEF GetInt, Fail
  <2> QED BY <2>1, <2>3
<1>4. CASE ~(Left < w)
  <2>1. Ahead(w) = e
    BY <1>1, <1>2, <1>4
  <2>a. ~Short(w)
    BY <1>1, <1>4 DEF Short
  <2>2. got' = Append(got, Decode(Ahead(w))) /\ pos' = pos + w /\ rc' = rc
    BY <2>a DEF GetInt
  <2> QED BY <2>1, <2>2 DEF Whole
<1> QED BY <1>3, <1>4

\* A bool is read as what was written, or cut off.
LEMMA BoolRead ==
  ASSUME Whole, NEW n \in {0, 1}, Holds(buf, pos, <<n>>), GetBool
  PROVE  \/ rc' # "OK" /\ cut # 0
         \/ rc' = "OK" /\ got' = Append(got, n) /\ pos' = pos + 1
<1> DEFINE e == <<n>>
<1>1. e \in Seq(Int) /\ Len(e) = 1 /\ e[1] = n
  OBVIOUS
<1>2. Holds(buf, pos, e)
  OBVIOUS
<1> HIDE DEF e
<1>0. pos \in Nat
  BY DEF Whole
<1>3. /\ Left = off - cut - pos /\ Left \in Nat /\ pos \in Nat
      /\ pos + 1 > off - cut => cut # 0
  BY <1>0, <1>1, <1>2, WholeLeft
<1>4. off - cut \in Nat
  BY DEF Whole
<1>5. CASE Left < 1
  <2>1. cut # 0
    BY <1>3, <1>4, <1>5
  <2>2. rc' # "OK"
    BY <1>5 DEF GetBool, Fail
  <2> QED BY <2>1, <2>2
<1>6. CASE ~(Left < 1)
  <2>1. pos + 1 \in 1..(off - cut)
    BY <1>3, <1>4, <1>6
  <2>2. frame[pos + 1] = buf[pos + 1]
    BY <1>4, <2>1 DEF Whole
  <2>3. buf[pos + 1] = n
    BY <1>1, <1>2 DEF Holds
  <2>4. got' = Append(got, frame[pos + 1]) /\ pos' = pos + 1 /\ rc' = rc
    BY <1>6 DEF GetBool
  <2> QED BY <2>2, <2>3, <2>4 DEF Whole
<1> QED BY <1>5, <1>6

\* The length in front of a string or buffer.
LEMMA CountRead ==
  ASSUME Whole, NEW e \in Seq(Int), Len(e) = IntSize, NEW n \in Int, Decode(e) = n,
         Holds(buf, pos, e)
  PROVE  /\ Left < IntSize => cut # 0 /\ ~AllThere
         /\ Left >= IntSize => Count = n /\ (AllThere <=> Left - IntSize >= n)
<1>0. pos \in Nat
  BY DEF Whole
<1>a. /\ Left = off - cut - pos /\ Left \in Nat
      /\ pos + IntSize > off - cut => cut # 0
      /\ pos + IntSize <= off - cut => SubSeq(frame, pos + 1, pos + IntSize) = e
  BY <1>0, WholeLeft
<1>1. /\ Left = off - cut - pos /\ Left \in Nat /\ pos \in Nat
      /\ pos + IntSize > off - cut => cut # 0
      /\ pos + IntSize <= off - cut => Ahead(IntSize) = e
  BY <1>0, <1>a DEF Ahead
<1>2. off - cut \in Nat /\ IntSize \in Nat
  BY ArchiveAssumption DEF Whole
<1>3. ASSUME Left < IntSize PROVE cut # 0 /\ ~AllThere
  BY <1>1, <1>2, <1>3 DEF AllThere
<1>4. ASSUME Left >= IntSize PROVE Count = n /\ (AllThere <=> Left - IntSize >= n)
  <2>1. Ahead(IntSize) = e
    BY <1>1, <1>2, <1>4
  <2>2. Count = n
    BY <2>1 DEF Count
  <2> QED BY <1>4, <2>2 DEF AllThere
<1> QED BY <1>3, <1>4

\* A string or buffer is read as what was written, or cut off.
LEMMA TextRead ==
  ASSUME Whole, NEW s \in Strings,
         Holds(buf, pos, Encode(Len(s), IntSize) \o s), GetString \/ GetBuffer
  PROVE  \/ rc' # "OK" /\ cut # 0
         \/ /\ rc' = "OK" /\ got' = Append(got, s)
            /\ pos' = pos + Len(Encode(Len(s), IntSize) \o s)
<1> DEFINE e == Encode(Len(s), IntSize)
           n == Len(s)
<1>1. s \in Seq(Int) /\ n \in Nat /\ e \in Seq(Int) /\ Len(e) = IntSize /\ Decode(e) = n
  BY Images
<1>2. pos \in Nat /\ off - cut \in Nat /\ IntSize \in Nat /\ Len(buf) \in Nat
  BY ArchiveAssumption DEF Whole
<1>3. Holds(buf, pos, e \o s)
  OBVIOUS
<1> HIDE DEF e
<1>4. /\ Holds(buf, pos, e) /\ Holds(buf, pos + IntSize, s) /\ Len(e \o s) = IntSize + n
  BY <1>1, <1>2, <1>3, HoldsParts, Joined
<1>5. /\ Left < IntSize => cut # 0 /\ ~AllThere
      /\ Left >= IntSize => Count = n /\ (AllThere <=> Left - IntSize >= n)
  BY <1>1, <1>4, CountRead
<1>6. /\ Left = off - cut - pos /\ Left \in Nat
      /\ (pos + IntSize) + n > off - cut => cut # 0
      /\ (pos + IntSize) + n <= off - cut =>
           SubSeq(frame, (pos + IntSize) + 1, (pos + IntSize) + n) = s
  BY <1>1, <1>2, <1>4, WholeLeft, SMTT(30)
<1> HIDE DEF n
<1>7. CASE ~AllThere
  <2>1. cut # 0
    BY <1>1, <1>2, <1>5, <1>6, <1>7
  <2>2. rc' # "OK"
    BY <1>7 DEF GetString, GetBuffer, CutOff, Fail
  <2> QED BY <2>1, <2>2
<1>8. CASE AllThere
  <2>1. Count = n /\ Left - IntSize >= n
    BY <1>2, <1>5, <1>6, <1>8
  <2>2. Data(n)
    <3>1. Count \in Nat /\ Count # -1 /\ ~(Count < -1) /\ ~(Count < 0)
      BY <1>1, <2>1
    <3> QED BY <1>8, <2>1, <3>1 DEF GetString, GetBuffer, CutOff
  <2>3. SubSeq(frame, pos + IntSize + 1, pos + IntSize + n) = s
    BY <1>1, <1>2, <1>6, <2>1
  <2>4. got' = Append(got, s) /\ pos' = pos + IntSize + n /\ rc' = rc
    BY <2>2, <2>3 DEF Data
  <2>5. pos' = pos + Len(e \o s)
    BY <1>1, <1>2, <1>4, <2>4
  <2> QED BY <2>4, <2>5 DEF Whole, e
<1> QED BY <1>7, <1>8

\* And so is a buffer that is NULL.
LEMMA NullRead ==
  ASSUME Whole, Holds(buf, pos, Encode(-1, IntSize)), GetBuffer
  PROVE  \/ rc' # "OK" /\ cut # 0
         \/ rc' = "OK" /\ got' = Append(got, Null) /\ pos' = pos + IntSize
<1> DEFINE e == Encode(-1, IntSize)
<1>1. e \in Seq(Int) /\ Len(e) = IntSize /\ Decode(e) = -1 /\ Holds(buf, pos, e)
  BY Images
<1> HIDE DEF e
<1>2. /\ Left < IntSize => cut # 0 /\ ~AllThere
      /\ Left >= IntSize => Count = -1 /\ (AllThere <=> Left - IntSize >= -1)
  BY <1>1, CountRead
<1>3. Left \in Nat /\ IntSize \in Nat
  <2>1. pos \in Nat
    BY DEF Whole
  <2> QED BY <1>1, <2>1, WholeLeft, ArchiveAssumption
<1>4. CASE Left < IntSize
  <2>1. rc' # "OK"
    BY <1>2, <1>4 DEF GetBuffer, CutOff, Fail
  <2> QED BY <1>2, <1>4, <2>1
<1>5. CASE Left >= IntSize
  <2>1. AllThere /\ Count = -1
    BY <1>2, <1>3, <1>5
  <2>2. got' = Append(got, Null) /\ pos' = pos + IntSize /\ rc' = rc
    BY <2>1 DEF GetBuffer, CutOff
  <2> QED BY <2>2 DEF Whole
<1> QED BY <1>3, <1>4, <1>5

\* A string that is NULL is not read.
LEMMA NullUnread ==
  ASSUME Whole, Holds(buf, pos, Encode(-1, IntSize)), GetString
  PROVE  rc' # "OK"
<1> DEFINE e == Encode(-1, IntSize)
<1>1. e \in Seq(Int) /\ Len(e) = IntSize /\ Decode(e) = -1 /\ Holds(buf, pos, e)
  BY Images
<1> HIDE DEF e
<1>2. /\ Left < IntSize => ~AllThere
      /\ Left >= IntSize => Count = -1
  BY <1>1, CountRead
<1>3. Left \in Nat /\ IntSize \in Nat
  <2>1. pos \in Nat
    BY DEF Whole
  <2> QED BY <1>1, <2>1, WholeLeft, ArchiveAssumption
<1>4. ~AllThere \/ Count = -1
  BY <1>2, <1>3
<1> QED BY <1>4 DEF GetString, CutOff, Fail

-----------------------------------------------------------------------------
(* The reader goes from point to point.                                    *)

\* Where the reader of a record is: at a point of the trail, with no NULL string
\* before it, and the field there is followed by the next point.
LEMMA ReaderAt ==
  ASSUME BytesInv, OutInv, FrameInv, ReaderInv, phase = "read", op = "record", ~lost, ~missed
  PROVE  /\ rc = "OK" /\ (size >= 0 => Whole)
         /\ cut \in Nat /\ off \in Nat /\ size = off - cut
         /\ \E k \in 1..Len(trail) :
              /\ trail[k] = Point(todo, got, pos) /\ Before(k)
              /\ todo = <<>> => k = Len(trail)
              /\ todo # <<>> =>
                   k + 1 \in 1..Len(trail) /\ Follows(buf, trail[k], trail[k + 1])
<1>1. /\ cut \in Nat /\ Len(buf) = off /\ size = off - cut /\ frame = SubSeq(buf, 1, size)
      /\ IsTrail(trail, wanted, buf) /\ trail[Len(trail)] = Point(<<>>, sent, off)
      /\ rc = "OK" /\ \E k \in 1..Len(trail) : trail[k] = Point(todo, got, pos) /\ Before(k)
  BY DEF ReaderInv
<1>2. buf \in Seq(Int) /\ off \in Nat
  BY ArchiveAssumption DEF BytesInv, OutInv
<1>3. size >= 0 => Whole
  <2> SUFFICES ASSUME size >= 0 PROVE Whole
    OBVIOUS
  <2>1. off - cut \in Nat /\ cut \in 0..off
    BY <1>1, <1>2
  <2>2. Len(frame) = off - cut
    BY <1>1, <2>1, PrefixLen
  <2>3. pos \in 0..(off - cut)
    BY <2>2 DEF FrameInv, WithinFrame
  <2> QED BY <1>1, <1>2, <2>1, <2>3 DEF Whole
<1>5. PICK k \in 1..Len(trail) : trail[k] = Point(todo, got, pos) /\ Before(k)
  BY <1>1
<1>6. trail[k].todo = todo /\ trail[Len(trail)].todo = <<>>
  BY <1>1, <1>5 DEF Point
<1>7. Len(trail) \in Nat \ {0} /\ \A j \in 1..Len(trail) - 1 : Follows(buf, trail[j], trail[j + 1])
  BY <1>1 DEF IsTrail
<1>8. CASE k = Len(trail)
  BY <1>1, <1>2, <1>3, <1>5, <1>6, <1>8
<1>9. CASE k # Len(trail)
  <2>1. k \in 1..Len(trail) - 1 /\ k + 1 \in 1..Len(trail)
    BY <1>7, <1>9
  <2>2. Follows(buf, trail[k], trail[k + 1])
    BY <1>7, <2>1
  <2>3. todo # <<>>
    BY <1>6, <2>2 DEF Follows
  <2> QED BY <1>1, <1>2, <1>3, <1>5, <2>1, <2>2, <2>3
<1> QED BY <1>8, <1>9

\* Of a frame with a negative length, no field is read.
LEMMA NothingRead ==
  ASSUME FrameInv, size < 0,
         ReadInt \/ ReadLong \/ ReadBool \/ ReadString \/ ReadBuffer \/ ReadVector
  PROVE  rc' # "OK"
<1>1. Left < 1 /\ GetBool
  BY FrameLeft, ArchiveAssumption
     DEF ReadInt, ReadLong, ReadBool, ReadString, ReadBuffer, ReadVector,
         GetInt, GetString, GetBuffer
<1> QED BY <1>1 DEF GetBool, Fail

\* What the deserialize function of the field at a point reads: the field, and
\* it comes to the next point; or it fails, because the frame is cut or the field
\* is a NULL string.
LEMMA FieldRead ==
  ASSUME Whole, NEW p, p = Point(todo, got, pos), NEW q, Follows(buf, p, q), Len(got) \in Nat,
         \/ ReadInt \/ ReadLong \/ ReadBool \/ ReadString \/ ReadBuffer \/ ReadVector
  PROVE  \/ rc' # "OK" /\ (cut # 0 \/ IsNull(p, q))
         \/ rc' = "OK" /\ q = Point(todo', got', pos') /\ ~IsNull(p, q)
<1>1. p.todo = todo /\ p.sent = got /\ p.to = pos
  BY DEF Point
<1>2. todo # <<>>
  BY <1>1 DEF Follows
<1>a. ASSUME NEW image, NEW value, NEW more, Spans(buf, p, q, image, value, more),
             Head(todo).kind # "string" \/ value # Null,
             rc' # "OK" \/ todo' = more \o Tail(todo),
             \/ rc' # "OK" /\ cut # 0
             \/ rc' = "OK" /\ got' = Append(got, value) /\ pos' = pos + Len(image)
      PROVE  \/ rc' # "OK" /\ cut # 0
             \/ rc' = "OK" /\ q = Point(todo', got', pos') /\ ~IsNull(p, q)
  <2>1. q = Point(more \o Tail(todo), Append(got, value), pos + Len(image))
    BY <1>1, <1>a DEF Spans
  <2>2. q.sent = Append(got, value)
    BY <2>1 DEF Point
  <2>3. ~IsNull(p, q)
    <3>1. CASE Head(todo).kind # "string"
      BY <1>1, <3>1 DEF IsNull
    <3>2. CASE value # Null
      <4>1. Append(got, value) # Append(got, Null)
        BY <3>2, Appended
      <4> QED BY <1>1, <2>2, <4>1 DEF IsNull
    <3> QED BY <1>a, <3>1, <3>2
  <2> QED BY <1>a, <2>1, <2>3
<1>b. ASSUME NEW image, NEW value, NEW more, Spans(buf, p, q, image, value, more)
      PROVE  Holds(buf, pos, image)
  BY <1>1, <1>b DEF Spans
<1>3. CASE ReadInt
  <2>1. Head(todo).kind = "int" /\ GetInt(IntSize) /\ todo' = <<>> \o Tail(todo)
    BY <1>3 DEF ReadInt, Reading, Field1, ReadOn
  <2>2. PICK n \in Ints : Spans(buf, p, q, Encode(n, IntSize), n, <<>>)
    BY <1>1, <2>1 DEF Follows
  <2> DEFINE e == Encode(n, IntSize)
  <2>3. e \in Seq(Int) /\ Len(e) = IntSize /\ Decode(e) = n /\ Holds(buf, pos, e)
    BY <1>b, <2>2, Images
  <2> HIDE DEF e
  <2>4. \/ rc' # "OK" /\ cut # 0
        \/ rc' = "OK" /\ got' = Append(got, n) /\ pos' = pos + Len(e)
    BY <2>1, <2>3, IntRead
  <2> QED BY <1>a, <2>1, <2>2, <2>4 DEF e
<1>4. CASE ReadLong
  <2>1. Head(todo).kind = "long" /\ GetInt(LongSize) /\ todo' = <<>> \o Tail(todo)
    BY <1>4 DEF ReadLong, Reading, Field1, ReadOn
  <2>2. PICK n \in Longs : Spans(buf, p, q, Encode(n, LongSize), n, <<>>)
    BY <1>1, <2>1 DEF Follows
  <2> DEFINE e == Encode(n, LongSize)
  <2>3. e \in Seq(Int) /\ Len(e) = LongSize /\ Decode(e) = n /\ Holds(buf, pos, e)
    BY <1>b, <2>2, Images
  <2> HIDE DEF e
  <2>4. \/ rc' # "OK" /\ cut # 0
        \/ rc' = "OK" /\ got' = Append(got, n) /\ pos' = pos + Len(e)
    BY <2>1, <2>3, IntRead
  <2> QED BY <1>a, <2>1, <2>2, <2>4 DEF e
<1>5. CASE ReadBool
  <2>1. Head(todo).kind = "bool" /\ GetBool /\ todo' = <<>> \o Tail(todo)
    BY <1>5 DEF ReadBool, Reading, Field1, ReadOn
  <2>2. PICK n \in {0, 1} : Spans(buf, p, q, <<n>>, n, <<>>)
    BY <1>1, <2>1 DEF Follows
  <2>3. Holds(buf, pos, <<n>>) /\ Len(<<n>>) = 1
    BY <1>b, <2>2
  <2>4. \/ rc' # "OK" /\ cut # 0
        \/ rc' = "OK" /\ got' = Append(got, n) /\ pos' = pos + Len(<<n>>)
    BY <2>1, <2>3, BoolRead
  <2> QED BY <1>a, <2>1, <2>2, <2>4
<1>6. CASE ReadString \/ ReadBuffer
  <2>1. /\ Head(todo).kind \in {"string", "buffer"} /\ todo' = <<>> \o Tail(todo)
        /\ IF Head(todo).kind = "buffer" THEN GetBuffer ELSE GetString
    BY <1>6 DEF ReadString, ReadBuffer, Reading, Field1, ReadOn
  <2>2. CASE \E s \in Strings : Spans(buf, p, q, Encode(Len(s), IntSize) \o s, s, <<>>)
    <3>1. PICK s \in Strings : Spans(buf, p, q, Encode(Len(s), IntSize) \o s, s, <<>>)
      BY <2>2
    <3>2. Holds(buf, pos, Encode(Len(s), IntSize) \o s)
      BY <1>b, <3>1
    <3>3. \/ rc' # "OK" /\ cut # 0
          \/ /\ rc' = "OK" /\ got' = Append(got, s)
             /\ pos' = pos + Len(Encode(Len(s), IntSize) \o s)
      BY <2>1, <3>2, TextRead
    <3>4. s # Null
      BY RecordsAssumption
    <3> QED BY <1>a, <2>1, <3>1, <3>3, <3>4
  <2>3. CASE GetBuffer /\ Head(todo).kind = "buffer" /\ Spans(buf, p, q, Encode(-1, IntSize), Null, <<>>)
    <3>1. Holds(buf, pos, Encode(-1, IntSize)) /\ Len(Encode(-1, IntSize)) = IntSize
      BY <1>b, <2>3, Images
    <3>2. \/ rc' # "OK" /\ cut # 0
          \/ rc' = "OK" /\ got' = Append(got, Null) /\ pos' = pos + Len(Encode(-1, IntSize))
      BY <2>1, <2>3, <3>1, NullRead
    <3> QED BY <1>a, <2>1, <2>3, <3>2
  <2>4. CASE GetString /\ Head(todo).kind = "string" /\ Spans(buf, p, q, Encode(-1, IntSize), Null, <<>>)
    <3>1. Holds(buf, pos, Encode(-1, IntSize))
      BY <1>b, <2>4
    <3>2. rc' # "OK"
      BY <2>4, <3>1, NullUnread
    <3>3. q = Point(<<>> \o Tail(todo), Append(got, Null), pos + Len(Encode(-1, IntSize)))
      BY <1>1, <2>4 DEF Spans
    <3>4. IsNull(p, q)
      BY <1>1, <1>2, <2>4, <3>3 DEF IsNull, Point
    <3> QED BY <3>2, <3>4
  <2> QED BY <1>1, <2>1, <2>2, <2>3, <2>4 DEF Follows
<1>7. CASE ReadVector
  <2> DEFINE More(n) == Copies(n, Head(todo).of) \o <<VectorEnd>>
  <2>1. Head(todo).kind = "vector" /\ GetInt(IntSize)
        /\ (rc' = "OK" => todo' = More(Last(got')) \o Tail(todo))
    BY <1>7 DEF ReadVector, Reading, Field1, ReadOn
  <2>2. PICK n \in Counts : Spans(buf, p, q, Encode(n, IntSize), n, More(n))
    BY <1>1, <2>1 DEF Follows
  <2> DEFINE e == Encode(n, IntSize)
  <2>3. e \in Seq(Int) /\ Len(e) = IntSize /\ Decode(e) = n /\ Holds(buf, pos, e)
    BY <1>b, <2>2, Images
  <2> HIDE DEF e
  <2>4. \/ rc' # "OK" /\ cut # 0
        \/ rc' = "OK" /\ got' = Append(got, n) /\ pos' = pos + Len(e)
    BY <2>1, <2>3, IntRead
  <2>5. got' = Append(got, n) => Last(got') = n
    BY Appended
  <2>6. rc' # "OK" \/ todo' = More(n) \o Tail(todo)
    BY <2>1, <2>4, <2>5
  <2>7. Head(todo).kind # "string"
    BY <2>1
  <2> HIDE DEF More
  <2> QED BY <1>a, <2>2, <2>4, <2>6, <2>7 DEF e
<1> QED BY <1>3, <1>4, <1>5, <1>6, <1>7

\* The reader comes to the next point of the trail, or misses a field.
LEMMA ReaderMoves ==
  ASSUME ReaderInv, phase = "read", op = "record", ~lost, ~missed,
         UNCHANGED <<buf, off, op, wanted, sent, trail, cut, frame, size, lost>>,
         missed' <=> rc' # "OK", NEW k \in 1..Len(trail), Before(k), k + 1 \in 1..Len(trail),
         \/ rc' # "OK" /\ (cut # 0 \/ IsNull(trail[k], trail[k + 1]))
         \/ /\ rc' = "OK" /\ trail[k + 1] = Point(todo', got', pos')
            /\ ~IsNull(trail[k], trail[k + 1])
  PROVE  ReaderInv'
<1>1. k \in 1..Len(trail) - 1
  OBVIOUS
<1>2. HasNull' = HasNull /\ Nulls' = Nulls
  BY DEF HasNull, Nulls
<1>3. IsNull(trail[k], trail[k + 1]) <=> k \in Nulls
  BY <1>1 DEF Nulls
<1>4. CASE rc' # "OK"
  <2>1. cut' # 0 \/ HasNull'
    BY <1>2, <1>3, <1>4 DEF HasNull
  <2> QED BY <1>4, <2>1 DEF ReaderInv
<1>5. CASE rc' = "OK"
  <2>1. Before(k + 1)'
    <3>1. \A j \in Nulls : j \in Nat /\ j >= k /\ j # k
      BY <1>3, <1>5 DEF Before, Nulls
    <3> QED BY <1>2, <3>1 DEF Before
  <2> QED BY <1>5, <2>1 DEF ReaderInv
<1> QED BY <1>4, <1>5

\* Nothing is asked of one that has missed a field.
LEMMA ReaderStays ==
  ASSUME ReaderInv, phase = "read", op = "record", ~lost, missed, missed',
         UNCHANGED <<buf, off, op, wanted, sent, trail, cut, frame, size, lost>>
  PROVE  ReaderInv'
BY DEF ReaderInv, HasNull, Nulls

\* A step of the deserializing that does not return.
LEMMA ReadingOn ==
  ASSUME BytesInv, OutInv, FrameInv, ReaderInv, phase = "read", op = "record", ~lost,
         phase' = "read", Deserialize
  PROVE  ReaderInv'
<1> DEFINE still == UNCHANGED <<buf, off, op, wanted, sent, trail, cut, frame, size, lost>>
<1>1. CASE missed
  <2>1. missed' /\ still
    BY <1>1 DEF Deserialize, ReadInt, ReadLong, ReadBool, ReadString, ReadBuffer, ReadVector,
                ReadOutside, Skip, EndVector, DecodeReplyHeader, Finish, Return, ReadOn,
                outVars, inVars
  <2> QED BY <1>1, <2>1, ReaderStays
<1>2. CASE ~missed
  <2>1. /\ rc = "OK" /\ (size >= 0 => Whole)
        /\ cut \in Nat /\ off \in Nat /\ size = off - cut
    BY <1>2, ReaderAt
  <2>2. PICK k \in 1..Len(trail) :
          /\ trail[k] = Point(todo, got, pos) /\ Before(k)
          /\ todo # <<>> => k + 1 \in 1..Len(trail) /\ Follows(buf, trail[k], trail[k + 1])
    BY <1>2, ReaderAt
  <2>3. trail[k].todo = todo /\ trail[k].sent = got /\ trail[k].to = pos /\ Len(got) \in Nat
    <3>1. IsTrail(trail, wanted, buf)
      BY DEF ReaderInv
    <3>2. trail[k].todo = todo /\ trail[k].sent = got /\ trail[k].to = pos
      BY <2>2 DEF Point
    <3> QED BY <3>1, <3>2 DEF IsTrail
  <2>4. CASE ReadInt \/ ReadLong \/ ReadBool \/ ReadString \/ ReadBuffer \/ ReadVector
    <3>1. todo # <<>> /\ still /\ (missed' <=> rc' # "OK")
      BY <1>2, <2>4 DEF ReadInt, ReadLong, ReadBool, ReadString, ReadBuffer, ReadVector,
                        Reading, Field1, ReadOn, outVars
    <3>2. \/ rc' # "OK" /\ (cut # 0 \/ IsNull(trail[k], trail[k + 1]))
          \/ /\ rc' = "OK" /\ trail[k + 1] = Point(todo', got', pos')
             /\ ~IsNull(trail[k], trail[k + 1])
      <4>1. CASE size >= 0
        BY <2>1, <2>2, <2>3, <2>4, <3>1, <4>1, FieldRead
      <4>2. CASE size < 0
        BY <2>1, <2>4, <4>2, NothingRead
      <4> QED BY <2>1, <4>1, <4>2
    <3> QED BY <1>2, <2>2, <3>1, <3>2, ReaderMoves
  <2>5. CASE EndVector
    <3>1. /\ todo # <<>> /\ Head(todo).kind = "end" /\ rc' = "OK" /\ todo' = Tail(todo)
          /\ still /\ UNCHANGED <<missed, got, pos>>
      BY <2>5 DEF EndVector, Field1, outVars, inVars
    <3>2. trail[k + 1] = Point(Tail(todo), got, pos)
      BY <2>2, <2>3, <3>1 DEF Follows
    <3>3. /\ rc' = "OK" /\ trail[k + 1] = Point(todo', got', pos')
          /\ ~IsNull(trail[k], trail[k + 1])
      BY <2>3, <3>1, <3>2 DEF IsNull
    <3>4. missed' <=> rc' # "OK"
      BY <1>2, <3>1
    <3> QED BY <1>2, <2>2, <3>1, <3>3, <3>4, ReaderMoves
  <2>7. CASE DecodeReplyHeader
    <3>1. todo # <<>> /\ Head(todo).kind = "reply"
      BY <2>7 DEF DecodeReplyHeader, Field1
    <3>2. FALSE
      BY <2>2, <2>3, <3>1 DEF Follows
    <3> QED BY <3>2
  <2>8. ~Skip /\ ~Finish /\ ~ReadOutside
    BY <2>1 DEF Skip, Finish, Return, ReadOutside
  <2> QED BY <2>4, <2>5, <2>7, <2>8 DEF Deserialize
<1> QED BY <1>1, <1>2

\* The reader returns: at the end of the trail, unless it has missed a field,
\* and never at the header of a reply; or it crashes, where the length of the
\* frame is negative.
LEMMA ReaderReturns ==
  ASSUME BytesInv, OutInv, FrameInv, ReaderInv, MissedInv', phase = "read", op = "record", ~lost,
         phase' = "done", Deserialize
  PROVE  ReturnInv'
<1>1. /\ DecodeReplyHeader \/ Finish \/ ReadOutside
      /\ UNCHANGED <<op, cut, rc, got, sent, pos, frame, wanted, off, trail, lost>>
  BY DEF Deserialize, ReadInt, ReadLong, ReadBool, ReadString, ReadBuffer, ReadVector,
         ReadOutside, Skip, EndVector, DecodeReplyHeader, Finish, Return, ReadOn, inVars, outVars
<1>a. HasNull' = HasNull /\ HasVector' = HasVector
  BY <1>1 DEF HasNull, Nulls, HasVector
<1>2. CASE missed
  <2>1. cut # 0 \/ HasNull
    BY <1>2 DEF ReaderInv
  <2>2. missed'
    BY <1>1, <1>2 DEF ReadOutside, DecodeReplyHeader, Finish, Return
  <2>3. SilentLoss'
    BY DEF MissedInv
  <2>4. RoundTrip'
    BY <1>1, <1>a, <2>1 DEF RoundTrip
  <2>5. result' = "OK" => HasVector'
    BY <1>1, <2>2, <2>3 DEF SilentLoss, Blind
  <2> QED BY <2>2, <2>4, <2>5 DEF ReturnInv, ShortNoticed
<1>3. CASE ~missed
  <2>1. rc = "OK" /\ cut \in Nat /\ off \in Nat /\ size = off - cut
    BY <1>3, ReaderAt
  <2>2. PICK k \in 1..Len(trail) :
          /\ trail[k] = Point(todo, got, pos) /\ Before(k)
          /\ todo = <<>> => k = Len(trail)
          /\ todo # <<>> => k + 1 \in 1..Len(trail) /\ Follows(buf, trail[k], trail[k + 1])
    BY <1>3, ReaderAt
  <2>3. trail[k].todo = todo /\ trail[k].sent = got /\ trail[k].to = pos
    BY <2>2 DEF Point
  <2>4. CASE DecodeReplyHeader
    <3>1. todo # <<>> /\ Head(todo).kind = "reply"
      BY <2>4 DEF DecodeReplyHeader, Field1
    <3>2. FALSE
      BY <2>2, <2>3, <3>1 DEF Follows
    <3> QED BY <3>2
  <2>5. CASE Finish
    <3>1. todo = <<>> /\ result' = Outcome
      BY <2>5 DEF Finish, Return
    <3>2. trail[k] = Point(<<>>, sent, off)
      BY <2>2, <3>1 DEF ReaderInv
    <3>3. got = sent /\ pos = off
      BY <2>3, <3>2 DEF Point
    <3>4. Len(frame) = off
      BY <2>1, <3>3 DEF FrameInv, WithinFrame
    <3>5. result' = "OK"
      BY <2>1, <3>1 DEF Outcome
    <3>6. RoundTrip'
      BY <1>1, <3>3, <3>4, <3>5 DEF RoundTrip
    <3>7. ~HasNull
      <4>1. k = Len(trail) /\ Len(trail) \in Nat
        BY <2>2, <3>1 DEF ReaderInv, IsTrail
      <4>2. \A j \in Nulls : j \in 1..Len(trail) - 1 /\ j >= Len(trail)
        BY <2>2, <4>1 DEF Before, Nulls
      <4> QED BY <4>1, <4>2 DEF HasNull
    <3>8. ShortNoticed'
      BY <1>1, <1>a, <2>1, <3>4, <3>7 DEF ShortNoticed
    <3> QED BY <3>6, <3>8 DEF ReturnInv
  <2>6. CASE ReadOutside
    <3>1. missed' /\ result' = "no_frame"
      BY <2>6 DEF ReadOutside
    <3>2. size < 0
      BY <2>6, FrameLeft, ArchiveAssumption DEF ReadOutside, Width
    <3>3. cut # 0
      BY <2>1, <3>2
    <3> QED BY <1>1, <3>1, <3>3 DEF ReturnInv, RoundTrip, ShortNoticed
  <2> QED BY <1>1, <2>4, <2>5, <2>6
<1> QED BY <1>2, <1>3

\* Every step of the deserializing.
LEMMA TrailReads ==
  ASSUME BytesInv, OutInv, FrameInv, ReaderInv, MissedInv', Deserialize
  PROVE  BytesInv' /\ WriterInv' /\ ReaderInv' /\ ReturnInv'
<1>1. /\ phase = "read" /\ phase' \in {"read", "done"} /\ op' = op
      /\ UNCHANGED <<buf, piece, lost>>
  BY DEF Deserialize, ReadInt, ReadLong, ReadBool, ReadString, ReadBuffer, ReadVector, Reading,
         ReadOutside, Skip, EndVector, DecodeReplyHeader, Finish, Return, ReadOn, outVars
<1>2. BytesInv' /\ WriterInv'
  BY <1>1 DEF BytesInv, WriterInv
<1>3. CASE op # "record" \/ lost
  BY <1>1, <1>2, <1>3 DEF ReaderInv, ReturnInv, RoundTrip, ShortNoticed, WasRead
<1>4. CASE op = "record" /\ ~lost /\ phase' = "read"
  <2>1. ReaderInv'
    BY <1>1, <1>4, ReadingOn
  <2> QED BY <1>2, <1>4, <2>1 DEF ReturnInv, RoundTrip, ShortNoticed, WasRead
<1>5. CASE op = "record" /\ ~lost /\ phase' = "done"
  <2>1. ReturnInv'
    BY <1>1, <1>5, ReaderReturns
  <2> QED BY <1>2, <1>5, <2>1 DEF ReaderInv
<1> QED BY <1>1, <1>3, <1>4, <1>5

-----------------------------------------------------------------------------
(* The trail in every step.                                                *)

\* Nothing is written yet.
LEMMA TrailInit == Init => BytesInv /\ WriterInv /\ ReaderInv /\ ReturnInv
<1> SUFFICES ASSUME Init PROVE BytesInv /\ WriterInv /\ ReaderInv /\ ReturnInv
  OBVIOUS
<1>1. /\ phase = "idle" /\ off = 0 /\ buf = <<>> /\ piece = <<>> /\ at = "ready"
      /\ content = Null /\ sent = <<>> /\ cut = 0 /\ rc = "OK"
  BY DEF Init, NewBlock
<1>2. BytesInv
  BY <1>1 DEF BytesInv
<1> QED BY <1>1, <1>2 DEF WriterInv, ReaderInv, ReturnInv, RoundTrip, ShortNoticed, WasRead

\* The trail begins with the record.
LEMMA TrailBegins ==
  ASSUME BytesInv, NEW x \in Exchanges, Begin(x)
  PROVE  BytesInv' /\ WriterInv' /\ ReaderInv' /\ ReturnInv'
<1>1. /\ phase = "idle" /\ phase' = "write" /\ op' = x.op /\ todo' = x.written
      /\ wanted' = x.wanted /\ trail' = <<Point(x.written, <<>>, 0)>>
      /\ UNCHANGED <<buf, piece, at, off, rc, sent, content, cut>>
  BY DEF Begin, outVars
<1>2. /\ off = 0 /\ buf = <<>> /\ at = "ready" /\ content = Null /\ sent = <<>>
      /\ cut = 0 /\ rc \in {"OK", "ENOMEM"}
  BY <1>1 DEF BytesInv
<1>3. BytesInv'
  <2>1. buf' \in Seq(Int) /\ piece' \in Seq(Int)
    BY <1>1 DEF BytesInv
  <2>2. Len(buf') = off'
    BY <1>1, <1>2
  <2> QED BY <1>1, <1>2, <2>1, <2>2 DEF BytesInv
<1>4. WriterInv'
  <2> SUFFICES ASSUME op' = "record"
               PROVE  /\ IsTrail(trail', wanted', Stream')
                      /\ trail'[Len(trail')] = Point(todo', sent', Len(Stream'))
    BY DEF WriterInv
  <2>1. x.written = x.wanted
    BY <1>1, RecordsAssumption
  <2>2. Stream' = <<>>
    BY <1>1, <1>2 DEF Stream
  <2> DEFINE p == Point(x.wanted, <<>>, 0)
  <2>3. Len(trail') = 1 /\ trail'[1] = p
    BY <1>1, <2>1
  <2>4. p.sent = <<>> /\ p.to = 0
    BY DEF Point
  <2>5. p = Point(todo', sent', Len(Stream')) /\ p = Point(wanted', <<>>, 0)
    BY <1>1, <1>2, <2>1, <2>2
  <2> HIDE DEF p
  <2>6. \A k \in 1..Len(trail') : Len(trail'[k].sent) \in Nat /\ trail'[k].to \in 0..Len(Stream')
    <3>1. Len(<<>>) = 0
      OBVIOUS
    <3> QED BY <2>2, <2>3, <2>4, <3>1
  <2>7. \A k \in 1..Len(trail') - 1 : Follows(Stream', trail'[k], trail'[k + 1])
    BY <2>3
  <2>8. IsTrail(trail', wanted', Stream')
    BY <2>3, <2>5, <2>6, <2>7 DEF IsTrail
  <2> QED BY <2>3, <2>5, <2>8
<1> QED BY <1>1, <1>3, <1>4 DEF ReaderInv, ReturnInv, RoundTrip, ShortNoticed, WasRead

\* The reader begins at the first point.
LEMMA TrailDelivered ==
  ASSUME BytesInv, WriterInv, OutInv, MissedInv, NEW k \in Cuts, Deliver(k)
  PROVE  BytesInv' /\ WriterInv' /\ ReaderInv' /\ ReturnInv'
<1>1. /\ phase = "write" /\ phase' = "read" /\ rc = "OK" /\ at = "ready" /\ content = Null
      /\ todo = <<>> /\ todo' = wanted /\ cut' = k
      /\ frame' = SubSeq(buf, 1, off - k) /\ size' = off - k /\ pos' = 0 /\ got' = <<>>
      /\ UNCHANGED <<buf, piece, off, rc, op, wanted, sent, trail, missed, lost>>
  BY DEF Deliver, Complete, NewFrame, outVars
<1>2. BytesInv' /\ WriterInv'
  BY <1>1 DEF BytesInv, WriterInv
<1>3. ReaderInv'
  <2> SUFFICES ASSUME op = "record", ~lost
               PROVE  /\ cut' \in Nat /\ Len(buf) = off /\ size' = off - cut'
                      /\ frame' = SubSeq(buf, 1, size')
                      /\ IsTrail(trail, wanted, buf) /\ trail[Len(trail)] = Point(<<>>, sent, off)
                      /\ ~missed /\ rc = "OK"
                      /\ \E j \in 1..Len(trail) :
                           trail[j] = Point(todo', got', pos') /\ Before(j)'
    BY <1>1 DEF ReaderInv
  <2>1. buf \in Seq(Int) /\ Len(buf) = off /\ Stream = buf
    BY <1>1, StreamReady DEF BytesInv
  <2>2. IsTrail(trail, wanted, buf) /\ trail[Len(trail)] = Point(<<>>, sent, off)
    BY <1>1, <2>1 DEF WriterInv
  <2>3. ~missed
    BY <1>1 DEF MissedInv
  <2>4. cut' \in Nat
    BY <1>1, RecordsAssumption
  <2>5. 1 \in 1..Len(trail) /\ trail[1] = Point(wanted, <<>>, 0)
    BY <2>2 DEF IsTrail
  <2>6. Before(1)'
    BY DEF Before, Nulls
  <2> QED BY <1>1, <2>1, <2>2, <2>3, <2>4, <2>5, <2>6
<1> QED BY <1>1, <1>2, <1>3 DEF ReturnInv, RoundTrip, ShortNoticed, WasRead

\* Every step.
LEMMA TrailStep ==
  ASSUME BytesInv, WriterInv, ReaderInv, ReturnInv, OutInv, DriverInv, FrameInv,
         MissedInv, MissedInv', [Next]_vars
  PROVE  BytesInv' /\ WriterInv' /\ ReaderInv' /\ ReturnInv'
<1>1. CASE Destroy
  <2>1. /\ phase' = "idle" /\ off' = 0 /\ buf' = <<>> /\ piece' = <<>> /\ at' = "ready"
        /\ content' = Null /\ sent' = <<>> /\ cut' = 0 /\ rc' = "OK"
    BY <1>1 DEF Destroy
  <2>2. BytesInv'
    BY <2>1 DEF BytesInv
  <2> QED BY <2>1, <2>2 DEF WriterInv, ReaderInv, ReturnInv, RoundTrip, ShortNoticed, WasRead
<1>2. CASE UNCHANGED vars
  <2>1. UNCHANGED <<buf, piece, at, off, rc, frame, size, pos, got, phase, op, todo, wanted, sent,
                    trail, content, cut, missed, result, lost>>
    BY <1>2 DEF vars, outVars, inVars, driver
  <2> QED
    BY <2>1 DEF BytesInv, WriterInv, ReaderInv, ReturnInv, RoundTrip, ShortNoticed, WasRead,
                HasVector, HasNull, Nulls, Before, Stream
<1> QED
  BY <1>1, <1>2, TrailBegins, TrailWrites, TrailGrow, TrailDelivered, TrailReads DEF Next

\* The trail leads from the first field to the last, in every behaviour.
LEMMA TrailInvariant == Spec => [](BytesInv /\ WriterInv /\ ReaderInv /\ ReturnInv)
BY InitOut, Step, MissedInit, MissedStep, TrailInit, TrailStep, PTL DEF Spec

\* A record of any schema, with ints, longs, bools, strings, buffers (NULL ones
\* too) and vectors of vectors, that arrives whole is read back: the
\* deserialize functions of jute and recordio.c read what the serialize
\* functions wrote, field by field and up to the last byte.  A record with a NULL
\* string is the exception.
THEOREM RecordsReadBack == Spec => []RoundTrip
<1>1. ReturnInv => RoundTrip
  BY DEF ReturnInv
<1> QED BY <1>1, TrailInvariant, PTL

\* A record that arrives short by any number of bytes, or that has a NULL string,
\* has a field that could not be read, and unless it has a vector the reader is
\* told so.
THEOREM CutsNoticed == Spec => []ShortNoticed
<1>1. ReturnInv => ShortNoticed
  BY DEF ReturnInv
<1> QED BY <1>1, TrailInvariant, PTL
=============================================================================
